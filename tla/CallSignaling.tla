---------------------------- MODULE CallSignaling ----------------------------
(***************************************************************************)
(* 1:1 call signalling on the server: the calls table, the handlers of     *)
(* CallSignalingService and the sweep, one SQL statement per step.         *)
(*                                                                         *)
(* A socket's messages are not handled one after another: the gateway      *)
(* starts handleClientMessage for each and waits for none, and a close     *)
(* starts handleDisconnect beside the handlers already running.  So every  *)
(* handler is a worker that takes one statement at a time, between any     *)
(* two of which anything else may run.                                     *)
(*                                                                         *)
(* Clients are unconstrained: any device sends any call message at any     *)
(* time.  `ringing' and the relays (offer, answer, ice, media) read one    *)
(* row, write nothing and are not modelled; nor are the answers sent to    *)
(* the asking connection only.  Time is not modelled either: the sweep may *)
(* find any ringing call past its ring timeout and any marked one past the *)
(* reconnect grace period.                                                 *)
(***************************************************************************)
EXTENDS Naturals, FiniteSets

CONSTANTS
  Users,      \* people
  Calls,      \* call ids, generated by the caller's client
  Conns,      \* realtime connections; each is opened once
  Owner,      \* the user of each connection
  Blockable,  \* bound: pairs <<a, b>> where a may block b
  Workers,    \* handlers running at one time
  MaxCrashes, \* bound: restarts of the API node
  NoUser,
  NoCall,
  NoConn

ASSUME SignalingAssumption ==
  /\ Owner \in [Conns -> Users]
  /\ Blockable \subseteq Users \X Users
  /\ MaxCrashes \in Nat
  /\ NoUser \notin Users
  /\ NoCall \notin Calls
  /\ NoConn \notin Conns

VARIABLES
  calls,     \* the calls table
  blocks,    \* pairs <<a, b>>: a has blocked b
  conn,      \* the state of each connection
  work,      \* the handlers in flight
  due,       \* ends whose announcement is still to come
  announced, \* announcements made of each call's end
  told,      \* lifecycle events published to people
  crashes    \* restarts so far

vars == <<calls, blocks, conn, work, due, announced, told, crashes>>

-----------------------------------------------------------------------------
Statuses == {"none", "ringing", "active", "ended"}
Reasons == {"none", "busy", "cancelled", "declined", "missed", "completed",
            "connection-lost"}

(* One row; `gone' is the set of sides whose *DisconnectedAt is set.       *)
CallRows ==
  [status : Statuses, reason : Reasons,
   caller : Users \cup {NoUser}, callee : Users \cup {NoUser},
   callerConn : Conns \cup {NoConn}, calleeConn : Conns \cup {NoConn},
   gone : SUBSET {"caller", "callee"}, silenced : BOOLEAN]

NoRow ==
  [status |-> "none", reason |-> "none", caller |-> NoUser, callee |-> NoUser,
   callerConn |-> NoConn, calleeConn |-> NoConn, gone |-> {},
   silenced |-> FALSE]

(* handleDisconnect is three UPDATEs.                                      *)
ConnStates == {"new", "open", "cancelling", "markingCaller", "markingCallee",
               "closed"}

WorkSteps == {"free", "invite", "block", "callee", "insert", "endBusy", "incoming",
              "accept", "accepted", "hangUp", "end", "resume", "resumeCallee"}
Actions == {"none", "decline", "cancel", "end"}

(* A handler: its next statement, the call and connection it is about, the *)
(* callee of an invite, whether they were found to have blocked the caller *)
(* and to be busy, what a hang-up asked for and the reason it settled on.  *)
WorkRows ==
  [at : WorkSteps, call : Calls \cup {NoCall}, conn : Conns \cup {NoConn},
   callee : Users \cup {NoUser}, silenced : BOOLEAN, busy : BOOLEAN,
   action : Actions, reason : Reasons]

Job(step, k, c, u, a) ==
  [at |-> step, call |-> k, conn |-> c, callee |-> u, silenced |-> FALSE,
   busy |-> FALSE, action |-> a, reason |-> "none"]

Free == Job("free", NoCall, NoConn, NoUser, "none")

EventTypes == {"incoming", "accepted", "ended"}

TypeOK ==
  /\ calls \in [Calls -> CallRows]
  /\ blocks \subseteq Users \X Users
  /\ conn \in [Conns -> ConnStates]
  /\ work \in [Workers -> WorkRows]
  /\ \A w \in Workers :
       work[w].at # "free" => work[w].call \in Calls /\ work[w].conn \in Conns
  /\ due \in [Calls -> Nat]
  /\ announced \in [Calls -> Nat]
  /\ told \subseteq Users \X Calls \X EventTypes
  /\ crashes \in Nat

-----------------------------------------------------------------------------
Open(k) == calls[k].status \in {"ringing", "active"}
InCall(u) == {k \in Calls : Open(k) /\ u \in {calls[k].caller, calls[k].callee}}

Goto(w, step) == work' = [work EXCEPT ![w].at = step]
Done(w) == work' = [work EXCEPT ![w] = Free]

(* endCall of every call in K: each row that this UPDATE ended is one      *)
(* announcement its caller owes.                                           *)
EndRows(K, reason) ==
  /\ calls' = [k \in Calls |->
       IF k \in K THEN [calls[k] EXCEPT !.status = "ended", !.reason = reason]
                  ELSE calls[k]]
  /\ due' = [k \in Calls |-> IF k \in K THEN due[k] + 1 ELSE due[k]]

(* Mutant: endCall without its condition on the status.                    *)
EndCallAnyway(k, reason, from) == EndRows({k}, reason)

(* endCall(id, reason, from): nothing happens unless the call is in `from'.*)
EndCall(k, reason, from) ==
  EndRows({j \in {k} : calls[j].status = from}, reason)

Marks == <<blocks, due, announced, told, crashes>>
Outside == <<blocks, conn, announced, told, crashes>>

-----------------------------------------------------------------------------
(* Mutants: what a bug in one statement would look like.  No action uses   *)
(* them; each breaks a property below.                                     *)

(* A disconnect marks finished calls too.                                  *)
MarkCallerAlways(c) ==
  /\ conn[c] = "markingCaller"
  /\ calls' = [k \in Calls |->
       IF calls[k].callerConn = c
       THEN [calls[k] EXCEPT !.gone = @ \cup {"caller"}] ELSE calls[k]]
  /\ conn' = [conn EXCEPT ![c] = "markingCallee"]
  /\ UNCHANGED <<work, Marks>>

(* The sweep takes a call for lost when both sides are gone.               *)
SweepLostBoth(k) ==
  /\ calls[k].status = "active"
  /\ calls[k].gone = {"caller", "callee"}
  /\ EndRows({k}, "connection-lost")
  /\ UNCHANGED <<work, Outside>>

(* The sweep passes over calls whose caller is still connected.            *)
SweepMissedOrphans(k) ==
  /\ calls[k].status = "ringing"
  /\ conn[calls[k].callerConn] # "open"
  /\ EndRows({k}, "missed")
  /\ UNCHANGED <<work, Outside>>

(* The handler goes on after it refused a call as busy.                    *)
EndBusyAndRing(w) ==
  /\ work[w].at = "endBusy"
  /\ EndCall(work[w].call, "busy", "ringing")
  /\ Goto(w, "incoming")
  /\ UNCHANGED Outside

(* The end of a silenced call is told to the callee.                       *)
AudienceOfAll(k) == {calls[k].caller, calls[k].callee}

(* The end is announced by a poll of the table, not by who ended it.       *)
AnnounceEndedPolled(k) ==
  /\ calls[k].status = "ended"
  /\ announced[k] < 2
  /\ due' = [due EXCEPT ![k] = @ - 1]
  /\ announced' = [announced EXCEPT ![k] = @ + 1]
  /\ told' = told \cup {<<u, k, "ended">> : u \in {calls[k].caller}}
  /\ UNCHANGED <<calls, blocks, conn, work, crashes>>

-----------------------------------------------------------------------------
Init ==
  /\ calls = [k \in Calls |-> NoRow]
  /\ blocks = {}
  /\ conn = [c \in Conns |-> "new"]
  /\ work = [w \in Workers |-> Free]
  /\ due = [k \in Calls |-> 0]
  /\ announced = [k \in Calls |-> 0]
  /\ told = {}
  /\ crashes = 0

(* A socket is registered: from here on its messages are handled.          *)
Connect(c) ==
  /\ conn[c] = "new"
  /\ conn' = [conn EXCEPT ![c] = "open"]
  /\ UNCHANGED <<calls, work, Marks>>

(* It closes, whatever is being handled for it.                            *)
Disconnect(c) ==
  /\ conn[c] = "open"
  /\ conn' = [conn EXCEPT ![c] = "cancelling"]
  /\ UNCHANGED <<calls, work, Marks>>

(* A message arrives on an open socket and its handler starts.             *)
Receive(w, c, job) ==
  /\ work[w] = Free
  /\ conn[c] = "open"
  /\ work' = [work EXCEPT ![w] = job]
  /\ UNCHANGED <<calls, conn, Marks>>

ReceiveInvite(w, c, k, u) ==
  /\ u # Owner[c]
  /\ <<Owner[c], u>> \notin blocks
  /\ Receive(w, c, Job("invite", k, c, u, "none"))
ReceiveAccept(w, c, k) == Receive(w, c, Job("accept", k, c, NoUser, "none"))
ReceiveHangUp(w, c, k, a) == Receive(w, c, Job("hangUp", k, c, NoUser, a))
ReceiveResume(w, c, k) == Receive(w, c, Job("resume", k, c, NoUser, "none"))

-----------------------------------------------------------------------------
(* invite.                                                                 *)

(* findOpenCallForUser(caller): refused as busy, or on.                    *)
CheckCaller(w) ==
  /\ work[w].at = "invite"
  /\ IF InCall(Owner[work[w].conn]) # {} THEN Done(w) ELSE Goto(w, "block")
  /\ UNCHANGED <<calls, conn, Marks>>

(* isBlocked(callee, caller), the call will then be a silent one, and      *)
(* findOpenCallForUser(callee) if it is not.                               *)
CheckBlock(w) ==
  LET silenced == <<work[w].callee, Owner[work[w].conn]>> \in blocks
  IN  /\ work[w].at = "block"
      /\ work' = [work EXCEPT ![w].silenced = silenced,
                              ![w].at = IF silenced THEN "insert" ELSE "callee"]
      /\ UNCHANGED <<calls, conn, Marks>>

CheckCallee(w) ==
  /\ work[w].at = "callee"
  /\ work' = [work EXCEPT ![w].at = "insert",
                          ![w].busy = InCall(work[w].callee) # {}]
  /\ UNCHANGED <<calls, conn, Marks>>

(* insertCall; an id that exists already is a retried invite.              *)
InsertCall(w) ==
  LET k == work[w].call
  IN  /\ work[w].at = "insert"
      /\ IF calls[k].status # "none"
         THEN Done(w) /\ UNCHANGED calls
         ELSE /\ calls' = [calls EXCEPT ![k] =
                   [NoRow EXCEPT !.status = "ringing",
                                 !.caller = Owner[work[w].conn],
                                 !.callee = work[w].callee,
                                 !.callerConn = work[w].conn,
                                 !.silenced = work[w].silenced]]
              /\ IF work[w].busy THEN Goto(w, "endBusy")
                 ELSE IF work[w].silenced THEN Done(w) ELSE Goto(w, "incoming")
      /\ UNCHANGED <<conn, Marks>>

EndBusy(w) ==
  /\ work[w].at = "endBusy"
  /\ EndCall(work[w].call, "busy", "ringing")
  /\ Done(w)
  /\ UNCHANGED Outside

PublishIncoming(w) ==
  /\ work[w].at = "incoming"
  /\ told' = told \cup {<<work[w].callee, work[w].call, "incoming">>}
  /\ Done(w)
  /\ UNCHANGED <<calls, blocks, conn, due, announced, crashes>>

-----------------------------------------------------------------------------
(* accept: the conditional UPDATE decides, then both people are told.      *)

(* Mutants: accept by whoever is asking, and of a call that is over.       *)
AcceptableByAnyone(k, u) ==
  calls[k].status = "ringing" /\ ~calls[k].silenced

AcceptableLate(k, u) ==
  /\ calls[k].status \in {"ringing", "ended"}
  /\ calls[k].callee = u
  /\ ~calls[k].silenced

Acceptable(k, u) ==
  /\ calls[k].status = "ringing"
  /\ calls[k].callee = u
  /\ ~calls[k].silenced

(* Mutant: "accepted" is published whether or not the UPDATE found the     *)
(* call ringing.                                                           *)
AcceptCallAnyway(w) ==
  LET k == work[w].call
      c == work[w].conn
  IN  /\ work[w].at = "accept"
      /\ calls' = IF Acceptable(k, Owner[c])
                  THEN [calls EXCEPT ![k].status = "active",
                                     ![k].calleeConn = c]
                  ELSE calls
      /\ Goto(w, "accepted")
      /\ UNCHANGED <<conn, Marks>>

AcceptCall(w) ==
  LET k == work[w].call
      c == work[w].conn
  IN  /\ work[w].at = "accept"
      /\ IF Acceptable(k, Owner[c])
         THEN /\ calls' = [calls EXCEPT ![k].status = "active",
                                        ![k].calleeConn = c]
              /\ Goto(w, "accepted")
         ELSE Done(w) /\ UNCHANGED calls
      /\ UNCHANGED <<conn, Marks>>

PublishAccepted(w) ==
  LET k == work[w].call
  IN  /\ work[w].at = "accepted"
      /\ told' = told \cup {<<u, k, "accepted">> :
                              u \in {calls[k].caller, calls[k].callee}}
      /\ Done(w)
      /\ UNCHANGED <<calls, blocks, conn, due, announced, crashes>>

-----------------------------------------------------------------------------
(* decline, cancel, end: what to do is chosen from the row as it was read, *)
(* and done by a second statement.                                         *)

ReasonFor(row, u, action) ==
  CASE row.status = "ringing" /\ row.caller = u /\ action # "decline"
         -> "cancelled"
    [] row.status = "ringing" /\ row.callee = u /\ action # "cancel"
         /\ ~row.silenced
         -> "declined"
    [] row.status = "active" /\ u \in {row.caller, row.callee}
         /\ action = "end"
         -> "completed"
    [] OTHER -> "none"

HangUp(w) ==
  LET reason == ReasonFor(calls[work[w].call], Owner[work[w].conn],
                          work[w].action)
  IN  /\ work[w].at = "hangUp"
      /\ IF reason = "none"
         THEN Done(w)
         ELSE work' = [work EXCEPT ![w].at = "end", ![w].reason = reason]
      /\ UNCHANGED <<calls, conn, Marks>>

EndHungUp(w) ==
  /\ work[w].at = "end"
  /\ EndCall(work[w].call, work[w].reason,
             IF work[w].reason = "completed" THEN "active" ELSE "ringing")
  /\ Done(w)
  /\ UNCHANGED Outside

-----------------------------------------------------------------------------
(* resume: two UPDATEs, as caller and, failing that, as callee.            *)

ResumeCaller(w) ==
  LET k == work[w].call
      c == work[w].conn
  IN  /\ work[w].at = "resume"
      /\ IF calls[k].status = "active" /\ calls[k].caller = Owner[c]
         THEN /\ calls' = [calls EXCEPT ![k].callerConn = c,
                                        ![k].gone = @ \ {"caller"}]
              /\ Done(w)
         ELSE Goto(w, "resumeCallee") /\ UNCHANGED calls
      /\ UNCHANGED <<conn, Marks>>

ResumeCallee(w) ==
  LET k == work[w].call
      c == work[w].conn
  IN  /\ work[w].at = "resumeCallee"
      /\ IF calls[k].status = "active" /\ calls[k].callee = Owner[c]
         THEN calls' = [calls EXCEPT ![k].calleeConn = c,
                                     ![k].gone = @ \ {"callee"}]
         ELSE UNCHANGED calls
      /\ Done(w)
      /\ UNCHANGED <<conn, Marks>>

-----------------------------------------------------------------------------
(* handleConnectionGone: three UPDATEs.                                    *)

CancelRinging(c) ==
  /\ conn[c] = "cancelling"
  /\ EndRows({k \in Calls : calls[k].status = "ringing"
                            /\ calls[k].callerConn = c}, "cancelled")
  /\ conn' = [conn EXCEPT ![c] = "markingCaller"]
  /\ UNCHANGED <<work, blocks, announced, told, crashes>>

MarkCaller(c) ==
  /\ conn[c] = "markingCaller"
  /\ calls' = [k \in Calls |->
       IF calls[k].status = "active" /\ calls[k].callerConn = c
       THEN [calls[k] EXCEPT !.gone = @ \cup {"caller"}] ELSE calls[k]]
  /\ conn' = [conn EXCEPT ![c] = "markingCallee"]
  /\ UNCHANGED <<work, Marks>>

MarkCallee(c) ==
  /\ conn[c] = "markingCallee"
  /\ calls' = [k \in Calls |->
       IF calls[k].status = "active" /\ calls[k].calleeConn = c
       THEN [calls[k] EXCEPT !.gone = @ \cup {"callee"}] ELSE calls[k]]
  /\ conn' = [conn EXCEPT ![c] = "closed"]
  /\ UNCHANGED <<work, Marks>>

-----------------------------------------------------------------------------
(* The sweep's two UPDATEs, for one call whose time is up.                 *)

SweepMissed(k) ==
  /\ calls[k].status = "ringing"
  /\ EndRows({k}, "missed")
  /\ UNCHANGED <<work, Outside>>

SweepLost(k) ==
  /\ calls[k].status = "active"
  /\ calls[k].gone # {}
  /\ EndRows({k}, "connection-lost")
  /\ UNCHANGED <<work, Outside>>

(* announceEnded, by whoever ended the call: the event to the caller, to   *)
(* the callee unless the call was silenced, and the listeners, once.       *)
Audience(k) ==
  {calls[k].caller} \cup (IF calls[k].silenced THEN {} ELSE {calls[k].callee})

AnnounceEnded(k) ==
  /\ due[k] > 0
  /\ due' = [due EXCEPT ![k] = @ - 1]
  /\ announced' = [announced EXCEPT ![k] = @ + 1]
  /\ told' = told \cup {<<u, k, "ended">> : u \in Audience(k)}
  /\ UNCHANGED <<calls, blocks, conn, work, crashes>>

(* blockUser and unblockUser, which no call in progress takes notice of.   *)
ToggleBlock(pair) ==
  /\ blocks' = IF pair \in blocks THEN blocks \ {pair} ELSE blocks \cup {pair}
  /\ UNCHANGED <<calls, conn, work, due, announced, told, crashes>>

(* The node dies: its sockets close with no handler left to notice, and    *)
(* what was being handled or announced is lost.                            *)
Crash ==
  /\ crashes < MaxCrashes
  /\ crashes' = crashes + 1
  /\ conn' = [c \in Conns |-> IF conn[c] = "new" THEN "new" ELSE "closed"]
  /\ work' = [w \in Workers |-> Free]
  /\ due' = [k \in Calls |-> 0]
  /\ UNCHANGED <<calls, blocks, announced, told>>

-----------------------------------------------------------------------------
WorkStep(w) ==
  \/ CheckCaller(w) \/ CheckBlock(w) \/ CheckCallee(w) \/ InsertCall(w) \/ EndBusy(w)
  \/ PublishIncoming(w) \/ AcceptCall(w) \/ PublishAccepted(w)
  \/ HangUp(w) \/ EndHungUp(w) \/ ResumeCaller(w) \/ ResumeCallee(w)

ConnStep(c) == CancelRinging(c) \/ MarkCaller(c) \/ MarkCallee(c)

Next ==
  \/ \E w \in Workers : WorkStep(w)
  \/ \E w \in Workers, c \in Conns, k \in Calls :
       \/ \E u \in Users : ReceiveInvite(w, c, k, u)
       \/ ReceiveAccept(w, c, k)
       \/ \E a \in Actions \ {"none"} : ReceiveHangUp(w, c, k, a)
       \/ ReceiveResume(w, c, k)
  \/ \E c \in Conns : Connect(c) \/ Disconnect(c) \/ ConnStep(c)
  \/ \E k \in Calls : SweepMissed(k) \/ SweepLost(k) \/ AnnounceEnded(k)
  \/ \E pair \in Blockable : ToggleBlock(pair)
  \/ Crash

Spec == Init /\ [][Next]_vars

(* The sweep runs every second, and an end is announced by the statement   *)
(* that follows it.                                                        *)
Fairness ==
  /\ \A k \in Calls :
       /\ WF_vars(SweepMissed(k)) /\ WF_vars(SweepLost(k))
       /\ WF_vars(AnnounceEnded(k))
  /\ \A w \in Workers : WF_vars(WorkStep(w))
  /\ \A c \in Conns : WF_vars(ConnStep(c))

FairSpec == Spec /\ Fairness

-----------------------------------------------------------------------------
(* Properties.                                                             *)

(* Once a call is over its row is never written again: no late answer,     *)
(* resume, disconnect mark or second hang-up revives or relabels it.       *)
EndedForGood ==
  [][\A k \in Calls : calls[k].status = "ended" => calls'[k] = calls[k]]_vars

(* Whoever ends a call announces it and nobody else does: hang-up, cancel, *)
(* disconnect and sweep may meet on one call, the call history gets one    *)
(* entry.  Only a crash between the two can lose the announcement.         *)
EndAnnouncedOnce ==
  \A k \in Calls :
    LET ends == due[k] + announced[k]
    IN  /\ ends <= 1
        /\ ends = 1 => calls[k].status = "ended"
        /\ calls[k].status = "ended" /\ crashes = 0 => ends = 1

(* A call is bound to connections of its own two people, so negotiation is *)
(* relayed to nobody else, and an active call has both.                    *)
BoundToItsPeople ==
  \A k \in Calls :
    /\ calls[k].status # "none" =>
         /\ calls[k].caller # calls[k].callee
         /\ calls[k].callerConn \in Conns
         /\ Owner[calls[k].callerConn] = calls[k].caller
    /\ calls[k].calleeConn \in Conns => Owner[calls[k].calleeConn] = calls[k].callee
    /\ calls[k].status = "active" => calls[k].calleeConn \in Conns

(* Blocking is silent: someone who had blocked the caller when the call    *)
(* was made hears nothing of it, not even its end, and is not connected by *)
(* it, whatever they or the caller do and whether or not they unblock the  *)
(* caller meanwhile.                                                       *)
BlockedCallerUnheard ==
  \A k \in Calls : calls[k].silenced =>
    /\ calls[k].status # "active"
    /\ \A e \in told : e[2] = k => e[1] # calls[k].callee

(* Both people are told "accepted" only of a call that was answered, and   *)
(* nobody is told "ended" of a call that goes on.                          *)
ToldTheTruth ==
  \A e \in told :
    /\ e[3] = "accepted" => calls[e[2]].calleeConn # NoConn
    /\ e[3] = "ended" => calls[e[2]].status = "ended"

(* No call rings for ever, and none stays marked as cut off for ever: the  *)
(* sweep ends it unless its people do, or come back.                       *)
RingingResolves ==
  \A k \in Calls : []<>(calls[k].status # "ringing")

CutOffResolves ==
  \A k \in Calls : []<>(calls[k].status # "active" \/ calls[k].gone = {})

(* A call refused as busy never rang: whatever the caller, the callee or   *)
(* the sweep do between the INSERT and the UPDATE that ends it, the callee *)
(* is told of its end at most.                                             *)
BusyNeverRings ==
  \A k \in Calls : calls[k].reason = "busy" =>
    \A e \in told : e[2] = k => e[3] = "ended"

Lifecycle == INSTANCE CallLifecycle
  WITH phase <- [k \in Calls |-> calls[k].status],
       said <- {k \in Calls : announced[k] # 0}

(* The table and its handlers are the state machine the schema describes.  *)
ImplementsLifecycle == Lifecycle!Spec

-----------------------------------------------------------------------------
(* Statements of the comments that the code does not keep.                 *)

(* "Already in a call on another device/tab: one call at a time."          *)
OneCallAtATime ==
  \A u \in Users : Cardinality({k \in InCall(u) : calls[k].caller = u}) <= 1

(* "an active call on that socket is only *marked* ... and gets the grace  *)
(* period to `resume` before the sweep ends it": a side whose socket is    *)
(* gone, and whose disconnect handler is past that side, is marked.        *)
Attached(c, pending) == conn[c] \in {"open"} \cup pending

CutOffIsMarked ==
  \A k \in Calls : calls[k].status = "active" =>
    /\ \/ Attached(calls[k].callerConn, {"cancelling", "markingCaller"})
       \/ "caller" \in calls[k].gone
    /\ \/ Attached(calls[k].calleeConn,
                   {"cancelling", "markingCaller", "markingCallee"})
       \/ "callee" \in calls[k].gone
=============================================================================
