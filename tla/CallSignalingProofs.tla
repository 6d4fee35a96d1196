------------------------- MODULE CallSignalingProofs -------------------------
(***************************************************************************)
(* Proofs about CallSignaling, for any number of people, devices, calls,   *)
(* concurrent handlers and restarts.                                       *)
(***************************************************************************)
EXTENDS CallSignaling, TLAPS

-----------------------------------------------------------------------------
(* Types.                                                                  *)

CallsOK == calls \in [Calls -> CallRows]

WorkOK ==
  /\ work \in [Workers -> WorkRows]
  /\ \A w \in Workers :
       work[w].at # "free" => work[w].call \in Calls /\ work[w].conn \in Conns

CountsOK ==
  /\ due \in [Calls -> Nat]
  /\ announced \in [Calls -> Nat]
  /\ crashes \in Nat

OtherOK ==
  /\ blocks \subseteq Users \X Users
  /\ conn \in [Conns -> ConnStates]

(* All of TypeOK but the type of `told', which is known only once it is    *)
(* known that a row has two people in it.                                  *)
Typed == CallsOK /\ WorkOK /\ CountsOK /\ OtherOK

LEMMA Words ==
  /\ \A s \in {"free", "invite", "block", "callee", "insert", "endBusy",
               "incoming", "accept", "accepted", "hangUp", "end", "resume",
               "resumeCallee"} : s \in WorkSteps
  /\ \A s \in {"none", "ringing", "active", "ended"} : s \in Statuses
  /\ \A s \in {"none", "busy", "cancelled", "declined", "missed", "completed",
               "connection-lost"} : s \in Reasons
  /\ \A s \in {"none", "decline", "cancel", "end"} : s \in Actions
  /\ \A s \in {"new", "open", "cancelling", "markingCaller", "markingCallee",
               "closed"} : s \in ConnStates
  /\ \A s \in {"incoming", "accepted", "ended"} : s \in EventTypes
BY DEF WorkSteps, Statuses, Reasons, Actions, ConnStates, EventTypes

(* What is known of a running handler, ...                                 *)
LEMMA AtWork ==
  ASSUME WorkOK, NEW w \in Workers, work[w].at # "free"
  PROVE  /\ work[w].call \in Calls
         /\ work[w].conn \in Conns
         /\ Owner[work[w].conn] \in Users
         /\ work[w].callee \in Users \cup {NoUser}
         /\ work[w].reason \in Reasons
         /\ work[w].silenced \in BOOLEAN
BY SignalingAssumption DEF WorkOK, WorkRows

(* ... and of a row.                                                       *)
LEMMA RowFields ==
  ASSUME CallsOK, NEW k \in Calls
  PROVE  /\ calls[k] \in CallRows
         /\ calls[k].status \in Statuses
         /\ calls[k].caller \in Users \cup {NoUser}
         /\ calls[k].callee \in Users \cup {NoUser}
         /\ calls[k].callerConn \in Conns \cup {NoConn}
         /\ calls[k].calleeConn \in Conns \cup {NoConn}
BY DEF CallsOK, CallRows

LEMMA FreeRow == Free \in WorkRows /\ Free.at = "free"
BY Words DEF Free, Job, WorkRows

LEMMA NoRowType == NoRow \in CallRows
BY Words DEF NoRow, CallRows

(* A handler that goes on, ends or starts.                                 *)
LEMMA GotoType ==
  ASSUME WorkOK, NEW w \in Workers, work[w].at # "free", NEW s \in WorkSteps,
         Goto(w, s)
  PROVE  WorkOK'
BY DEF WorkOK, WorkRows, Goto

LEMMA DoneType ==
  ASSUME WorkOK, NEW w \in Workers, Done(w)
  PROVE  WorkOK'
BY FreeRow DEF WorkOK, Done

LEMMA StartType ==
  ASSUME WorkOK, NEW w \in Workers, NEW s \in WorkSteps, NEW k \in Calls,
         NEW c \in Conns, NEW u \in Users \cup {NoUser}, NEW a \in Actions,
         work' = [work EXCEPT ![w] = Job(s, k, c, u, a)]
  PROVE  WorkOK'
<1>1. Job(s, k, c, u, a) \in WorkRows
  BY Words DEF Job, WorkRows
<1>. QED
  BY <1>1 DEF WorkOK, Job

(* Rows that end.                                                          *)
LEMMA EndRowsType ==
  ASSUME CallsOK, CountsOK, NEW K, NEW reason \in Reasons, EndRows(K, reason),
         UNCHANGED <<announced, crashes>>
  PROVE  CallsOK' /\ CountsOK'
<1>1. \A k \in Calls :
        [calls[k] EXCEPT !.status = "ended", !.reason = reason] \in CallRows
  BY Words DEF CallsOK, CallRows
<1>2. CallsOK'
  BY <1>1 DEF CallsOK, EndRows
<1>3. due' = [k \in Calls |-> IF k \in K THEN due[k] + 1 ELSE due[k]]
  BY DEF EndRows
<1>4. due' \in [Calls -> Nat]
  BY <1>3 DEF CountsOK
<1>5. CountsOK'
  BY <1>4 DEF CountsOK
<1>. QED
  BY <1>2, <1>5

LEMMA TypedInit == Init => Typed
<1>. SUFFICES ASSUME Init
              PROVE  Typed
  OBVIOUS
<1>1. CallsOK
  BY NoRowType DEF Init, CallsOK
<1>2. WorkOK
  BY FreeRow DEF Init, WorkOK
<1>3. CountsOK /\ OtherOK
  BY Words DEF Init, CountsOK, OtherOK
<1>. QED
  BY <1>1, <1>2, <1>3 DEF Typed

(* The statements of a handler.                                            *)
LEMMA WorkStepTyped ==
  ASSUME Typed, NEW w \in Workers, WorkStep(w)
  PROVE  Typed'
<1>a. CallsOK /\ WorkOK /\ CountsOK /\ OtherOK
  BY DEF Typed
<1>b. ASSUME WorkOK', UNCHANGED <<calls, conn, Marks>>
      PROVE  Typed'
  BY <1>a, <1>b DEF Typed, CallsOK, CountsOK, OtherOK, Marks
<1>c. ASSUME WorkOK', CallsOK', UNCHANGED <<conn, Marks>>
      PROVE  Typed'
  BY <1>a, <1>c DEF Typed, CountsOK, OtherOK, Marks
<1>d. ASSUME WorkOK', CallsOK', CountsOK', UNCHANGED Outside
      PROVE  Typed'
  BY <1>a, <1>d DEF Typed, OtherOK, Outside
<1>1. CASE CheckCaller(w)
  <2>1. WorkOK'
    BY <1>1, <1>a, Words, GotoType, DoneType DEF CheckCaller
  <2>. QED
    BY <1>1, <1>b, <2>1 DEF CheckCaller
<1>2. CASE CheckBlock(w)
  <2>1. WorkOK'
    <3>. DEFINE b == <<work[w].callee, Owner[work[w].conn]>> \in blocks
                s == IF b THEN "insert" ELSE "callee"
    <3>1. work' = [work EXCEPT ![w].silenced = b, ![w].at = s]
      BY <1>2 DEF CheckBlock
    <3>2. s \in WorkSteps /\ b \in BOOLEAN
      BY Words
    <3>3. work[w].at # "free"
      BY <1>2 DEF CheckBlock
    <3>. HIDE DEF b, s
    <3>. QED
      BY <1>a, <3>1, <3>2, <3>3 DEF WorkOK, WorkRows
  <2>. QED
    BY <1>2, <1>b, <2>1 DEF CheckBlock
<1>3. CASE CheckCallee(w)
  <2>1. WorkOK'
    <3>. DEFINE b == InCall(work[w].callee) # {}
    <3>1. work' = [work EXCEPT ![w].at = "insert", ![w].busy = b]
      BY <1>3 DEF CheckCallee
    <3>2. "insert" \in WorkSteps /\ b \in BOOLEAN
      BY Words
    <3>3. work[w].at # "free"
      BY <1>3 DEF CheckCallee
    <3>. HIDE DEF b
    <3>. QED
      BY <1>a, <3>1, <3>2, <3>3 DEF WorkOK, WorkRows
  <2>. QED
    BY <1>3, <1>b, <2>1 DEF CheckCallee
<1>4. CASE InsertCall(w)
  <2>1. work[w].at # "free"
    BY <1>4 DEF InsertCall
  <2>2. WorkOK'
    BY <1>4, <1>a, <2>1, Words, GotoType, DoneType DEF InsertCall
  <2>3. CASE calls' = calls
    BY <1>4, <1>b, <2>2, <2>3 DEF InsertCall
  <2>4. CASE calls' # calls
    <3>. DEFINE row == [NoRow EXCEPT !.status = "ringing",
                                     !.caller = Owner[work[w].conn],
                                     !.callee = work[w].callee,
                                     !.callerConn = work[w].conn,
                                     !.silenced = work[w].silenced]
    <3>1. calls' = [calls EXCEPT ![work[w].call] = row]
      BY <1>4, <2>4 DEF InsertCall
    <3>2. row \in CallRows
      BY <1>a, <2>1, AtWork, NoRowType, Words DEF CallRows
    <3>3. CallsOK'
      BY <1>a, <3>1, <3>2 DEF CallsOK
    <3>. QED
      BY <1>4, <1>c, <2>2, <3>3 DEF InsertCall
  <2>. QED
    BY <2>3, <2>4
<1>5. CASE EndBusy(w)
  <2>1. WorkOK'
    BY <1>5, <1>a, DoneType DEF EndBusy
  <2>2. CallsOK' /\ CountsOK'
    BY <1>5, <1>a, Words, EndRowsType DEF EndBusy, EndCall, Outside
  <2>. QED
    BY <1>5, <1>d, <2>1, <2>2 DEF EndBusy
<1>6. CASE PublishIncoming(w)
  <2>1. WorkOK'
    BY <1>6, <1>a, DoneType DEF PublishIncoming
  <2>. QED
    BY <1>6, <1>a, <2>1 DEF PublishIncoming, Typed, CallsOK, CountsOK, OtherOK
<1>7. CASE AcceptCall(w)
  <2>1. work[w].at # "free"
    BY <1>7 DEF AcceptCall
  <2>2. WorkOK'
    BY <1>7, <1>a, <2>1, Words, GotoType, DoneType DEF AcceptCall
  <2>3. CallsOK'
    BY <1>7, <1>a, <2>1, AtWork, Words DEF AcceptCall, CallsOK, CallRows
  <2>. QED
    BY <1>7, <1>c, <2>2, <2>3 DEF AcceptCall
<1>8. CASE PublishAccepted(w)
  <2>1. WorkOK'
    BY <1>8, <1>a, DoneType DEF PublishAccepted
  <2>. QED
    BY <1>8, <1>a, <2>1 DEF PublishAccepted, Typed, CallsOK, CountsOK, OtherOK
<1>9. CASE HangUp(w)
  <2>1. WorkOK'
    <3>. DEFINE x == ReasonFor(calls[work[w].call], Owner[work[w].conn],
                               work[w].action)
    <3>1. CASE x = "none"
      BY <1>9, <1>a, <3>1, DoneType DEF HangUp
    <3>2. CASE x # "none"
      <4>1. x \in Reasons
        BY Words DEF ReasonFor
      <4>2. work' = [work EXCEPT ![w].at = "end", ![w].reason = x]
        BY <1>9, <3>2 DEF HangUp
      <4>3. work[w].at # "free" /\ "end" \in WorkSteps
        BY <1>9, Words DEF HangUp
      <4>. HIDE DEF x
      <4>. QED
        BY <1>a, <4>1, <4>2, <4>3 DEF WorkOK, WorkRows
    <3>. QED
      BY <3>1, <3>2
  <2>. QED
    BY <1>9, <1>b, <2>1 DEF HangUp
<1>10. CASE EndHungUp(w)
  <2>1. WorkOK'
    BY <1>10, <1>a, DoneType DEF EndHungUp
  <2>2. work[w].reason \in Reasons
    BY <1>10, <1>a, AtWork DEF EndHungUp
  <2>3. CallsOK' /\ CountsOK'
    BY <1>10, <1>a, <2>2, EndRowsType DEF EndHungUp, EndCall, Outside
  <2>. QED
    BY <1>10, <1>d, <2>1, <2>3 DEF EndHungUp
<1>11. CASE ResumeCaller(w)
  <2>1. work[w].at # "free"
    BY <1>11 DEF ResumeCaller
  <2>2. WorkOK'
    BY <1>11, <1>a, <2>1, Words, GotoType, DoneType DEF ResumeCaller
  <2>3. CallsOK'
    BY <1>11, <1>a, <2>1, AtWork DEF ResumeCaller, CallsOK, CallRows
  <2>. QED
    BY <1>11, <1>c, <2>2, <2>3 DEF ResumeCaller
<1>12. CASE ResumeCallee(w)
  <2>1. work[w].at # "free"
    BY <1>12 DEF ResumeCallee
  <2>2. WorkOK'
    BY <1>12, <1>a, DoneType DEF ResumeCallee
  <2>3. CallsOK'
    BY <1>12, <1>a, <2>1, AtWork DEF ResumeCallee, CallsOK, CallRows
  <2>. QED
    BY <1>12, <1>c, <2>2, <2>3 DEF ResumeCallee
<1>. QED
  BY <1>1, <1>2, <1>3, <1>4, <1>5, <1>6, <1>7, <1>8, <1>9, <1>10, <1>11,
     <1>12 DEF WorkStep

(* The disconnect handler.                                                 *)
LEMMA ConnStepTyped ==
  ASSUME Typed, NEW c \in Conns, ConnStep(c)
  PROVE  Typed'
<1>a. CallsOK /\ WorkOK /\ CountsOK /\ OtherOK
  BY DEF Typed
<1>b. ASSUME NEW s \in ConnStates, conn' = [conn EXCEPT ![c] = s],
             blocks' = blocks
      PROVE  OtherOK'
  BY <1>a, <1>b DEF OtherOK
<1>1. CASE CancelRinging(c)
  <2>1. CallsOK' /\ CountsOK'
    BY <1>1, <1>a, Words, EndRowsType DEF CancelRinging
  <2>. QED
    BY <1>1, <1>a, <1>b, <2>1, Words DEF CancelRinging, Typed, WorkOK
<1>2. CASE MarkCaller(c)
  <2>1. CallsOK'
    BY <1>2, <1>a DEF MarkCaller, CallsOK, CallRows
  <2>. QED
    BY <1>2, <1>a, <1>b, <2>1, Words DEF MarkCaller, Marks, Typed, WorkOK, CountsOK
<1>3. CASE MarkCallee(c)
  <2>1. CallsOK'
    BY <1>3, <1>a DEF MarkCallee, CallsOK, CallRows
  <2>. QED
    BY <1>3, <1>a, <1>b, <2>1, Words DEF MarkCallee, Marks, Typed, WorkOK, CountsOK
<1>. QED
  BY <1>1, <1>2, <1>3 DEF ConnStep

(* The sweep, announcements, blocking and restarts.                        *)
LEMMA BackgroundTyped ==
  ASSUME Typed,
         \/ \E k \in Calls : SweepMissed(k) \/ SweepLost(k) \/ AnnounceEnded(k)
         \/ \E pair \in Blockable : ToggleBlock(pair)
         \/ Crash
  PROVE  Typed'
<1>a. CallsOK /\ WorkOK /\ CountsOK /\ OtherOK
  BY DEF Typed
<1>1. ASSUME NEW k \in Calls, SweepMissed(k) \/ SweepLost(k)
      PROVE  Typed'
  <2>1. CallsOK' /\ CountsOK'
    BY <1>1, <1>a, Words, EndRowsType DEF SweepMissed, SweepLost, Outside
  <2>. QED
    BY <1>1, <1>a, <2>1 DEF SweepMissed, SweepLost, Outside, Typed, WorkOK, OtherOK
<1>2. ASSUME NEW k \in Calls, AnnounceEnded(k)
      PROVE  Typed'
  <2>1. due[k] - 1 \in Nat /\ announced[k] + 1 \in Nat
    BY <1>2, <1>a DEF AnnounceEnded, CountsOK
  <2>2. CountsOK'
    BY <1>2, <1>a, <2>1 DEF AnnounceEnded, CountsOK
  <2>. QED
    BY <1>2, <1>a, <2>2 DEF AnnounceEnded, Typed, CallsOK, WorkOK, OtherOK
<1>3. ASSUME NEW pair \in Blockable, ToggleBlock(pair)
      PROVE  Typed'
  <2>1. OtherOK'
    BY <1>3, <1>a, SignalingAssumption DEF ToggleBlock, OtherOK
  <2>. QED
    BY <1>3, <1>a, <2>1 DEF ToggleBlock, Typed, CallsOK, WorkOK, CountsOK
<1>4. CASE Crash
  <2>1. OtherOK'
    BY <1>4, <1>a, Words DEF Crash, OtherOK
  <2>2. WorkOK'
    BY <1>4, FreeRow DEF Crash, WorkOK
  <2>3. CountsOK'
    BY <1>4, <1>a DEF Crash, CountsOK
  <2>. QED
    BY <1>4, <1>a, <2>1, <2>2, <2>3 DEF Crash, Typed, CallsOK
<1>. QED
  BY <1>1, <1>2, <1>3, <1>4

(* Sockets and what arrives on them.                                       *)
LEMMA ReceiveTyped ==
  ASSUME Typed, NEW w \in Workers, NEW c \in Conns, NEW k \in Calls,
         NEW s \in WorkSteps, NEW u \in Users \cup {NoUser}, NEW a \in Actions,
         Receive(w, c, Job(s, k, c, u, a))
  PROVE  Typed'
<1>a. CallsOK /\ WorkOK /\ CountsOK /\ OtherOK
  BY DEF Typed
<1>1. WorkOK'
  BY <1>a, StartType DEF Receive
<1>. QED
  BY <1>a, <1>1 DEF Receive, Marks, Typed, CallsOK, CountsOK, OtherOK

LEMMA SocketTyped ==
  ASSUME Typed, NEW c \in Conns, Connect(c) \/ Disconnect(c)
  PROVE  Typed'
<1>1. OtherOK'
  BY Words DEF Typed, OtherOK, Connect, Disconnect, Marks
<1>. QED
  BY <1>1 DEF Connect, Disconnect, Marks, Typed, CallsOK, WorkOK, CountsOK

LEMMA TypedStep == Typed /\ [Next]_vars => Typed'
<1>. SUFFICES ASSUME Typed, [Next]_vars
              PROVE  Typed'
  OBVIOUS
<1>1. ASSUME NEW w \in Workers, NEW c \in Conns, NEW k \in Calls,
             \/ \E u \in Users : ReceiveInvite(w, c, k, u)
             \/ ReceiveAccept(w, c, k)
             \/ \E a \in Actions \ {"none"} : ReceiveHangUp(w, c, k, a)
             \/ ReceiveResume(w, c, k)
      PROVE  Typed'
  BY <1>1, Words, ReceiveTyped
     DEF ReceiveInvite, ReceiveAccept, ReceiveHangUp, ReceiveResume
<1>2. CASE UNCHANGED vars
  BY <1>2 DEF vars, Typed, CallsOK, WorkOK, CountsOK, OtherOK
<1>. QED
  BY <1>1, <1>2, WorkStepTyped, ConnStepTyped, BackgroundTyped, SocketTyped
     DEF Next

-----------------------------------------------------------------------------
(* What a step may do to the row of one call.                              *)

NewCall(c, v, b) ==
  [NoRow EXCEPT !.status = "ringing", !.caller = Owner[c], !.callee = v,
                !.callerConn = c, !.silenced = b]

Rung(k) ==
  \E c \in Conns, v \in Users, b \in BOOLEAN :
    /\ v # Owner[c]
    /\ calls[k].status = "none"
    /\ calls'[k] = NewCall(c, v, b)

Answered(k) ==
  \E c \in Conns :
    /\ Owner[c] = calls[k].callee
    /\ calls[k].status = "ringing" /\ ~calls[k].silenced
    /\ calls'[k] = [calls[k] EXCEPT !.status = "active", !.calleeConn = c]

Reattached(k) ==
  /\ calls[k].status = "active"
  /\ \E c \in Conns :
       \/ /\ Owner[c] = calls[k].caller
          /\ calls'[k] = [calls[k] EXCEPT !.callerConn = c,
                                          !.gone = @ \ {"caller"}]
       \/ /\ Owner[c] = calls[k].callee
          /\ calls'[k] = [calls[k] EXCEPT !.calleeConn = c,
                                          !.gone = @ \ {"callee"}]

Marked(k) ==
  /\ calls[k].status = "active"
  /\ \E g \in SUBSET {"caller", "callee"} :
       calls'[k] = [calls[k] EXCEPT !.gone = g]

(* "busy" is the end of an invite that found its callee busy.              *)
Finished(k) ==
  \E x \in Reasons :
    /\ calls[k].status \in {"ringing", "active"}
    /\ calls'[k] = [calls[k] EXCEPT !.status = "ended", !.reason = x]
    /\ x = "busy" => /\ calls[k].status = "ringing"
                     /\ \E w \in Workers :
                          work[w].at = "endBusy" /\ work[w].call = k

RowStep(k) ==
  \/ calls'[k] = calls[k]
  \/ Rung(k) \/ Answered(k) \/ Reattached(k) \/ Marked(k) \/ Finished(k)

(* An invite is for somebody else; a hang-up has a reason of its own.      *)
WorkNamed(w) ==
  /\ work[w].at \in {"invite", "block", "callee", "insert", "endBusy", "incoming"}
       => work[w].callee \in Users /\ work[w].callee # Owner[work[w].conn]
  /\ work[w].at = "end" =>
       work[w].reason \in {"cancelled", "declined", "completed"}

AllNamed == \A w \in Workers : WorkNamed(w)

(* An UPDATE that ends calls.                                              *)
LEMMA EndRowsStep ==
  ASSUME Typed, NEW K, NEW x \in Reasons, EndRows(K, x),
         \A k \in K \cap Calls : calls[k].status \in {"ringing", "active"},
         x # "busy"
  PROVE  \A k \in Calls : RowStep(k)
BY DEF EndRows, RowStep, Finished

LEMMA WorkStepRow ==
  ASSUME Typed, AllNamed, NEW w \in Workers, WorkStep(w)
  PROVE  \A k \in Calls : RowStep(k)
<1>a. CallsOK /\ WorkOK
  BY DEF Typed
<1>b. ASSUME calls' = calls
      PROVE  \A k \in Calls : RowStep(k)
  BY <1>b DEF RowStep
<1>c. ASSUME work[w].at # "free", NEW row,
             calls' = [calls EXCEPT ![work[w].call] = row],
             RowStep(work[w].call)
      PROVE  \A k \in Calls : RowStep(k)
  BY <1>a, <1>c DEF CallsOK, RowStep
<1>1. CASE \/ CheckCaller(w) \/ CheckBlock(w) \/ CheckCallee(w)
           \/ PublishIncoming(w) \/ PublishAccepted(w) \/ HangUp(w)
  BY <1>1, <1>b DEF CheckCaller, CheckBlock, CheckCallee, PublishIncoming,
                    PublishAccepted, HangUp
<1>2. CASE InsertCall(w)
  <2>1. CASE calls' = calls
    BY <1>b, <2>1
  <2>2. CASE calls' # calls
    <3>. DEFINE c == work[w].conn
                row == NewCall(c, work[w].callee, work[w].silenced)
    <3>1. work[w].at = "insert" /\ calls[work[w].call].status = "none"
      BY <1>2, <2>2 DEF InsertCall
    <3>2. calls' = [calls EXCEPT ![work[w].call] = row]
      BY <1>2, <2>2 DEF InsertCall, NewCall
    <3>3. work[w].callee \in Users /\ work[w].callee # Owner[c]
      BY <3>1 DEF AllNamed, WorkNamed
    <3>4. work[w].call \in Calls /\ c \in Conns /\ work[w].silenced \in BOOLEAN
      BY <1>a, <3>1, AtWork
    <3>5. calls'[work[w].call] = row
      BY <1>a, <3>2, <3>4 DEF CallsOK
    <3>6. Rung(work[w].call)
      BY <3>1, <3>3, <3>4, <3>5 DEF Rung
    <3>. QED
      BY <1>c, <3>1, <3>2, <3>6 DEF RowStep
  <2>. QED
    BY <2>1, <2>2
<1>3. CASE EndBusy(w)
  BY <1>3, <1>a, Words DEF EndBusy, EndCall, EndRows, RowStep, Finished
<1>4. CASE AcceptCall(w)
  <2>. DEFINE k == work[w].call
  <2>1. CASE calls' = calls
    BY <1>b, <2>1
  <2>2. CASE calls' # calls
    <3>1. /\ work[w].at # "free" /\ Acceptable(k, Owner[work[w].conn])
          /\ calls' = [calls EXCEPT ![k] = [calls[k] EXCEPT
                          !.status = "active", !.calleeConn = work[w].conn]]
      BY <1>4, <2>2 DEF AcceptCall
    <3>2. k \in Calls /\ work[w].conn \in Conns
      BY <1>a, <3>1, AtWork
    <3>3. Answered(k)
      BY <1>a, <3>1, <3>2 DEF Answered, Acceptable, CallsOK
    <3>. QED
      BY <1>c, <3>1, <3>3 DEF RowStep
  <2>. QED
    BY <2>1, <2>2
<1>5. CASE EndHungUp(w)
  <2>1. work[w].reason \in {"cancelled", "declined", "completed"}
    BY <1>5 DEF EndHungUp, AllNamed, WorkNamed
  <2>2. work[w].reason \in Reasons /\ work[w].reason # "busy"
    BY <2>1, Words
  <2>. QED
    BY <1>5, <2>2, EndRowsStep DEF EndHungUp, EndCall
<1>6. CASE ResumeCaller(w)
  <2>. DEFINE k == work[w].call
  <2>1. CASE calls' = calls
    BY <1>b, <2>1
  <2>2. CASE calls' # calls
    <3>1. /\ work[w].at # "free"
          /\ calls[k].status = "active" /\ calls[k].caller = Owner[work[w].conn]
          /\ calls' = [calls EXCEPT ![k] = [calls[k] EXCEPT
                          !.callerConn = work[w].conn, !.gone = @ \ {"caller"}]]
      BY <1>6, <2>2 DEF ResumeCaller
    <3>2. k \in Calls /\ work[w].conn \in Conns
      BY <1>a, <3>1, AtWork
    <3>3. Reattached(k)
      BY <1>a, <3>1, <3>2 DEF Reattached, CallsOK
    <3>. QED
      BY <1>c, <3>1, <3>3 DEF RowStep
  <2>. QED
    BY <2>1, <2>2
<1>7. CASE ResumeCallee(w)
  <2>. DEFINE k == work[w].call
  <2>1. CASE calls' = calls
    BY <1>b, <2>1
  <2>2. CASE calls' # calls
    <3>1. /\ work[w].at # "free"
          /\ calls[k].status = "active" /\ calls[k].callee = Owner[work[w].conn]
          /\ calls' = [calls EXCEPT ![k] = [calls[k] EXCEPT
                          !.calleeConn = work[w].conn, !.gone = @ \ {"callee"}]]
      BY <1>7, <2>2 DEF ResumeCallee
    <3>2. k \in Calls /\ work[w].conn \in Conns
      BY <1>a, <3>1, AtWork
    <3>3. Reattached(k)
      BY <1>a, <3>1, <3>2 DEF Reattached, CallsOK
    <3>. QED
      BY <1>c, <3>1, <3>3 DEF RowStep
  <2>. QED
    BY <2>1, <2>2
<1>. QED
  BY <1>1, <1>2, <1>3, <1>4, <1>5, <1>6, <1>7 DEF WorkStep

LEMMA ConnStepRow ==
  ASSUME Typed, NEW c \in Conns, ConnStep(c)
  PROVE  \A k \in Calls : RowStep(k)
<1>a. CallsOK
  BY DEF Typed
<1>1. CASE CancelRinging(c)
  BY <1>1, Words, EndRowsStep DEF CancelRinging
<1>2. CASE MarkCaller(c)
  <2>. SUFFICES ASSUME NEW k \in Calls
                PROVE  RowStep(k)
    OBVIOUS
  <2>1. calls[k].gone \subseteq {"caller", "callee"}
    BY <1>a DEF CallsOK, CallRows
  <2>. QED
    BY <1>2, <2>1 DEF MarkCaller, RowStep, Marked
<1>3. CASE MarkCallee(c)
  <2>. SUFFICES ASSUME NEW k \in Calls
                PROVE  RowStep(k)
    OBVIOUS
  <2>1. calls[k].gone \subseteq {"caller", "callee"}
    BY <1>a DEF CallsOK, CallRows
  <2>. QED
    BY <1>3, <2>1 DEF MarkCallee, RowStep, Marked
<1>. QED
  BY <1>1, <1>2, <1>3 DEF ConnStep

LEMMA SweepRow ==
  ASSUME Typed, NEW j \in Calls, SweepMissed(j) \/ SweepLost(j)
  PROVE  \A k \in Calls : RowStep(k)
BY Words, EndRowsStep DEF SweepMissed, SweepLost

LEMMA RowStepAll ==
  ASSUME Typed, AllNamed, [Next]_vars
  PROVE  \A k \in Calls : RowStep(k)
<1>. SUFFICES ASSUME calls' # calls
              PROVE  \A k \in Calls : RowStep(k)
  BY DEF RowStep
<1>1. ASSUME NEW w \in Workers, NEW c \in Conns, NEW k \in Calls,
             \/ \E u \in Users : ReceiveInvite(w, c, k, u)
             \/ ReceiveAccept(w, c, k)
             \/ \E a \in Actions \ {"none"} : ReceiveHangUp(w, c, k, a)
             \/ ReceiveResume(w, c, k)
      PROVE  FALSE
  BY <1>1 DEF ReceiveInvite, ReceiveAccept, ReceiveHangUp, ReceiveResume, Receive
<1>2. ASSUME NEW c \in Conns, Connect(c) \/ Disconnect(c)
      PROVE  FALSE
  BY <1>2 DEF Connect, Disconnect
<1>3. ASSUME NEW k \in Calls, AnnounceEnded(k)
      PROVE  FALSE
  BY <1>3 DEF AnnounceEnded
<1>4. ASSUME NEW pair \in Blockable, ToggleBlock(pair)
      PROVE  FALSE
  BY <1>4 DEF ToggleBlock
<1>5. ~Crash /\ ~UNCHANGED vars
  BY DEF Crash, vars
<1>. QED
  BY <1>1, <1>2, <1>3, <1>4, <1>5, WorkStepRow, ConnStepRow, SweepRow DEF Next

-----------------------------------------------------------------------------
(* Invites and hang-ups.                                                   *)

LEMMA NamedInit == Init => AllNamed
BY FreeRow DEF Init, AllNamed, WorkNamed

LEMMA NamedStep == Typed /\ AllNamed /\ [Next]_vars => AllNamed'
<1>. SUFFICES ASSUME Typed, AllNamed, [Next]_vars
              PROVE  AllNamed'
  OBVIOUS
<1>a. WorkOK /\ work \in [Workers -> WorkRows]
  BY DEF Typed, WorkOK
<1>b. ASSUME NEW w \in Workers, \A v \in Workers \ {w} : work'[v] = work[v],
             WorkNamed(w)'
      PROVE  AllNamed'
  <2>1. ASSUME NEW v \in Workers, v # w
        PROVE  WorkNamed(v)'
    BY <1>b, <2>1 DEF AllNamed, WorkNamed
  <2>. QED
    BY <1>b, <2>1 DEF AllNamed
<1>c. ASSUME UNCHANGED work
      PROVE  AllNamed'
  BY <1>c DEF AllNamed, WorkNamed
<1>d. ASSUME NEW w \in Workers, Done(w)
      PROVE  AllNamed'
  BY <1>a, <1>b, <1>d, FreeRow DEF Done, WorkNamed
<1>e. ASSUME NEW w \in Workers,
             NEW s \in {"block", "incoming", "accepted", "resumeCallee", "endBusy"},
             Goto(w, s),
             s \in {"block", "incoming", "endBusy"} =>
               work[w].at \in {"invite", "insert"}
      PROVE  AllNamed'
  <2>1. \A v \in Workers \ {w} : work'[v] = work[v]
    BY <1>a, <1>e DEF Goto
  <2>2. /\ work'[w].at = s /\ work'[w].callee = work[w].callee
        /\ work'[w].conn = work[w].conn
    BY <1>a, <1>e DEF Goto, WorkRows
  <2>3. WorkNamed(w)'
    BY <1>e, <2>2 DEF AllNamed, WorkNamed
  <2>. QED
    BY <1>b, <2>1, <2>3
<1>f. ASSUME NEW w \in Workers, \A v \in Workers \ {w} : work'[v] = work[v],
             work[w].at \in {"block", "callee"}, work'[w].at # "end",
             work'[w].callee = work[w].callee, work'[w].conn = work[w].conn
      PROVE  AllNamed'
  BY <1>b, <1>f DEF AllNamed, WorkNamed
<1>1. ASSUME NEW w \in Workers, WorkStep(w)
      PROVE  AllNamed'
  <2>1. CASE CheckCaller(w)
    BY <1>d, <1>e, <2>1 DEF CheckCaller
  <2>2. CASE CheckBlock(w)
    <3>1. \A v \in Workers \ {w} : work'[v] = work[v]
      BY <1>a, <2>2 DEF CheckBlock
    <3>2. /\ work'[w].at # "end" /\ work'[w].callee = work[w].callee
          /\ work'[w].conn = work[w].conn
      BY <1>a, <2>2 DEF CheckBlock, WorkRows
    <3>. QED
      BY <1>f, <2>2, <3>1, <3>2 DEF CheckBlock
  <2>3. CASE CheckCallee(w)
    <3>1. \A v \in Workers \ {w} : work'[v] = work[v]
      BY <1>a, <2>3 DEF CheckCallee
    <3>2. /\ work'[w].at # "end" /\ work'[w].callee = work[w].callee
          /\ work'[w].conn = work[w].conn
      BY <1>a, <2>3 DEF CheckCallee, WorkRows
    <3>. QED
      BY <1>f, <2>3, <3>1, <3>2 DEF CheckCallee
  <2>4. CASE InsertCall(w)
    BY <1>d, <1>e, <2>4 DEF InsertCall
  <2>5. CASE EndBusy(w) \/ PublishIncoming(w) \/ PublishAccepted(w) \/ EndHungUp(w)
             \/ ResumeCallee(w)
    BY <1>d, <2>5 DEF EndBusy, PublishIncoming, PublishAccepted, EndHungUp,
                      ResumeCallee
  <2>6. CASE AcceptCall(w)
    BY <1>d, <1>e, <2>6 DEF AcceptCall
  <2>7. CASE HangUp(w)
    <3>. DEFINE x == ReasonFor(calls[work[w].call], Owner[work[w].conn],
                               work[w].action)
    <3>1. CASE x = "none"
      BY <1>d, <2>7, <3>1 DEF HangUp
    <3>2. CASE x # "none"
      <4>1. x \in {"cancelled", "declined", "completed"}
        BY <3>2 DEF ReasonFor
      <4>2. work' = [work EXCEPT ![w].at = "end", ![w].reason = x]
        BY <2>7, <3>2 DEF HangUp
      <4>. HIDE DEF x
      <4>3. \A v \in Workers \ {w} : work'[v] = work[v]
        BY <1>a, <4>2
      <4>4. work'[w].at = "end" /\ work'[w].reason = x
        BY <1>a, <4>2 DEF WorkRows
      <4>5. WorkNamed(w)'
        BY <4>1, <4>4 DEF WorkNamed
      <4>. QED
        BY <1>b, <4>3, <4>5
    <3>. QED
      BY <3>1, <3>2
  <2>8. CASE ResumeCaller(w)
    BY <1>d, <1>e, <2>8 DEF ResumeCaller
  <2>. QED
    BY <1>1, <2>1, <2>2, <2>3, <2>4, <2>5, <2>6, <2>7, <2>8 DEF WorkStep
<1>2. ASSUME NEW w \in Workers, NEW c \in Conns, NEW k \in Calls, NEW u \in Users,
             ReceiveInvite(w, c, k, u)
      PROVE  AllNamed'
  <2>1. u # Owner[c] /\ work' = [work EXCEPT ![w] = Job("invite", k, c, u, "none")]
    BY <1>2 DEF ReceiveInvite, Receive
  <2>2. WorkNamed(w)' /\ \A v \in Workers \ {w} : work'[v] = work[v]
    BY <1>a, <2>1 DEF WorkNamed, Job
  <2>. QED
    BY <1>b, <2>2
<1>3. ASSUME NEW w \in Workers, NEW c \in Conns, NEW k \in Calls, NEW a,
             NEW s \in {"accept", "hangUp", "resume"},
             Receive(w, c, Job(s, k, c, NoUser, a))
      PROVE  AllNamed'
  <2>1. WorkNamed(w)' /\ \A v \in Workers \ {w} : work'[v] = work[v]
    BY <1>a, <1>3 DEF WorkNamed, Job, Receive
  <2>. QED
    BY <1>b, <2>1
<1>4. ASSUME NEW w \in Workers, NEW c \in Conns, NEW k \in Calls,
             \/ ReceiveAccept(w, c, k)
             \/ \E a \in Actions \ {"none"} : ReceiveHangUp(w, c, k, a)
             \/ ReceiveResume(w, c, k)
      PROVE  AllNamed'
  BY <1>3, <1>4 DEF ReceiveAccept, ReceiveHangUp, ReceiveResume
<1>5. ASSUME NEW c \in Conns, Connect(c) \/ Disconnect(c) \/ ConnStep(c)
      PROVE  AllNamed'
  BY <1>c, <1>5 DEF Connect, Disconnect, ConnStep, CancelRinging, MarkCaller,
                    MarkCallee
<1>6. ASSUME NEW k \in Calls, SweepMissed(k) \/ SweepLost(k) \/ AnnounceEnded(k)
      PROVE  AllNamed'
  BY <1>c, <1>6 DEF SweepMissed, SweepLost, AnnounceEnded
<1>7. ASSUME NEW pair \in Blockable, ToggleBlock(pair)
      PROVE  AllNamed'
  BY <1>c, <1>7 DEF ToggleBlock
<1>8. CASE Crash
  BY <1>8, FreeRow DEF Crash, AllNamed, WorkNamed
<1>9. CASE UNCHANGED vars
  BY <1>c, <1>9 DEF vars
<1>. QED
  BY <1>1, <1>2, <1>4, <1>5, <1>6, <1>7, <1>8, <1>9 DEF Next

-----------------------------------------------------------------------------
(* A call that is over.                                                    *)

LEMMA EndedStep ==
  Typed /\ AllNamed /\ [Next]_vars
    => \A k \in Calls : calls[k].status = "ended" => calls'[k] = calls[k]
BY RowStepAll DEF RowStep, Rung, Answered, Reattached, Marked, Finished

(* Once a call is over its row is never written again: every statement     *)
(* that ends, answers, resumes or marks a call asks for the status itself, *)
(* whatever the handler read before.                                       *)
THEOREM EndedCorrect == Spec => EndedForGood
BY TypedInit, TypedStep, NamedInit, NamedStep, EndedStep, PTL
   DEF Spec, EndedForGood

-----------------------------------------------------------------------------
(* What holds of every row.                                                *)

(* A row that exists has two different people in it and the caller's       *)
(* connection; a callee's connection is the callee's, appears with the     *)
(* answer, and never on a silenced call or one refused as busy.            *)
RowInv(k) ==
  /\ calls[k].status = "none" => calls[k] = NoRow
  /\ calls[k].status # "none" =>
       /\ calls[k].caller \in Users /\ calls[k].callee \in Users
       /\ calls[k].caller # calls[k].callee
       /\ calls[k].callerConn \in Conns
       /\ Owner[calls[k].callerConn] = calls[k].caller
  /\ calls[k].status = "ringing" =>
       calls[k].calleeConn = NoConn /\ calls[k].reason = "none"
  /\ calls[k].status = "active" => calls[k].calleeConn \in Conns
  /\ calls[k].calleeConn \in Conns => Owner[calls[k].calleeConn] = calls[k].callee
  /\ calls[k].silenced =>
       calls[k].status # "active" /\ calls[k].calleeConn = NoConn
  /\ calls[k].reason = "busy" =>
       calls[k].status = "ended" /\ calls[k].calleeConn = NoConn

AllRows == \A k \in Calls : RowInv(k)

LEMMA RowsInit == Init => AllRows
BY SignalingAssumption DEF Init, AllRows, RowInv, NoRow

LEMMA RowsStep == Typed /\ AllNamed /\ AllRows /\ [Next]_vars => AllRows'
<1>. SUFFICES ASSUME Typed, AllNamed, AllRows, [Next]_vars, NEW k \in Calls
              PROVE  RowInv(k)'
  BY DEF AllRows
<1>a. RowInv(k) /\ calls[k] \in CallRows
  BY RowFields DEF AllRows, Typed
<1>1. CASE calls'[k] = calls[k]
  BY <1>a, <1>1 DEF RowInv
<1>2. CASE Rung(k)
  <2>1. PICK c \in Conns, v \in Users, b \in BOOLEAN :
             v # Owner[c] /\ calls'[k] = NewCall(c, v, b)
    BY <1>2 DEF Rung
  <2>2. /\ calls'[k].status = "ringing" /\ calls'[k].reason = "none"
        /\ calls'[k].caller = Owner[c] /\ calls'[k].callee = v
        /\ calls'[k].callerConn = c /\ calls'[k].calleeConn = NoConn
    BY <2>1 DEF NewCall, NoRow
  <2>. QED
    BY <2>1, <2>2, SignalingAssumption DEF RowInv
<1>3. CASE Answered(k)
  BY <1>a, <1>3, SignalingAssumption DEF Answered, RowInv, CallRows
<1>4. CASE Reattached(k)
  <2>1. /\ calls'[k].status = "active" /\ calls'[k].reason = calls[k].reason
        /\ calls'[k].caller = calls[k].caller /\ calls'[k].callee = calls[k].callee
        /\ calls'[k].silenced = calls[k].silenced
    BY <1>a, <1>4 DEF Reattached, CallRows
  <2>2. calls'[k].callerConn \in Conns /\ Owner[calls'[k].callerConn] = calls[k].caller
    BY <1>a, <1>4 DEF Reattached, RowInv, CallRows
  <2>3. calls'[k].calleeConn \in Conns /\ Owner[calls'[k].calleeConn] = calls[k].callee
    BY <1>a, <1>4 DEF Reattached, RowInv, CallRows
  <2>4. calls[k].status = "active"
    BY <1>4 DEF Reattached
  <2>. QED
    BY <1>a, <2>1, <2>2, <2>3, <2>4 DEF RowInv
<1>5. CASE Marked(k)
  BY <1>a, <1>5 DEF Marked, RowInv, CallRows
<1>6. CASE Finished(k)
  <2>1. PICK x \in Reasons :
          /\ calls[k].status \in {"ringing", "active"}
          /\ calls'[k] = [calls[k] EXCEPT !.status = "ended", !.reason = x]
          /\ x = "busy" => calls[k].status = "ringing"
    BY <1>6 DEF Finished
  <2>2. /\ calls'[k].status = "ended" /\ calls'[k].reason = x
        /\ calls'[k].caller = calls[k].caller /\ calls'[k].callee = calls[k].callee
        /\ calls'[k].callerConn = calls[k].callerConn
        /\ calls'[k].calleeConn = calls[k].calleeConn
        /\ calls'[k].silenced = calls[k].silenced
    BY <1>a, <2>1 DEF CallRows
  <2>. QED
    BY <1>a, <2>1, <2>2 DEF RowInv
<1>. QED
  BY <1>1, <1>2, <1>3, <1>4, <1>5, <1>6, RowStepAll DEF RowStep

LEMMA RowsBound == AllRows => BoundToItsPeople
BY DEF AllRows, RowInv, BoundToItsPeople

(* A call is bound to connections of its own two people: an invite, an     *)
(* answer and a resume each bind the connection they came from, and each   *)
(* is refused unless that connection's owner has the part it would take.   *)
THEOREM BoundCorrect == Spec => []BoundToItsPeople
BY TypedInit, TypedStep, NamedInit, NamedStep, RowsInit, RowsStep, RowsBound,
   PTL DEF Spec

-----------------------------------------------------------------------------
(* Ends and their announcements.                                           *)

(* A step ends some open calls, announces an end, restarts the node, or    *)
(* ends and announces nothing and takes at most one call further.          *)
Ending ==
  \E K \in SUBSET Calls, x \in Reasons :
    /\ \A k \in K : calls[k].status \in {"ringing", "active"}
    /\ EndRows(K, x)
    /\ UNCHANGED <<announced, crashes>>

Moves(k, before, after) ==
  /\ calls[k].status = before /\ calls'[k].status = after
  /\ \A j \in Calls \ {k} : calls'[j] = calls[j]

StatusKept == \A k \in Calls : calls'[k].status = calls[k].status

Quiet ==
  /\ UNCHANGED <<due, announced, crashes>>
  /\ \/ StatusKept
     \/ \E k \in Calls : Moves(k, "none", "ringing") \/ Moves(k, "ringing", "active")

Shape == Ending \/ (\E k \in Calls : AnnounceEnded(k)) \/ Crash \/ Quiet

LEMMA WorkStepShape ==
  ASSUME Typed, NEW w \in Workers, WorkStep(w)
  PROVE  Shape
<1>a. CallsOK /\ WorkOK /\ calls \in [Calls -> CallRows]
  BY DEF Typed, CallsOK
<1>b. ASSUME UNCHANGED <<calls, due, announced, crashes>>
      PROVE  Shape
  BY <1>b DEF Shape, Quiet, StatusKept
<1>c. ASSUME NEW x \in Reasons, NEW from \in {"ringing", "active"},
             work[w].at # "free", EndCall(work[w].call, x, from),
             UNCHANGED Outside
      PROVE  Shape
  <2>. DEFINE K == {j \in {work[w].call} : calls[j].status = from}
  <2>1. K \in SUBSET Calls
    BY <1>a, <1>c, AtWork
  <2>2. EndRows(K, x) /\ UNCHANGED <<announced, crashes>>
    BY <1>c DEF EndCall, Outside
  <2>3. \A k \in K : calls[k].status \in {"ringing", "active"}
    OBVIOUS
  <2>. HIDE DEF K
  <2>. QED
    BY <2>1, <2>2, <2>3 DEF Shape, Ending
<1>1. CASE \/ CheckCaller(w) \/ CheckBlock(w) \/ CheckCallee(w)
           \/ PublishIncoming(w) \/ PublishAccepted(w) \/ HangUp(w)
  BY <1>1, <1>b DEF CheckCaller, CheckBlock, CheckCallee, PublishIncoming,
                    PublishAccepted, HangUp, Marks
<1>2. CASE InsertCall(w)
  <2>1. CASE calls' = calls
    BY <1>2, <1>b, <2>1 DEF InsertCall, Marks
  <2>2. CASE calls' # calls
    <3>1. /\ work[w].at # "free" /\ calls[work[w].call].status = "none"
          /\ calls' = [calls EXCEPT ![work[w].call] =
               NewCall(work[w].conn, work[w].callee, work[w].silenced)]
      BY <1>2, <2>2 DEF InsertCall, NewCall
    <3>2. work[w].call \in Calls
      BY <1>a, <3>1, AtWork
    <3>3. NewCall(work[w].conn, work[w].callee, work[w].silenced).status = "ringing"
      BY DEF NewCall, NoRow
    <3>4. Moves(work[w].call, "none", "ringing")
      BY <1>a, <3>1, <3>2, <3>3 DEF Moves
    <3>5. UNCHANGED <<due, announced, crashes>>
      BY <1>2 DEF InsertCall, Marks
    <3>. QED
      BY <3>2, <3>4, <3>5 DEF Shape, Quiet
  <2>. QED
    BY <2>1, <2>2
<1>3. CASE EndBusy(w)
  BY <1>3, <1>c, Words DEF EndBusy
<1>4. CASE AcceptCall(w)
  <2>1. CASE calls' = calls
    BY <1>4, <1>b, <2>1 DEF AcceptCall, Marks
  <2>2. CASE calls' # calls
    <3>1. /\ work[w].at # "free" /\ calls[work[w].call].status = "ringing"
          /\ calls' = [calls EXCEPT ![work[w].call].status = "active",
                                    ![work[w].call].calleeConn = work[w].conn]
      BY <1>4, <2>2 DEF AcceptCall, Acceptable
    <3>2. work[w].call \in Calls
      BY <1>a, <3>1, AtWork
    <3>3. Moves(work[w].call, "ringing", "active")
      BY <1>a, <3>1, <3>2 DEF Moves, CallRows
    <3>4. UNCHANGED <<due, announced, crashes>>
      BY <1>4 DEF AcceptCall, Marks
    <3>. QED
      BY <3>2, <3>3, <3>4 DEF Shape, Quiet
  <2>. QED
    BY <2>1, <2>2
<1>5. CASE EndHungUp(w)
  <2>1. work[w].reason \in Reasons
    BY <1>5, <1>a, AtWork DEF EndHungUp
  <2>. QED
    BY <1>5, <1>c, <2>1 DEF EndHungUp
<1>6. CASE ResumeCaller(w) \/ ResumeCallee(w)
  <2>1. StatusKept
    BY <1>6, <1>a DEF ResumeCaller, ResumeCallee, StatusKept, CallRows
  <2>2. UNCHANGED <<due, announced, crashes>>
    BY <1>6 DEF ResumeCaller, ResumeCallee, Marks
  <2>. QED
    BY <2>1, <2>2 DEF Shape, Quiet
<1>. QED
  BY <1>1, <1>2, <1>3, <1>4, <1>5, <1>6 DEF WorkStep

LEMMA ConnStepShape ==
  ASSUME Typed, NEW c \in Conns, ConnStep(c)
  PROVE  Shape
<1>a. calls \in [Calls -> CallRows]
  BY DEF Typed, CallsOK
<1>1. CASE CancelRinging(c)
  BY <1>1, Words DEF CancelRinging, Shape, Ending
<1>2. CASE MarkCaller(c) \/ MarkCallee(c)
  <2>1. StatusKept
    BY <1>2, <1>a DEF MarkCaller, MarkCallee, StatusKept, CallRows
  <2>2. UNCHANGED <<due, announced, crashes>>
    BY <1>2 DEF MarkCaller, MarkCallee, Marks
  <2>. QED
    BY <2>1, <2>2 DEF Shape, Quiet
<1>. QED
  BY <1>1, <1>2 DEF ConnStep

LEMMA StepShape ==
  ASSUME Typed, [Next]_vars
  PROVE  Shape
<1>b. ASSUME UNCHANGED <<calls, due, announced, crashes>>
      PROVE  Shape
  BY <1>b DEF Shape, Quiet, StatusKept
<1>1. ASSUME NEW w \in Workers, NEW c \in Conns, NEW k \in Calls,
             \/ \E u \in Users : ReceiveInvite(w, c, k, u)
             \/ ReceiveAccept(w, c, k)
             \/ \E a \in Actions \ {"none"} : ReceiveHangUp(w, c, k, a)
             \/ ReceiveResume(w, c, k)
      PROVE  Shape
  BY <1>1, <1>b DEF ReceiveInvite, ReceiveAccept, ReceiveHangUp, ReceiveResume,
                    Receive, Marks
<1>2. ASSUME NEW c \in Conns, Connect(c) \/ Disconnect(c)
      PROVE  Shape
  BY <1>2, <1>b DEF Connect, Disconnect, Marks
<1>3. ASSUME NEW k \in Calls, SweepMissed(k) \/ SweepLost(k)
      PROVE  Shape
  <2>1. PICK x \in Reasons : EndRows({k}, x)
    BY <1>3, Words DEF SweepMissed, SweepLost
  <2>2. UNCHANGED <<announced, crashes>> /\ {k} \in SUBSET Calls
    BY <1>3 DEF SweepMissed, SweepLost, Outside
  <2>3. \A j \in {k} : calls[j].status \in {"ringing", "active"}
    BY <1>3 DEF SweepMissed, SweepLost
  <2>. QED
    BY <2>1, <2>2, <2>3 DEF Shape, Ending
<1>4. ASSUME NEW pair \in Blockable, ToggleBlock(pair)
      PROVE  Shape
  BY <1>4, <1>b DEF ToggleBlock
<1>5. CASE UNCHANGED vars
  BY <1>5, <1>b DEF vars
<1>. QED
  BY <1>1, <1>2, <1>3, <1>4, <1>5, WorkStepShape, ConnStepShape DEF Next, Shape

LEMMA EndsInit == Init => EndAnnouncedOnce
BY DEF Init, EndAnnouncedOnce, NoRow

LEMMA EndsStep ==
  Typed /\ Typed' /\ EndAnnouncedOnce /\ [Next]_vars => EndAnnouncedOnce'
<1>. SUFFICES ASSUME Typed, Typed', EndAnnouncedOnce, [Next]_vars, NEW k \in Calls
              PROVE  /\ due'[k] + announced'[k] <= 1
                     /\ due'[k] + announced'[k] = 1 => calls'[k].status = "ended"
                     /\ calls'[k].status = "ended" /\ crashes' = 0
                          => due'[k] + announced'[k] = 1
  BY DEF EndAnnouncedOnce
<1>a. /\ calls \in [Calls -> CallRows]
      /\ due \in [Calls -> Nat] /\ announced \in [Calls -> Nat] /\ crashes \in Nat
  BY DEF Typed, CallsOK, CountsOK
<1>b. /\ due[k] + announced[k] <= 1
      /\ due[k] + announced[k] = 1 => calls[k].status = "ended"
      /\ calls[k].status = "ended" /\ crashes = 0 => due[k] + announced[k] = 1
      /\ due[k] \in Nat /\ announced[k] \in Nat
  BY <1>a DEF EndAnnouncedOnce
<1>1. CASE Ending
  <2>1. PICK K \in SUBSET Calls, x \in Reasons :
          /\ \A j \in K : calls[j].status \in {"ringing", "active"}
          /\ EndRows(K, x)
          /\ UNCHANGED <<announced, crashes>>
    BY <1>1 DEF Ending
  <2>2. CASE k \in K
    <3>1. calls'[k].status = "ended" /\ due'[k] = due[k] + 1
      BY <1>a, <2>1, <2>2 DEF EndRows, CallRows
    <3>2. due[k] = 0 /\ announced[k] = 0
      BY <1>b, <2>1, <2>2
    <3>. QED
      BY <2>1, <3>1, <3>2
  <2>3. CASE k \notin K
    <3>1. calls'[k] = calls[k] /\ due'[k] = due[k]
      BY <2>1, <2>3 DEF EndRows
    <3>. QED
      BY <1>b, <2>1, <3>1
  <2>. QED
    BY <2>2, <2>3
<1>2. ASSUME NEW j \in Calls, AnnounceEnded(j)
      PROVE  due'[k] + announced'[k] = due[k] + announced[k]
             /\ calls' = calls /\ crashes' = crashes
  BY <1>a, <1>2 DEF AnnounceEnded
<1>3. CASE Crash
  BY <1>a, <1>b, <1>3 DEF Crash
<1>4. CASE Quiet
  BY <1>b, <1>4 DEF Quiet, StatusKept, Moves
<1>. QED
  BY <1>b, <1>1, <1>2, <1>3, <1>4, StepShape DEF Shape

(* However many hang-ups, disconnects and sweeps meet on one call, its end *)
(* is announced by the one statement that ended it and at most once, so    *)
(* the call history gets one entry; without a restart it is never lost.    *)
THEOREM AnnouncedOnceCorrect == Spec => []EndAnnouncedOnce
BY TypedInit, TypedStep, EndsInit, EndsStep, PTL DEF Spec

-----------------------------------------------------------------------------
(* Refinement.                                                             *)

Phase == [k \in Calls |-> calls[k].status]
Said == {k \in Calls : announced[k] # 0}

LEMMA LifecycleInit == Init => Lifecycle!Init
BY DEF Init, Lifecycle!Init, NoRow

LEMMA LifecycleStep ==
  Typed /\ EndAnnouncedOnce /\ [Next]_vars
    => [Lifecycle!Next]_<<Phase, Said>>
<1>. SUFFICES ASSUME Typed, EndAnnouncedOnce, [Next]_vars
              PROVE  [Lifecycle!Next]_<<Phase, Said>>
  OBVIOUS
<1>a. /\ calls \in [Calls -> CallRows]
      /\ due \in [Calls -> Nat] /\ announced \in [Calls -> Nat]
  BY DEF Typed, CallsOK, CountsOK
<1>1. CASE Ending
  <2>1. PICK K \in SUBSET Calls, x \in Reasons :
          /\ \A j \in K : calls[j].status \in {"ringing", "active"}
          /\ EndRows(K, x)
          /\ UNCHANGED <<announced, crashes>>
    BY <1>1 DEF Ending
  <2>2. Phase' = [k \in Calls |-> IF k \in K THEN "ended" ELSE Phase[k]]
    <3>1. \A k \in Calls :
            calls'[k].status = IF k \in K THEN "ended" ELSE calls[k].status
      BY <1>a, <2>1 DEF EndRows, CallRows
    <3>. QED
      BY <3>1 DEF Phase
  <2>3. Said' = Said
    BY <2>1 DEF Said
  <2>4. Lifecycle!EndCalls(K)
    BY <2>1, <2>2, <2>3 DEF Lifecycle!EndCalls, Phase, Said
  <2>. QED
    BY <2>4 DEF Lifecycle!Next
<1>2. ASSUME NEW k \in Calls, AnnounceEnded(k)
      PROVE  Lifecycle!Next
  <2>1. /\ due[k] > 0 /\ announced' = [announced EXCEPT ![k] = @ + 1]
        /\ calls' = calls
    BY <1>2 DEF AnnounceEnded
  <2>2. announced[k] = 0 /\ calls[k].status = "ended"
    BY <1>a, <2>1 DEF EndAnnouncedOnce
  <2>3. Said' = Said \cup {k} /\ k \notin Said
    BY <1>a, <2>1, <2>2 DEF Said
  <2>4. Lifecycle!Say(k)
    BY <2>1, <2>2, <2>3 DEF Lifecycle!Say, Said
  <2>. QED
    BY <2>4 DEF Lifecycle!Next
<1>3. CASE Crash
  BY <1>3 DEF Crash, Phase, Said
<1>4. CASE Quiet
  <2>1. Said' = Said
    BY <1>4 DEF Quiet, Said
  <2>2. CASE StatusKept
    BY <2>1, <2>2 DEF StatusKept, Phase
  <2>3. ASSUME NEW k \in Calls, NEW before, NEW after, Moves(k, before, after)
        PROVE  Phase[k] = before /\ Phase' = [Phase EXCEPT ![k] = after]
    BY <2>3 DEF Moves, Phase
  <2>4. ASSUME NEW k \in Calls, Moves(k, "none", "ringing")
        PROVE  Lifecycle!Ring(k)
    BY <2>1, <2>3, <2>4 DEF Lifecycle!Ring, Phase, Said
  <2>5. ASSUME NEW k \in Calls, Moves(k, "ringing", "active")
        PROVE  Lifecycle!AnswerCall(k)
    BY <2>1, <2>3, <2>5 DEF Lifecycle!AnswerCall, Phase, Said
  <2>. QED
    BY <1>4, <2>2, <2>4, <2>5 DEF Quiet, Lifecycle!Next
<1>. QED
  BY <1>1, <1>2, <1>3, <1>4, StepShape DEF Shape

(* The table and its handlers, with every race between them, are the state *)
(* machine the schema describes: a call rings, is answered at most once,   *)
(* ends once and for good, and is announced only after it ended.           *)
THEOREM LifecycleCorrect == Spec => ImplementsLifecycle
<1>. USE DEF ImplementsLifecycle, Lifecycle!Spec, Lifecycle!vars
<1>1. Typed /\ EndAnnouncedOnce /\ [Next]_vars => [Lifecycle!Next]_(Lifecycle!vars)
  BY LifecycleStep DEF Phase, Said
<1>. QED
  BY TypedInit, TypedStep, EndsInit, EndsStep, LifecycleInit, <1>1, PTL DEF Spec

-----------------------------------------------------------------------------
(* What is published.                                                      *)

(* What a step may not take from a row, ...                                *)
Kept(k) ==
  /\ calls[k].status # "none" =>
       /\ calls'[k].status # "none"
       /\ calls'[k].callee = calls[k].callee
       /\ calls'[k].silenced = calls[k].silenced
       /\ calls[k].calleeConn \in Conns => calls'[k].calleeConn \in Conns
       /\ calls[k].status = "ended" => calls'[k].status = "ended"
  /\ calls'[k].reason = "busy" =>
       \/ calls[k].reason = "busy"
       \/ \E w \in Workers : work[w].at = "endBusy" /\ work[w].call = k

LEMMA RowKept ==
  ASSUME Typed, AllNamed, [Next]_vars, NEW k \in Calls
  PROVE  Kept(k)
<1>a. calls[k] \in CallRows
  BY RowFields DEF Typed
<1>1. CASE calls'[k] = calls[k]
  BY <1>1 DEF Kept
<1>2. CASE Rung(k)
  BY <1>2 DEF Rung, Kept, NewCall, NoRow
<1>3. CASE Answered(k)
  BY <1>a, <1>3 DEF Answered, Kept, CallRows
<1>4. CASE Reattached(k)
  BY <1>a, <1>4 DEF Reattached, Kept, CallRows
<1>5. CASE Marked(k)
  BY <1>a, <1>5 DEF Marked, Kept, CallRows
<1>6. CASE Finished(k)
  <2>1. PICK x \in Reasons :
          /\ calls[k].status \in {"ringing", "active"}
          /\ calls'[k] = [calls[k] EXCEPT !.status = "ended", !.reason = x]
          /\ x = "busy" => \E w \in Workers :
                             work[w].at = "endBusy" /\ work[w].call = k
    BY <1>6 DEF Finished
  <2>2. /\ calls'[k].status = "ended" /\ calls'[k].reason = x
        /\ calls'[k].callee = calls[k].callee
        /\ calls'[k].calleeConn = calls[k].calleeConn
        /\ calls'[k].silenced = calls[k].silenced
    BY <1>a, <2>1 DEF CallRows
  <2>. QED
    BY <2>1, <2>2 DEF Kept
<1>. QED
  BY <1>1, <1>2, <1>3, <1>4, <1>5, <1>6, RowStepAll DEF RowStep

LEMMA AnsweredStays ==
  ASSUME Typed, AllNamed, AllRows, [Next]_vars, NEW k \in Calls,
         calls[k].calleeConn \in Conns
  PROVE  calls'[k].calleeConn \in Conns
<1>1. calls[k].status # "none"
  BY SignalingAssumption DEF AllRows, RowInv, NoRow
<1>. QED
  BY <1>1, RowKept DEF Kept

(* ... how a handler comes to ring, to refuse or to report an answer, ...  *)
Late == {"incoming", "endBusy", "accepted"}

Inserted(w) ==
  /\ calls[work[w].call].status = "none"
  /\ calls'[work[w].call] = NewCall(work[w].conn, work[w].callee, work[w].silenced)
  /\ work'[w].call = work[w].call /\ work'[w].callee = work[w].callee
  /\ work'[w].at \in {"incoming", "endBusy"}
  /\ work'[w].at = "incoming" => ~work[w].silenced
  /\ work[w].call \in Calls
  /\ \A v \in Workers \ {w} : work'[v] = work[v]

Accepting(w) ==
  /\ work'[w].at = "accepted"
  /\ work'[w].call = work[w].call
  /\ calls'[work[w].call].calleeConn \in Conns
  /\ \A v \in Workers \ {w} : work'[v] = work[v]

WorkShape ==
  \/ \E w \in Workers : Inserted(w) \/ Accepting(w)
  \/ \A w \in Workers : work'[w] = work[w] \/ work'[w].at \notin Late

LEMMA WorkShapes ==
  ASSUME Typed, [Next]_vars
  PROVE  WorkShape
<1>a. /\ WorkOK /\ work \in [Workers -> WorkRows]
      /\ calls \in [Calls -> CallRows]
  BY DEF Typed, WorkOK, CallsOK
<1>b. ASSUME UNCHANGED work
      PROVE  WorkShape
  BY <1>b DEF WorkShape
<1>c. ASSUME NEW w \in Workers, NEW job, job.at \notin Late,
             work' = [work EXCEPT ![w] = job]
      PROVE  WorkShape
  BY <1>a, <1>c DEF WorkShape
<1>d. ASSUME NEW w \in Workers, Done(w)
      PROVE  WorkShape
  BY <1>c, <1>d, FreeRow DEF Done, Late
<1>e. ASSUME NEW w \in Workers, NEW s \in WorkSteps \ Late, Goto(w, s)
      PROVE  WorkShape
  <2>1. work' = [work EXCEPT ![w] = [work[w] EXCEPT !.at = s]]
    BY <1>e DEF Goto
  <2>2. [work[w] EXCEPT !.at = s].at = s
    BY <1>a DEF WorkRows
  <2>. QED
    BY <1>c, <1>e, <2>1, <2>2
<1>1. ASSUME NEW w \in Workers, WorkStep(w)
      PROVE  WorkShape
  <2>1. CASE CheckCaller(w)
    BY <1>d, <1>e, <2>1, Words DEF CheckCaller, Late
  <2>2. CASE CheckBlock(w)
    <3>. DEFINE b == <<work[w].callee, Owner[work[w].conn]>> \in blocks
                s == IF b THEN "insert" ELSE "callee"
    <3>1. work' = [work EXCEPT ![w] = [work[w] EXCEPT !.silenced = b, !.at = s]]
      BY <2>2 DEF CheckBlock
    <3>2. s \notin Late
      BY DEF Late
    <3>. HIDE DEF b, s
    <3>3. [work[w] EXCEPT !.silenced = b, !.at = s].at = s
      BY <1>a DEF WorkRows
    <3>. QED
      BY <1>c, <3>1, <3>2, <3>3
  <2>3. CASE CheckCallee(w)
    <3>. DEFINE b == InCall(work[w].callee) # {}
    <3>1. work' = [work EXCEPT ![w] = [work[w] EXCEPT !.at = "insert", !.busy = b]]
      BY <2>3 DEF CheckCallee
    <3>. HIDE DEF b
    <3>2. [work[w] EXCEPT !.at = "insert", !.busy = b].at = "insert"
      BY <1>a DEF WorkRows
    <3>. QED
      BY <1>c, <3>1, <3>2 DEF Late
  <2>4. CASE InsertCall(w)
    <3>1. CASE Done(w)
      BY <1>d, <3>1
    <3>2. CASE ~Done(w)
      <4>1. PICK s \in {"incoming", "endBusy"} :
              /\ work[w].at # "free" /\ calls[work[w].call].status = "none"
              /\ calls' = [calls EXCEPT ![work[w].call] =
                   NewCall(work[w].conn, work[w].callee, work[w].silenced)]
              /\ Goto(w, s)
              /\ s = "incoming" => ~work[w].silenced
        BY <2>4, <3>2 DEF InsertCall, NewCall
      <4>2. work[w].call \in Calls
        BY <1>a, <4>1, AtWork
      <4>3. /\ work'[w].at = s /\ work'[w].call = work[w].call
            /\ work'[w].callee = work[w].callee
            /\ \A v \in Workers \ {w} : work'[v] = work[v]
        BY <1>a, <4>1 DEF Goto, WorkRows
      <4>4. calls'[work[w].call]
              = NewCall(work[w].conn, work[w].callee, work[w].silenced)
        BY <1>a, <4>1, <4>2
      <4>5. Inserted(w)
        BY <4>1, <4>2, <4>3, <4>4 DEF Inserted
      <4>. QED
        BY <4>5 DEF WorkShape
    <3>. QED
      BY <3>1, <3>2
  <2>5. CASE EndBusy(w) \/ PublishIncoming(w) \/ PublishAccepted(w) \/ EndHungUp(w)
             \/ ResumeCallee(w)
    BY <1>d, <2>5 DEF EndBusy, PublishIncoming, PublishAccepted, EndHungUp,
                      ResumeCallee
  <2>6. CASE AcceptCall(w)
    <3>1. CASE Done(w)
      BY <1>d, <3>1
    <3>2. CASE ~Done(w)
      <4>1. /\ work[w].at # "free" /\ Goto(w, "accepted")
            /\ calls' = [calls EXCEPT ![work[w].call].status = "active",
                                      ![work[w].call].calleeConn = work[w].conn]
        BY <2>6, <3>2 DEF AcceptCall
      <4>2. work[w].call \in Calls /\ work[w].conn \in Conns
        BY <1>a, <4>1, AtWork
      <4>3. /\ work'[w].at = "accepted" /\ work'[w].call = work[w].call
            /\ \A v \in Workers \ {w} : work'[v] = work[v]
        BY <1>a, <4>1 DEF Goto, WorkRows
      <4>4. calls'[work[w].call].calleeConn \in Conns
        BY <1>a, <4>1, <4>2 DEF CallRows
      <4>. QED
        BY <4>3, <4>4 DEF WorkShape, Accepting
    <3>. QED
      BY <3>1, <3>2
  <2>7. CASE HangUp(w)
    <3>. DEFINE x == ReasonFor(calls[work[w].call], Owner[work[w].conn],
                               work[w].action)
    <3>1. CASE x = "none"
      BY <1>d, <2>7, <3>1 DEF HangUp
    <3>2. CASE x # "none"
      <4>1. work' = [work EXCEPT ![w] = [work[w] EXCEPT !.at = "end", !.reason = x]]
        BY <2>7, <3>2 DEF HangUp
      <4>. HIDE DEF x
      <4>2. [work[w] EXCEPT !.at = "end", !.reason = x].at = "end"
        BY <1>a DEF WorkRows
      <4>. QED
        BY <1>c, <4>1, <4>2 DEF Late
    <3>. QED
      BY <3>1, <3>2
  <2>8. CASE ResumeCaller(w)
    BY <1>d, <1>e, <2>8, Words DEF ResumeCaller, Late
  <2>. QED
    BY <1>1, <2>1, <2>2, <2>3, <2>4, <2>5, <2>6, <2>7, <2>8 DEF WorkStep
<1>2. ASSUME NEW w \in Workers, NEW c \in Conns, NEW k \in Calls,
             NEW u, NEW a, NEW s \in {"invite", "accept", "hangUp", "resume"},
             Receive(w, c, Job(s, k, c, u, a))
      PROVE  WorkShape
  <2>1. Job(s, k, c, u, a).at = s
    BY DEF Job
  <2>. QED
    BY <1>c, <1>2, <2>1 DEF Receive, Late
<1>3. ASSUME NEW w \in Workers, NEW c \in Conns, NEW k \in Calls,
             \/ \E u \in Users : ReceiveInvite(w, c, k, u)
             \/ ReceiveAccept(w, c, k)
             \/ \E a \in Actions \ {"none"} : ReceiveHangUp(w, c, k, a)
             \/ ReceiveResume(w, c, k)
      PROVE  WorkShape
  BY <1>2, <1>3 DEF ReceiveInvite, ReceiveAccept, ReceiveHangUp, ReceiveResume
<1>4. ASSUME NEW c \in Conns, Connect(c) \/ Disconnect(c) \/ ConnStep(c)
      PROVE  WorkShape
  BY <1>b, <1>4 DEF Connect, Disconnect, ConnStep, CancelRinging, MarkCaller,
                    MarkCallee
<1>5. ASSUME NEW k \in Calls, SweepMissed(k) \/ SweepLost(k) \/ AnnounceEnded(k)
      PROVE  WorkShape
  BY <1>b, <1>5 DEF SweepMissed, SweepLost, AnnounceEnded
<1>6. ASSUME NEW pair \in Blockable, ToggleBlock(pair)
      PROVE  WorkShape
  BY <1>b, <1>6 DEF ToggleBlock
<1>7. CASE Crash
  BY <1>7, FreeRow DEF Crash, WorkShape, Late
<1>8. CASE UNCHANGED vars
  BY <1>b, <1>8 DEF vars
<1>. QED
  BY <1>1, <1>3, <1>4, <1>5, <1>6, <1>7, <1>8 DEF Next

(* ... and what is known of the call such a handler is about.              *)
HandlerInv(w) ==
  /\ work[w].at \in {"incoming", "endBusy"} =>
       /\ calls[work[w].call].status # "none"
       /\ calls[work[w].call].callee = work[w].callee
  /\ work[w].at = "incoming" =>
       /\ ~calls[work[w].call].silenced
       /\ calls[work[w].call].reason # "busy"
  /\ work[w].at = "accepted" => calls[work[w].call].calleeConn \in Conns

(* One handler rings or refuses a call: the one that inserted it.          *)
OneInserter ==
  \A v, w \in Workers :
    /\ v # w
    /\ work[v].at \in {"incoming", "endBusy"}
    /\ work[w].at \in {"incoming", "endBusy"}
    => work[v].call # work[w].call

Handlers == OneInserter /\ \A w \in Workers : HandlerInv(w)

LEMMA HandlersInit == Init => Handlers
BY FreeRow DEF Init, Handlers, OneInserter, HandlerInv

LEMMA HandlersStep ==
  Typed /\ AllNamed /\ AllRows /\ Handlers /\ [Next]_vars => Handlers'
<1>. SUFFICES ASSUME Typed, AllNamed, AllRows, Handlers, [Next]_vars
              PROVE  Handlers'
  OBVIOUS
<1>a. ASSUME NEW w \in Workers, work[w].at # "free"
      PROVE  work[w].call \in Calls /\ Kept(work[w].call)
  BY <1>a, AtWork, RowKept DEF Typed
<1>b. ASSUME NEW w \in Workers, work'[w] = work[w]
      PROVE  HandlerInv(w)'
  <2>1. CASE work[w].at = "incoming"
    <3>. DEFINE k == work[w].call
    <3>1. /\ calls[k].status # "none" /\ calls[k].callee = work[w].callee
          /\ ~calls[k].silenced /\ calls[k].reason # "busy"
      BY <2>1 DEF Handlers, HandlerInv
    <3>2. Kept(k)
      BY <1>a, <2>1
    <3>3. \A v \in Workers : work[v].at = "endBusy" => work[v].call # k
      BY <2>1 DEF Handlers, OneInserter
    <3>4. /\ calls'[k].status # "none" /\ calls'[k].callee = work[w].callee
          /\ ~calls'[k].silenced /\ calls'[k].reason # "busy"
      BY <3>1, <3>2, <3>3 DEF Kept
    <3>. QED
      BY <1>b, <2>1, <3>4 DEF HandlerInv
  <2>2. CASE work[w].at = "endBusy"
    <3>. DEFINE k == work[w].call
    <3>1. calls[k].status # "none" /\ calls[k].callee = work[w].callee
      BY <2>2 DEF Handlers, HandlerInv
    <3>2. Kept(k)
      BY <1>a, <2>2
    <3>3. calls'[k].status # "none" /\ calls'[k].callee = work[w].callee
      BY <3>1, <3>2 DEF Kept
    <3>. QED
      BY <1>b, <2>2, <3>3 DEF HandlerInv
  <2>3. CASE work[w].at = "accepted"
    <3>. DEFINE k == work[w].call
    <3>1. calls[k].calleeConn \in Conns
      BY <2>3 DEF Handlers, HandlerInv
    <3>2. calls'[k].calleeConn \in Conns
      BY <1>a, <2>3, <3>1, AnsweredStays
    <3>. QED
      BY <1>b, <2>3, <3>2 DEF HandlerInv
  <2>. QED
    BY <1>b, <2>1, <2>2, <2>3 DEF HandlerInv
<1>1. ASSUME NEW w \in Workers, Inserted(w)
      PROVE  Handlers'
  <2>. DEFINE k == work[w].call
  <2>1. /\ calls'[k].status = "ringing" /\ calls'[k].callee = work[w].callee
        /\ calls'[k].silenced = work[w].silenced /\ calls'[k].reason = "none"
    BY <1>1 DEF Inserted, NewCall, NoRow
  <2>2. HandlerInv(w)'
    BY <1>1, <2>1 DEF Inserted, HandlerInv
  <2>3. ASSUME NEW v \in Workers \ {w}, work[v].at \in {"incoming", "endBusy"}
        PROVE  work[v].call # k
    BY <1>1, <2>3 DEF Inserted, Handlers, HandlerInv
  <2>4. OneInserter'
    BY <1>1, <2>3 DEF Inserted, Handlers, OneInserter
  <2>5. ASSUME NEW v \in Workers
        PROVE  HandlerInv(v)'
    BY <1>1, <1>b, <2>2 DEF Inserted
  <2>. QED
    BY <2>4, <2>5 DEF Handlers
<1>2. ASSUME NEW w \in Workers, Accepting(w)
      PROVE  Handlers'
  <2>1. HandlerInv(w)'
    BY <1>2 DEF Accepting, HandlerInv
  <2>2. OneInserter'
    BY <1>2 DEF Accepting, Handlers, OneInserter
  <2>3. ASSUME NEW v \in Workers
        PROVE  HandlerInv(v)'
    BY <1>2, <1>b, <2>1 DEF Accepting
  <2>. QED
    BY <2>2, <2>3 DEF Handlers
<1>3. ASSUME \A w \in Workers : work'[w] = work[w] \/ work'[w].at \notin Late
      PROVE  Handlers'
  <2>1. OneInserter'
    BY <1>3 DEF Late, Handlers, OneInserter
  <2>2. ASSUME NEW w \in Workers, work'[w].at \notin Late
        PROVE  HandlerInv(w)'
    BY <2>2 DEF Late, HandlerInv
  <2>. QED
    BY <1>3, <1>b, <2>1, <2>2 DEF Handlers
<1>. QED
  BY <1>1, <1>2, <1>3, WorkShapes DEF WorkShape

(* Everything published is about a call that is in the table, is true of   *)
(* it, and is for one of its people, the callee of a silenced call apart;  *)
(* a call that was or will be refused as busy was not rung.                *)
EventInv(e) ==
  /\ e \in Users \X Calls \X EventTypes
  /\ calls[e[2]].status # "none"
  /\ calls[e[2]].silenced => e[1] # calls[e[2]].callee
  /\ e[3] = "accepted" => calls[e[2]].calleeConn \in Conns
  /\ e[3] = "ended" => calls[e[2]].status = "ended"
  /\ e[3] = "incoming" =>
       /\ calls[e[2]].reason # "busy"
       /\ \A w \in Workers : work[w].at = "endBusy" => work[w].call # e[2]

Events == \A e \in told : EventInv(e)

LEMMA EventsInit == Init => Events
BY DEF Init, Events

LEMMA EventKept ==
  ASSUME Typed, AllNamed, AllRows, Events, [Next]_vars, NEW e \in told
  PROVE  EventInv(e)'
<1>. DEFINE k == e[2]
<1>a. EventInv(e)
  BY DEF Events
<1>b. k \in Calls
  BY <1>a DEF EventInv
<1>1. Kept(k)
  BY <1>b, RowKept
<1>2. /\ calls'[k].status # "none"
      /\ calls'[k].silenced => e[1] # calls'[k].callee
      /\ e[3] = "accepted" => calls'[k].calleeConn \in Conns
      /\ e[3] = "ended" => calls'[k].status = "ended"
  BY <1>a, <1>1 DEF EventInv, Kept
<1>3. ASSUME e[3] = "incoming"
      PROVE  /\ calls'[k].reason # "busy"
             /\ \A w \in Workers : work'[w].at = "endBusy" => work'[w].call # k
  <2>1. calls'[k].reason # "busy"
    BY <1>a, <1>1, <1>3 DEF EventInv, Kept
  <2>2. ASSUME NEW w \in Workers, work'[w].at = "endBusy", work'[w].call = k
        PROVE  FALSE
    <3>1. work'[w] # work[w]
      BY <1>a, <1>3, <2>2 DEF EventInv
    <3>2. \E v \in Workers : Inserted(v) \/ Accepting(v)
      BY <2>2, <3>1, WorkShapes DEF WorkShape, Late
    <3>3. Inserted(w)
      BY <2>2, <3>1, <3>2 DEF Inserted, Accepting
    <3>. QED
      BY <1>a, <2>2, <3>3 DEF EventInv, Inserted
  <2>. QED
    BY <2>1, <2>2
<1>. QED
  BY <1>a, <1>2, <1>3 DEF EventInv

LEMMA OnlyPublishersTell ==
  ASSUME [Next]_vars,
         \A w \in Workers : ~PublishIncoming(w) /\ ~PublishAccepted(w),
         \A k \in Calls : ~AnnounceEnded(k)
  PROVE  told' = told
<1>1. ASSUME NEW w \in Workers, WorkStep(w)
      PROVE  told' = told
  BY <1>1 DEF WorkStep, CheckCaller, CheckBlock, CheckCallee, InsertCall, EndBusy,
     AcceptCall, HangUp, EndHungUp, ResumeCaller, ResumeCallee, Marks, Outside
<1>2. ASSUME NEW w \in Workers, NEW c \in Conns, NEW k \in Calls,
             \/ \E u \in Users : ReceiveInvite(w, c, k, u)
             \/ ReceiveAccept(w, c, k)
             \/ \E a \in Actions \ {"none"} : ReceiveHangUp(w, c, k, a)
             \/ ReceiveResume(w, c, k)
      PROVE  told' = told
  BY <1>2 DEF ReceiveInvite, ReceiveAccept, ReceiveHangUp, ReceiveResume, Receive,
              Marks
<1>3. ASSUME NEW c \in Conns, Connect(c) \/ Disconnect(c) \/ ConnStep(c)
      PROVE  told' = told
  BY <1>3 DEF Connect, Disconnect, ConnStep, CancelRinging, MarkCaller, MarkCallee,
              Marks
<1>4. ASSUME NEW k \in Calls, SweepMissed(k) \/ SweepLost(k)
      PROVE  told' = told
  BY <1>4 DEF SweepMissed, SweepLost, Outside
<1>5. ASSUME NEW pair \in Blockable, ToggleBlock(pair)
      PROVE  told' = told
  BY <1>5 DEF ToggleBlock
<1>6. CASE Crash
  BY <1>6 DEF Crash
<1>7. CASE UNCHANGED vars
  BY <1>7 DEF vars
<1>. QED
  BY <1>1, <1>2, <1>3, <1>4, <1>5, <1>6, <1>7 DEF Next

LEMMA EventsStep ==
  Typed /\ AllNamed /\ AllRows /\ EndAnnouncedOnce /\ Handlers /\ Events
    /\ [Next]_vars => Events'
<1>. SUFFICES ASSUME Typed, AllNamed, AllRows, EndAnnouncedOnce, Handlers,
                     Events, [Next]_vars
              PROVE  Events'
  OBVIOUS
<1>a. /\ WorkOK /\ work \in [Workers -> WorkRows]
      /\ due \in [Calls -> Nat] /\ announced \in [Calls -> Nat]
  BY DEF Typed, WorkOK, CountsOK
<1>b. ASSUME NEW e \in told
      PROVE  EventInv(e)'
  BY <1>b, EventKept
<1>1. ASSUME NEW w \in Workers, PublishIncoming(w)
      PROVE  Events'
  <2>0. PICK k, u : k = work[w].call /\ u = work[w].callee
    OBVIOUS
  <2>1. /\ work[w].at = "incoming" /\ calls' = calls /\ Done(w)
        /\ told' = told \cup {<<u, k, "incoming">>}
    BY <1>1, <2>0 DEF PublishIncoming
  <2>2. k \in Calls
    BY <1>a, <2>0, <2>1, AtWork
  <2>3. /\ calls[k].status # "none" /\ ~calls[k].silenced
        /\ calls[k].reason # "busy"
    BY <2>0, <2>1 DEF Handlers, HandlerInv
  <2>4. u \in Users
    BY <2>0, <2>1 DEF AllNamed, WorkNamed
  <2>5. ASSUME NEW v \in Workers, work'[v].at = "endBusy"
        PROVE  work'[v].call # k
    <3>1. v # w /\ work'[v] = work[v]
      BY <1>a, <2>1, <2>5, FreeRow DEF Done
    <3>. QED
      BY <2>0, <2>1, <2>5, <3>1 DEF Handlers, OneInserter
  <2>6. EventInv(<<u, k, "incoming">>)'
    <3>1. <<u, k, "incoming">> \in Users \X Calls \X EventTypes
      BY <2>2, <2>4, Words
    <3>. QED
      BY <2>1, <2>3, <2>5, <3>1 DEF EventInv
  <2>. QED
    BY <1>b, <2>1, <2>6 DEF Events
<1>2. ASSUME NEW w \in Workers, PublishAccepted(w)
      PROVE  Events'
  <2>0. PICK k : k = work[w].call
    OBVIOUS
  <2>1. /\ work[w].at = "accepted" /\ calls' = calls
        /\ told' = told \cup {<<u, k, "accepted">> :
                                  u \in {calls[k].caller, calls[k].callee}}
    BY <1>2, <2>0 DEF PublishAccepted
  <2>2. k \in Calls
    BY <1>a, <2>0, <2>1, AtWork
  <2>3. calls[k].calleeConn \in Conns
    BY <2>0, <2>1 DEF Handlers, HandlerInv
  <2>4. calls[k].status # "none" /\ ~calls[k].silenced
    BY <2>2, <2>3, SignalingAssumption DEF AllRows, RowInv, NoRow
  <2>5. {calls[k].caller, calls[k].callee} \subseteq Users
    BY <2>2, <2>4 DEF AllRows, RowInv
  <2>6. ASSUME NEW u, u \in {calls[k].caller, calls[k].callee}
        PROVE  EventInv(<<u, k, "accepted">>)'
    <3>1. <<u, k, "accepted">> \in Users \X Calls \X EventTypes
      BY <2>2, <2>5, <2>6, Words
    <3>. QED
      BY <2>1, <2>3, <2>4, <3>1 DEF EventInv
  <2>. QED
    BY <1>b, <2>1, <2>6 DEF Events
<1>3. ASSUME NEW k \in Calls, AnnounceEnded(k)
      PROVE  Events'
  <2>1. /\ due[k] > 0 /\ calls' = calls
        /\ told' = told \cup {<<u, k, "ended">> : u \in Audience(k)}
    BY <1>3 DEF AnnounceEnded
  <2>2. calls[k].status = "ended"
    BY <1>a, <2>1 DEF EndAnnouncedOnce
  <2>3. ASSUME NEW u \in Audience(k)
        PROVE  u \in Users /\ (calls[k].silenced => u # calls[k].callee)
    BY <2>2 DEF AllRows, RowInv, Audience
  <2>4. ASSUME NEW u \in Audience(k)
        PROVE  EventInv(<<u, k, "ended">>)'
    <3>1. <<u, k, "ended">> \in Users \X Calls \X EventTypes
      BY <2>3, Words
    <3>. QED
      BY <2>1, <2>2, <2>3, <3>1 DEF EventInv
  <2>. QED
    BY <1>b, <2>1, <2>4 DEF Events
<1>4. CASE told' = told
  BY <1>b, <1>4 DEF Events
<1>. QED
  BY <1>1, <1>2, <1>3, <1>4, OnlyPublishersTell

LEMMA Invariants ==
  Spec => [](/\ Typed /\ AllNamed /\ AllRows /\ EndAnnouncedOnce /\ Handlers
             /\ Events)
BY TypedInit, TypedStep, NamedInit, NamedStep, RowsInit, RowsStep,
   EndsInit, EndsStep, HandlersInit, HandlersStep, EventsInit, EventsStep,
   PTL DEF Spec

LEMMA EventsType == Typed /\ Events => TypeOK
<1>. SUFFICES ASSUME Typed, Events
              PROVE  TypeOK
  OBVIOUS
<1>1. told \subseteq Users \X Calls \X EventTypes
  BY DEF Events, EventInv
<1>. QED
  BY <1>1 DEF Typed, CallsOK, WorkOK, CountsOK, OtherOK, TypeOK

LEMMA EventsTrue == AllRows /\ Events => ToldTheTruth
BY SignalingAssumption DEF Events, EventInv, AllRows, RowInv, ToldTheTruth

LEMMA EventsUnheard == AllRows /\ Events => BlockedCallerUnheard
BY DEF Events, EventInv, AllRows, RowInv, BlockedCallerUnheard

LEMMA EventsBusy == AllRows /\ Events => BusyNeverRings
<1>. SUFFICES ASSUME AllRows, Events, NEW k \in Calls, calls[k].reason = "busy",
                     NEW e \in told, e[2] = k
              PROVE  e[3] = "ended"
  BY DEF BusyNeverRings
<1>1. EventInv(e) /\ RowInv(k)
  BY DEF Events, AllRows
<1>2. e[3] # "incoming" /\ e[3] # "accepted"
  BY <1>1, SignalingAssumption DEF EventInv, RowInv
<1>3. e[3] \in EventTypes
  BY <1>1 DEF EventInv
<1>. QED
  BY <1>2, <1>3 DEF EventTypes

(* Every variable has its type, and every event is for a person of its     *)
(* call: a row that exists has both its people.                            *)
THEOREM TypeCorrect == Spec => []TypeOK
BY Invariants, EventsType, PTL

(* Both people are told "accepted" only of a call that was answered, and   *)
(* nobody is told "ended" of a call that goes on, although an event is     *)
(* published by a later step than the UPDATE it reports.                   *)
THEOREM TruthCorrect == Spec => []ToldTheTruth
BY Invariants, EventsTrue, PTL

(* Someone who had blocked the caller when the call was made hears nothing *)
(* of it and is not connected by it: the row remembers, whatever happens   *)
(* to the block afterwards.                                                *)
THEOREM UnheardCorrect == Spec => []BlockedCallerUnheard
BY Invariants, EventsUnheard, PTL

(* A call refused as busy never rang: only the handler that inserted the   *)
(* row rings or refuses it, and it does one of the two.                    *)
THEOREM BusyCorrect == Spec => []BusyNeverRings
BY Invariants, EventsBusy, PTL

=============================================================================
