------------------------------ MODULE ChatReading ------------------------------
(* What a browser tab tells of the reading of its owner: which messages are on   *)
(* screen, the read receipts for them, the count of those that arrived below,    *)
(* and who is said to be typing.                                                 *)
(* apps/web/src/features/chat: ChatPane.tsx, readReceipts.ts, typingIndicator.ts;*)
(* lib/useDocumentVisible.ts.                                                    *)
(*                                                                               *)
(* The pane stays mounted and goes from chat to chat.  On screen is what the     *)
(* virtualizer has rendered, a dozen rows beyond the edges included.  The        *)
(* second between two receipts of a chat only delays the later.                  *)
EXTENDS Naturals, FiniteSetsExt

CONSTANTS Convs, MaxSeq

VARIABLES
  visible,  \* the tab is
  here,     \* the open chat
  newest,   \* newest[c]: seq of the newest message of c in the cache
  view,     \* the highest seq on screen, 0 before anything is
  atLatest, \* at the end of the list, as last rendered
  arrivals, \* newArrivals: the count on the button that leads there
  queued,   \* ReadReceiptThrottle: pendingSeq of each chat, 0 when there is none
  timer,    \* whether a send is scheduled
  reported, \* sentSeq
  seen,     \* the highest seq that has been on screen in a visible tab
  typers    \* whose typing is shown: the chats they typed in

vars == <<visible, here, newest, view, atLatest, arrivals, queued, timer, reported, seen,
          typers>>
throttle == <<queued, timer, reported>>

Higher(a, b) == Max({a, b})

TypeOK ==
  /\ visible \in BOOLEAN /\ here \in Convs /\ newest \in [Convs -> 0..MaxSeq]
  /\ view \in 0..MaxSeq /\ atLatest \in BOOLEAN /\ arrivals \in 0..MaxSeq
  /\ {queued, reported, seen} \subseteq [Convs -> 0..MaxSeq] /\ timer \in [Convs -> BOOLEAN]
  /\ typers \subseteq Convs

Init ==
  /\ visible \in BOOLEAN /\ here \in Convs /\ newest \in [Convs -> 0..1]
  /\ view = 0 /\ atLatest = TRUE /\ arrivals = 0
  /\ queued = [c \in Convs |-> 0] /\ timer = [c \in Convs |-> FALSE]
  /\ reported = queued /\ seen = queued /\ typers = {}

-----------------------------------------------------------------------------
(* ReadReceiptThrottle *)

\* request: the highest only, at the next opportunity.
Request(c, seq) ==
  IF seq > Higher(reported[c], queued[c])
  THEN queued' = [queued EXCEPT ![c] = seq] /\ timer' = [timer EXCEPT ![c] = TRUE]
  ELSE UNCHANGED <<queued, timer>>

Flush(c) ==
  /\ timer[c] /\ timer' = [timer EXCEPT ![c] = FALSE]
  /\ queued' = [queued EXCEPT ![c] = 0] /\ reported' = [reported EXCEPT ![c] = queued[c]]
  /\ UNCHANGED <<visible, here, newest, view, atLatest, arrivals, seen, typers>>

\* Forgets the timer and not what it was for.
CancelTimerOnly(c) == timer' = [timer EXCEPT ![c] = FALSE] /\ UNCHANGED queued
CancelRequest(c) ==
  timer' = [timer EXCEPT ![c] = FALSE] /\ queued' = [queued EXCEPT ![c] = 0]

-----------------------------------------------------------------------------
(* The pane *)

\* reportVisibleRead, hidden or not.
ReportAnyway(shown, seq) ==
  /\ Request(here, seq)
  /\ seen' = IF shown THEN [seen EXCEPT ![here] = Higher(@, seq)] ELSE seen
\* reportVisibleRead, after scrolling and whenever rows come or go.
Report(shown, seq) ==
  IF shown
  THEN Request(here, seq) /\ seen' = [seen EXCEPT ![here] = Higher(@, seq)]
  ELSE UNCHANGED <<queued, timer, seen>>

\* A switch starts over.
SwitchKeepsTypers(c) ==
  /\ here' = c /\ view' = 0 /\ atLatest' = TRUE /\ arrivals' = 0 /\ typers' = typers
Switch(c) ==
  /\ here' = c /\ view' = 0 /\ atLatest' = TRUE /\ arrivals' = 0 /\ typers' = {}

\* In a hidden tab, the receipt of the chat now open is cancelled as well.
Open(c) ==
  /\ c # here /\ Switch(c)
  /\ IF visible THEN UNCHANGED <<queued, timer>> ELSE CancelRequest(c)
  /\ UNCHANGED <<visible, newest, reported, seen>>

Hide ==
  /\ visible /\ visible' = FALSE /\ CancelRequest(here)
  /\ UNCHANGED <<here, newest, view, atLatest, arrivals, reported, seen, typers>>

Show ==
  /\ ~visible /\ visible' = TRUE /\ Report(TRUE, view)
  /\ UNCHANGED <<here, newest, view, atLatest, arrivals, reported, typers>>

\* handleScroll, and the first rows of a chat.
Scroll(seq, latest) ==
  /\ seq \in 1..newest[here] /\ (latest => seq = newest[here])
  /\ view' = seq /\ atLatest' = latest /\ arrivals' = (IF latest THEN 0 ELSE arrivals)
  /\ Report(visible, seq)
  /\ UNCHANGED <<visible, here, newest, reported, typers>>

\* scrollToLatest, smoothly: what is on screen follows.
JumpToLatest ==
  /\ ~atLatest /\ atLatest' = TRUE /\ arrivals' = 0
  /\ UNCHANGED <<visible, here, newest, view, throttle, seen, typers>>

\* message.new, or the answer to a send, which goes to the latest.  Rows above
\* the edge may move into view.
Arrive(c, theirs) ==
  /\ newest[c] < MaxSeq /\ newest' = [newest EXCEPT ![c] = @ + 1]
  /\ IF c # here THEN UNCHANGED <<view, atLatest, arrivals, queued, timer, seen>>
     ELSE /\ atLatest' = (atLatest \/ ~theirs)
          /\ arrivals' = IF atLatest' THEN 0 ELSE arrivals + 1
          /\ view' \in IF atLatest' THEN {newest[c] + 1} ELSE {view, view + 1}
          /\ Report(visible, view')
  /\ UNCHANGED <<visible, here, reported, typers>>

\* conversation.typing of somebody else.
Typing(c) ==
  /\ typers' = IF c = here THEN typers \cup {c} ELSE typers
  /\ UNCHANGED <<visible, here, newest, view, atLatest, arrivals, throttle, seen>>

\* pruneExpiredTyping.
Prune ==
  /\ typers # {} /\ typers' = {}
  /\ UNCHANGED <<visible, here, newest, view, atLatest, arrivals, throttle, seen>>

Next ==
  \/ Hide \/ Show \/ JumpToLatest \/ Prune
  \/ \E c \in Convs : Open(c) \/ Flush(c) \/ Typing(c) \/ \E b \in BOOLEAN : Arrive(c, b)
  \/ \E n \in 1..MaxSeq, b \in BOOLEAN : Scroll(n, b)

Spec == Init /\ [][Next]_vars

(****************************** Properties ********************************)

\* A receipt says read of what has been on the screen of a visible tab, for the
\* chat it was shown in; a hidden tab has none waiting for its open chat.
ReceiptsTrue ==
  /\ \A c \in Convs : Higher(reported[c], queued[c]) <= seen[c]
  /\ ~visible => ~timer[here]

\* What is on screen is reported or about to be, however often the tab was
\* hidden and the chat changed before (readReceipts.ts:63).
SeenIsReported ==
  visible => view <= Higher(reported[here], IF timer[here] THEN queued[here] ELSE 0)

\* The count and the typing shown are of the open chat, and of what is below.
CountsTrue == (arrivals > 0 => ~atLatest) /\ typers \subseteq {here}
=============================================================================
