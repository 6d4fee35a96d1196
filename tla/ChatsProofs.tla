------------------------------ MODULE ChatsProofs ------------------------------
(* The chats on the screens of their people, each part with state of its own:    *)
(* how a browser tab sends what is typed (WebOutbox), what is written in its     *)
(* chat pane (ChatPane), what it tells of the reading (ChatReading), and a chat  *)
(* on the phone's screen (ChatScreen); and the proofs of what they promise.      *)
EXTENDS Integers, Sequences, FiniteSets, SequenceTheorems, TLAPS

CONSTANTS
  OutboxMessages, OutboxFaults,                \* WebOutbox
  Owners, Chats, OwnMessages, ChatOf, Files, PaneTexts, \* ChatPane
  ReadingSeq,                                  \* ChatReading
  ScreenTexts, ScreenPicks, ScreenSeq,         \* ChatScreen
  None

\* None is nobody, no chat and no message; a message's own text is not a number.
ASSUME ChatsAssumption ==
  /\ OutboxMessages \in Nat /\ OutboxFaults \in Nat /\ ReadingSeq \in Nat
  /\ PaneTexts \in Nat /\ ScreenTexts \in Nat /\ ScreenSeq \in Nat
  /\ None \notin Owners /\ None \notin Chats /\ None \notin OwnMessages
  /\ None # "new" /\ "new" \notin OwnMessages
  /\ \A t \in 1..ScreenTexts : t \notin OwnMessages

VARIABLES
  wLogged, wComing, wSocket, wPane, wTyped, wPending, wOutbox, wPosts, wAdrift, wSync,
  wDropped, wFaults,
  cMe, cLeaving, cHere, cWritten, cSpent, cDraft, cKept, cReply, cEditing, cTarget, cForm,
  cSaving, cDeleting, cDeleted, cSent, cUpload, cCarried, cHasty,
  nVisible, nHere, nNewest, nView, nLatest, nArrivals, nQueued, nTimer, nReported, nSeen,
  nTypers,
  sPlatform, sText, sDraft, sEditing, sReplyTo, sWritten, sSpent, sQueued, sEdits,
  sPicks, sAttached, sSheet, sLeavingSheet, sPendingReport, sReportFor, sFront, sKnown,
  sNewest, sLastRead, sMarked, sMarks, sRead, sTold, sSeen

Web == INSTANCE WebOutbox WITH
  MaxMessages <- OutboxMessages, MaxFaults <- OutboxFaults,
  logged <- wLogged, coming <- wComing, socket <- wSocket, pane <- wPane, typed <- wTyped,
  pending <- wPending, outbox <- wOutbox, posts <- wPosts, adrift <- wAdrift,
  sync <- wSync, dropped <- wDropped, faults <- wFaults

Pane == INSTANCE ChatPane WITH
  Users <- Owners, Convs <- Chats, Messages <- OwnMessages, In <- ChatOf, MaxTexts <- PaneTexts,
  me <- cMe, leaving <- cLeaving, here <- cHere, written <- cWritten, spent <- cSpent,
  draft <- cDraft, kept <- cKept, replyTo <- cReply, editing <- cEditing,
  deleteTarget <- cTarget, form <- cForm, saving <- cSaving, deleting <- cDeleting,
  deleted <- cDeleted, sent <- cSent, upload <- cUpload, carried <- cCarried,
  hasty <- cHasty

Reading == INSTANCE ChatReading WITH
  Convs <- Chats, MaxSeq <- ReadingSeq,
  visible <- nVisible, here <- nHere, newest <- nNewest, view <- nView,
  atLatest <- nLatest, arrivals <- nArrivals, queued <- nQueued, timer <- nTimer,
  reported <- nReported, seen <- nSeen, typers <- nTypers

Screen == INSTANCE ChatScreen WITH
  Messages <- OwnMessages, MaxTexts <- ScreenTexts, MaxPicks <- ScreenPicks, MaxSeq <- ScreenSeq,
  platform <- sPlatform, text <- sText, draft <- sDraft, editing <- sEditing,
  replyTo <- sReplyTo, written <- sWritten, spent <- sSpent, queued <- sQueued,
  edits <- sEdits, picks <- sPicks, attached <- sAttached, sheet <- sSheet,
  leavingSheet <- sLeavingSheet, pendingReport <- sPendingReport,
  reportFor <- sReportFor, front <- sFront, known <- sKnown, newest <- sNewest,
  lastRead <- sLastRead, marked <- sMarked, marks <- sMarks, read <- sRead,
  told <- sTold, seen <- sSeen

(***************************** A tab's outbox ******************************)

Msgs == Web!Messages
OutboxPosts == [msg : Msgs, by : {"pane", "flush"}, answer : {"none", "ok", "no", "net"}]

\* What need not be thought of any more, or is in the queue.
InHand == wLogged \cup wDropped \cup Web!Range(wOutbox)

\* A flush has one request under way at most, the next of its list, and all of its
\* list is in hand; an accepted message is at the server.
Flushing ==
  /\ wSync.at \in {"send", "wait"} => wSync.sent < Len(wSync.queue)
  /\ \A p \in wPosts :
       p.by = "flush" => wSync.at = "wait" /\ p.msg = wSync.queue[wSync.sent + 1]
  /\ \A p, q \in wPosts : p.by = "flush" /\ q.by = "flush" => p = q
  /\ \A i \in 1..Len(wSync.queue) : wSync.queue[i] \in InHand

OutboxInv ==
  /\ wOutbox \in Seq(Msgs) /\ wPosts \subseteq OutboxPosts
  /\ wSync \in [at : {"idle", "list", "send", "wait"}, queue : Seq(Msgs), sent : Nat]
  /\ wComing \subseteq wLogged
  /\ \A p \in wPosts : p.answer = "ok" => p.msg \in wLogged
  /\ Flushing /\ Web!NothingForgotten /\ Web!FlushInOrder

-----------------------------------------------------------------------------
\* A message goes, every other stays.
LEMMA DequeueKeeps ==
  ASSUME wOutbox \in Seq(Msgs), NEW m, NEW rest, rest = Web!Dequeue(m)
  PROVE  rest \in Seq(Msgs) /\ Web!Range(wOutbox) \ {m} \subseteq Web!Range(rest)
<1>1. CASE m \notin Web!Range(wOutbox)
  BY <1>1 DEF Web!Dequeue
<1>2. CASE m \in Web!Range(wOutbox)
  <2>0. PICK n : n = Len(wOutbox)
    OBVIOUS
  <2>1. PICK p \in DOMAIN wOutbox : wOutbox[p] = m /\ p = Web!PositionOf(m)
    BY <1>2 DEF Web!Range, Web!PositionOf
  <2>2. n \in Nat /\ DOMAIN wOutbox = 1..n /\ p \in 1..n
    BY <2>0, <2>1
  <2>3. PICK a, b : a = SubSeq(wOutbox, 1, p - 1) /\ b = SubSeq(wOutbox, p + 1, n)
    OBVIOUS
  <2>4. /\ a \in Seq(Msgs) /\ Len(a) = p - 1
        /\ \A i \in 1..(p - 1) : a[i] = wOutbox[i]
    BY <2>0, <2>2, <2>3, SubSeqProperties
  <2>5. /\ b \in Seq(Msgs) /\ Len(b) = n - p
        /\ \A i \in 1..(n - p) : b[i] = wOutbox[p + i]
    <3>1. /\ b \in Seq(Msgs) /\ Len(b) = IF p + 1 <= n THEN n - (p + 1) + 1 ELSE 0
          /\ \A i \in 1..(n - (p + 1) + 1) : b[i] = wOutbox[p + 1 + i - 1]
      BY <2>0, <2>2, <2>3, SubSeqProperties
    <3>2. n - (p + 1) + 1 = n - p /\ \A i \in 1..(n - p) : p + 1 + i - 1 = p + i
      BY <2>2
    <3>3. Len(b) = n - p
      BY <2>2, <3>1, <3>2
    <3>4. ASSUME NEW i \in 1..(n - p) PROVE b[i] = wOutbox[p + i]
      <4>1. b[i] = wOutbox[p + 1 + i - 1] /\ p + 1 + i - 1 = p + i
        BY <3>1, <3>2
      <4> QED BY <4>1
    <3> QED BY <3>1, <3>3, <3>4
  <2>6. rest = a \o b
    BY <1>2, <2>0, <2>1, <2>3 DEF Web!Dequeue, Web!RemoveAt
  <2>7. /\ rest \in Seq(Msgs) /\ Len(rest) = n - 1
        /\ \A i \in 1..(n - 1) : rest[i] = IF i <= p - 1 THEN a[i] ELSE b[i - (p - 1)]
    <3>1. /\ rest \in Seq(Msgs) /\ Len(rest) = Len(a) + Len(b)
          /\ \A i \in 1..(Len(a) + Len(b)) : rest[i] = IF i <= Len(a) THEN a[i] ELSE b[i - Len(a)]
      BY <2>4, <2>5, <2>6, ConcatProperties
    <3>2. Len(a) + Len(b) = n - 1
      BY <2>2, <2>4, <2>5
    <3> QED BY <2>4, <3>1, <3>2
  <2>8. DOMAIN rest = 1..(n - 1)
    BY <2>7
  <2>9. ASSUME NEW j \in 1..n, wOutbox[j] # m PROVE \E i \in 1..(n - 1) : rest[i] = wOutbox[j]
    <3>1. CASE j < p
      BY <2>2, <2>4, <2>7, <3>1
    <3>2. CASE j > p
      <4>1. PICK i : i = j - 1
        OBVIOUS
      <4>2. i \in 1..(n - 1) /\ ~(i <= p - 1) /\ i - (p - 1) \in 1..(n - p)
            /\ p + (i - (p - 1)) = j
        BY <2>2, <3>2, <4>1
      <4>3. b[i - (p - 1)] = wOutbox[j]
        BY <2>5, <4>2
      <4> QED BY <2>7, <4>2, <4>3
    <3>3. j # p
      BY <2>1, <2>9
    <3> QED BY <2>2, <3>1, <3>2, <3>3
  <2> QED BY <2>2, <2>7, <2>8, <2>9 DEF Web!Range
<1> QED BY <1>1, <1>2

LEMMA EnqueueKeeps ==
  ASSUME wOutbox \in Seq(Msgs), NEW m \in Msgs, NEW rest, rest = Web!Enqueue(m)
  PROVE  rest \in Seq(Msgs) /\ Web!Range(wOutbox) \cup {m} \subseteq Web!Range(rest)
<1>1. PICK others : others = Web!Dequeue(m)
  OBVIOUS
<1>2. others \in Seq(Msgs) /\ Web!Range(wOutbox) \ {m} \subseteq Web!Range(others)
  BY <1>1, DequeueKeeps
<1>3. rest = Append(others, m)
  BY <1>1 DEF Web!Enqueue
<1>4. /\ rest \in Seq(Msgs) /\ DOMAIN rest = 1..(Len(others) + 1)
      /\ rest[Len(others) + 1] = m /\ \A i \in 1..Len(others) : rest[i] = others[i]
  BY <1>2, <1>3
<1>5. Len(others) \in Nat /\ DOMAIN others = 1..Len(others)
  BY <1>2
<1> QED BY <1>2, <1>4, <1>5 DEF Web!Range

\* When what is in hand stays so, a step that leaves the catch-up alone and adds no
\* request of a flush keeps it in order.
LEMMA FlushingStays ==
  ASSUME OutboxInv, wSync' = wSync, InHand \subseteq InHand',
         wLogged \cup wDropped \subseteq wLogged' \cup wDropped',
         \A p \in wPosts' : p.by = "flush" => p \in wPosts
  PROVE  Flushing' /\ Web!FlushInOrder'
<1>1. /\ wSync'.at \in {"send", "wait"} => wSync'.sent < Len(wSync'.queue)
      /\ \A p \in wPosts' :
           p.by = "flush" => wSync'.at = "wait" /\ p.msg = wSync'.queue[wSync'.sent + 1]
      /\ \A p, q \in wPosts' : p.by = "flush" /\ q.by = "flush" => p = q
      /\ \A i \in 1..Len(wSync'.queue) : wSync'.queue[i] \in InHand'
  BY DEF OutboxInv, Flushing
<1>2. \A i \in 1..wSync'.sent : wSync'.queue[i] \in wLogged' \cup wDropped'
  BY DEF OutboxInv, Web!FlushInOrder
<1> QED BY <1>1, <1>2 DEF Flushing, Web!FlushInOrder

\* A request gets its answer.
LEMMA AnswerKeeps ==
  ASSUME OutboxInv, NEW p \in wPosts, NEW a \in {"ok", "no", "net"}, Web!Answer(p, a),
         wOutbox' = wOutbox, wSync' = wSync, wTyped' = wTyped, wDropped' = wDropped,
         wLogged \subseteq wLogged', wComing' \subseteq wLogged',
         a = "ok" => p.msg \in wLogged'
  PROVE  OutboxInv'
<1>1. PICK q : q = [p EXCEPT !.answer = a]
  OBVIOUS
<1>2. p \in OutboxPosts
  BY DEF OutboxInv
<1>3. q \in OutboxPosts /\ q.msg = p.msg /\ q.by = p.by /\ q.answer = a
  BY <1>1, <1>2 DEF OutboxPosts
<1>4. wPosts' = (wPosts \ {p}) \cup {q}
  BY <1>1 DEF Web!Answer
<1>5. InHand \subseteq InHand'
  BY DEF InHand
<1>6. Flushing' /\ Web!FlushInOrder'
  <2>1. wSync.at \in {"send", "wait"} => wSync.sent < Len(wSync.queue)
    BY DEF OutboxInv, Flushing
  <2>2. \A r \in wPosts' :
          r.by = "flush" => wSync.at = "wait" /\ r.msg = wSync.queue[wSync.sent + 1]
    BY <1>3, <1>4 DEF OutboxInv, Flushing
  <2>3. \A r, s \in wPosts' : r.by = "flush" /\ s.by = "flush" => r = s
    BY <1>3, <1>4 DEF OutboxInv, Flushing
  <2>4. \A i \in 1..Len(wSync.queue) : wSync.queue[i] \in InHand'
    BY <1>5 DEF OutboxInv, Flushing
  <2>5. \A i \in 1..wSync.sent : wSync.queue[i] \in wLogged' \cup wDropped'
    BY DEF OutboxInv, Web!FlushInOrder
  <2> QED BY <2>1, <2>2, <2>3, <2>4, <2>5 DEF Flushing, Web!FlushInOrder
<1>7. Web!NothingForgotten'
  BY <1>3, <1>4 DEF OutboxInv, Web!NothingForgotten
<1>8. wPosts' \subseteq OutboxPosts /\ \A r \in wPosts' : r.answer = "ok" => r.msg \in wLogged'
  BY <1>3, <1>4 DEF OutboxInv
<1> QED BY <1>6, <1>7, <1>8 DEF OutboxInv, Msgs, OutboxPosts, Web!Messages

LEMMA CommitAdds ==
  ASSUME OutboxInv, NEW m, Web!Commit(m)
  PROVE  wLogged \subseteq wLogged' /\ m \in wLogged' /\ wComing' \subseteq wLogged'
BY DEF OutboxInv, Web!Commit

\* What the server and the network do.
LEMMA NetworkKeeps ==
  ASSUME OutboxInv, NEW p \in wPosts, Web!Accept(p) \/ Web!Refuse(p) \/ Web!Lose(p)
  PROVE  OutboxInv'
<1>1. CASE Web!Accept(p)
  <2>1. Web!Commit(p.msg) /\ Web!Answer(p, "ok") /\ wOutbox' = wOutbox /\ wSync' = wSync
        /\ wTyped' = wTyped /\ wDropped' = wDropped
    BY <1>1 DEF Web!Accept, Web!tab
  <2> QED BY <2>1, CommitAdds, AnswerKeeps
<1>2. CASE Web!Refuse(p)
  <2>1. Web!Answer(p, "no") /\ wOutbox' = wOutbox /\ wSync' = wSync
        /\ wTyped' = wTyped /\ wDropped' = wDropped /\ wLogged' = wLogged /\ wComing' = wComing
    BY <1>2 DEF Web!Refuse, Web!tab, Web!server
  <2>2. wComing' \subseteq wLogged'
    BY <2>1 DEF OutboxInv
  <2> QED BY <2>1, <2>2, AnswerKeeps
<1>3. CASE Web!Lose(p)
  <2>1. Web!Answer(p, "net") /\ wOutbox' = wOutbox /\ wSync' = wSync
        /\ wTyped' = wTyped /\ wDropped' = wDropped /\ wLogged' = wLogged /\ wComing' = wComing
    BY <1>3 DEF Web!Lose, Web!tab, Web!server
  <2>2. wComing' \subseteq wLogged'
    BY <2>1 DEF OutboxInv
  <2> QED BY <2>1, <2>2, AnswerKeeps
<1> QED BY <1>1, <1>2, <1>3

\* A step that moves neither the requests nor the catch-up and forgets nothing.
LEMMA QuietKeeps ==
  ASSUME OutboxInv, wPosts' = wPosts, wSync' = wSync, wTyped' = wTyped, wDropped' = wDropped,
         wOutbox' \in Seq(Msgs), InHand \subseteq InHand',
         wLogged \subseteq wLogged', wComing' \subseteq wLogged'
  PROVE  OutboxInv'
<1>1. Flushing' /\ Web!FlushInOrder'
  BY FlushingStays
<1>2. Web!NothingForgotten'
  BY DEF OutboxInv, Web!NothingForgotten, InHand
<1> QED BY <1>1, <1>2 DEF OutboxInv, Msgs, OutboxPosts, Web!Messages

LEMMA ArriveLateKeeps ==
  ASSUME OutboxInv, NEW m \in Msgs, Web!ArriveLate(m)
  PROVE  OutboxInv'
<1>1. wPosts' = wPosts /\ wSync' = wSync /\ wTyped' = wTyped /\ wDropped' = wDropped
      /\ wOutbox' = wOutbox
  BY DEF Web!ArriveLate, Web!tab
<1>2. wLogged \subseteq wLogged' /\ wComing' \subseteq wLogged'
  BY CommitAdds DEF Web!ArriveLate, Web!server, OutboxInv
<1>3. InHand \subseteq InHand' /\ wOutbox' \in Seq(Msgs)
  BY <1>1, <1>2 DEF InHand, OutboxInv
<1> QED BY <1>1, <1>2, <1>3, QuietKeeps

LEMMA HearKeeps ==
  ASSUME OutboxInv, NEW m \in Msgs, Web!Hear(m)
  PROVE  OutboxInv'
<1>1. wPosts' = wPosts /\ wSync' = wSync /\ wTyped' = wTyped /\ wDropped' = wDropped
      /\ wLogged' = wLogged /\ wComing' = wComing \ {m} /\ m \in wComing
  BY DEF Web!Hear
<1>2. m \in wLogged /\ wComing' \subseteq wLogged'
  BY <1>1 DEF OutboxInv
<1>3. wOutbox' = wOutbox \/ wOutbox' = Web!Dequeue(m)
  BY DEF Web!Hear
<1>4. wOutbox \in Seq(Msgs)
  BY DEF OutboxInv
<1>5. PICK rest : rest = wOutbox'
  OBVIOUS
<1>6. rest \in Seq(Msgs) /\ Web!Range(wOutbox) \ {m} \subseteq Web!Range(rest)
  BY <1>3, <1>4, <1>5, DequeueKeeps
<1>7. InHand \subseteq InHand'
  <2>1. InHand' = wLogged' \cup wDropped' \cup Web!Range(rest)
    BY <1>5 DEF InHand, Web!Range
  <2> QED BY <1>1, <1>2, <1>6, <2>1 DEF InHand
<1> QED BY <1>1, <1>2, <1>5, <1>6, <1>7, QuietKeeps

-----------------------------------------------------------------------------
\* A catch-up that ends or begins anew has nothing to keep in order.
LEMMA FreshCatchUp ==
  ASSUME OutboxInv, wSync'.sent = 0, wSync'.at \in {"idle", "list"}, wSync'.queue = <<>>,
         \A p \in wPosts' : p.by # "flush"
  PROVE  Flushing' /\ Web!FlushInOrder'
BY DEF Flushing, Web!FlushInOrder

LEMMA ConnectKeeps ==
  ASSUME OutboxInv, Web!Connect
  PROVE  OutboxInv'
<1>1. wPosts' = wPosts /\ wTyped' = wTyped /\ wDropped' = wDropped
      /\ wLogged' = wLogged /\ wComing' = wComing /\ wOutbox' = wOutbox
  BY DEF Web!Connect, Web!server, Web!tab
<1>2. CASE wSync.at # "idle"
  <2>1. wSync' = wSync
    BY <1>2 DEF Web!Connect
  <2>2. InHand \subseteq InHand' /\ wOutbox' \in Seq(Msgs) /\ wComing' \subseteq wLogged'
    BY <1>1 DEF InHand, OutboxInv
  <2> QED BY <1>1, <2>1, <2>2, QuietKeeps
<1>3. CASE wSync.at = "idle"
  <2>1. wSync' = [at |-> "list", queue |-> <<>>, sent |-> 0]
    BY <1>3 DEF Web!Connect, Web!Idle
  <2>2. \A p \in wPosts' : p.by # "flush"
    BY <1>1, <1>3 DEF OutboxInv, Flushing
  <2>3. Flushing' /\ Web!FlushInOrder'
    BY <2>1, <2>2, FreshCatchUp
  <2>4. Web!NothingForgotten'
    BY <1>1 DEF OutboxInv, Web!NothingForgotten
  <2>5. wSync' \in [at : {"idle", "list", "send", "wait"}, queue : Seq(Msgs), sent : Nat]
    BY <2>1
  <2> QED BY <1>1, <2>3, <2>4, <2>5 DEF OutboxInv, Msgs, OutboxPosts, Web!Messages
<1> QED BY <1>2, <1>3

LEMMA ListOutboxKeeps ==
  ASSUME OutboxInv, Web!ListOutbox
  PROVE  OutboxInv'
<1>1. wPosts' = wPosts /\ wTyped' = wTyped /\ wDropped' = wDropped
      /\ wLogged' = wLogged /\ wComing' = wComing /\ wOutbox' = wOutbox /\ wSync.at = "list"
  BY DEF Web!ListOutbox, Web!server, Web!tab
<1>2. \A p \in wPosts' : p.by # "flush"
  BY <1>1 DEF OutboxInv, Flushing
<1>3. Web!NothingForgotten'
  BY <1>1 DEF OutboxInv, Web!NothingForgotten
<1>4. /\ wSync' \in [at : {"idle", "list", "send", "wait"}, queue : Seq(Msgs), sent : Nat]
      /\ Flushing' /\ Web!FlushInOrder'
  <2>1. CASE wOutbox = <<>>
    <3>1. wSync' = [at |-> "idle", queue |-> <<>>, sent |-> 0]
      BY <2>1 DEF Web!ListOutbox, Web!Idle
    <3> QED BY <1>2, <3>1, FreshCatchUp
  <2>2. CASE wOutbox # <<>>
    <3>1. wSync' = [at |-> "send", queue |-> wOutbox, sent |-> 0]
      BY <2>2 DEF Web!ListOutbox, Web!Idle
    <3>2. wOutbox \in Seq(Msgs) /\ Len(wOutbox) > 0
      BY <2>2, EmptySeq DEF OutboxInv
    <3>3. \A i \in 1..Len(wOutbox) : wOutbox[i] \in InHand'
      BY <1>1, <3>2 DEF InHand, Web!Range
    <3> QED BY <1>2, <3>1, <3>2, <3>3 DEF Flushing, Web!FlushInOrder
  <2> QED BY <2>1, <2>2
<1> QED BY <1>1, <1>2, <1>3, <1>4 DEF OutboxInv, Msgs, OutboxPosts, Web!Messages

LEMMA FlushSendKeeps ==
  ASSUME OutboxInv, Web!FlushSend
  PROVE  OutboxInv'
<1>1. wTyped' = wTyped /\ wDropped' = wDropped
      /\ wLogged' = wLogged /\ wComing' = wComing /\ wOutbox' = wOutbox /\ wSync.at = "send"
  BY DEF Web!FlushSend, Web!server, Web!tab
<1>2. PICK p : p = Web!Post(wSync.queue[wSync.sent + 1], "flush", "none")
  OBVIOUS
<1>3. wPosts' = wPosts \cup {p} /\ wSync' = [wSync EXCEPT !.at = "wait"]
  BY <1>2 DEF Web!FlushSend
<1>4. /\ wSync'.at = "wait" /\ wSync'.queue = wSync.queue /\ wSync'.sent = wSync.sent
      /\ wSync' \in [at : {"idle", "list", "send", "wait"}, queue : Seq(Msgs), sent : Nat]
  BY <1>3 DEF OutboxInv
<1>5. wSync.sent \in Nat /\ wSync.sent < Len(wSync.queue) /\ wSync.queue \in Seq(Msgs)
  BY <1>1 DEF OutboxInv, Flushing
<1>6. p \in OutboxPosts /\ p.msg = wSync.queue[wSync.sent + 1] /\ p.by = "flush"
      /\ p.answer = "none"
  BY <1>2, <1>5 DEF Web!Post, OutboxPosts
<1>7. \A q \in wPosts : q.by # "flush"
  BY <1>1 DEF OutboxInv, Flushing
<1>8. Flushing'
  <2>1. \A i \in 1..Len(wSync.queue) : wSync.queue[i] \in InHand'
    BY <1>1 DEF OutboxInv, Flushing, InHand
  <2> QED BY <1>3, <1>4, <1>5, <1>6, <1>7, <2>1 DEF Flushing
<1>9. Web!FlushInOrder'
  BY <1>1, <1>4 DEF OutboxInv, Web!FlushInOrder
<1>10. Web!NothingForgotten'
  BY <1>1, <1>3 DEF OutboxInv, Web!NothingForgotten
<1>11. wPosts' \subseteq OutboxPosts /\ \A q \in wPosts' : q.answer = "ok" => q.msg \in wLogged'
  BY <1>1, <1>3, <1>6 DEF OutboxInv
<1> QED BY <1>1, <1>4, <1>8, <1>9, <1>10, <1>11 DEF OutboxInv, Msgs, OutboxPosts, Web!Messages

\* The answer to a request is taken: what was asked is settled or still queued.
LEMMA FlushAnsweredKeeps ==
  ASSUME OutboxInv, NEW p \in wPosts, Web!FlushAnswered(p)
  PROVE  OutboxInv'
<1>1. /\ wTyped' = wTyped /\ wLogged' = wLogged /\ wComing' = wComing
      /\ p.by = "flush" /\ p.answer # "none" /\ wPosts' = wPosts \ {p}
      /\ wOutbox' = (IF p.answer = "net" THEN wOutbox ELSE Web!Dequeue(p.msg))
      /\ wDropped' = IF p.answer = "no" THEN wDropped \cup {p.msg} ELSE wDropped
  BY DEF Web!FlushAnswered, Web!server, Web!tab
<1>2. /\ p \in OutboxPosts /\ wOutbox \in Seq(Msgs)
      /\ wSync \in [at : {"idle", "list", "send", "wait"}, queue : Seq(Msgs), sent : Nat]
  BY DEF OutboxInv
<1>3. /\ wSync.at = "wait" /\ p.msg = wSync.queue[wSync.sent + 1]
      /\ wSync.sent < Len(wSync.queue) /\ \A q \in wPosts' : q.by # "flush"
  BY <1>1 DEF OutboxInv, Flushing
<1>4. p.msg \in InHand
  BY <1>2, <1>3 DEF OutboxInv, Flushing
<1>5. p.answer # "net" => p.msg \in wLogged' \cup wDropped'
  BY <1>1, <1>2 DEF OutboxInv, OutboxPosts
<1>6. PICK rest : rest = wOutbox'
  OBVIOUS
<1>7. rest \in Seq(Msgs)
      /\ \A m \in Web!Range(wOutbox) :
           m \in Web!Range(rest) \/ (m = p.msg /\ p.answer # "net")
  BY <1>1, <1>2, <1>6, DequeueKeeps
<1>8. InHand \subseteq InHand' /\ wLogged \cup wDropped \subseteq wLogged' \cup wDropped'
  <2>1. InHand' = wLogged' \cup wDropped' \cup Web!Range(rest)
    BY <1>6 DEF InHand, Web!Range
  <2> QED BY <1>1, <1>5, <1>7, <2>1 DEF InHand
<1>9. Web!NothingForgotten'
  <2>1. wTyped \subseteq InHand \cup {q.msg : q \in wPosts}
    BY DEF OutboxInv, Web!NothingForgotten, InHand
  <2>2. wTyped' \subseteq InHand' \cup {q.msg : q \in wPosts'}
    BY <1>1, <1>4, <1>8, <2>1
  <2> QED BY <2>2 DEF Web!NothingForgotten, InHand
<1>10. /\ wSync' \in [at : {"idle", "list", "send", "wait"}, queue : Seq(Msgs), sent : Nat]
       /\ Flushing' /\ Web!FlushInOrder'
  <2>1. CASE wSync' = Web!Idle
    <3>1. wSync' = [at |-> "idle", queue |-> <<>>, sent |-> 0]
      BY <2>1 DEF Web!Idle
    <3> QED BY <1>3, <3>1, FreshCatchUp
  <2>2. CASE wSync' # Web!Idle
    <3>1. /\ p.answer # "net" /\ wSync.sent + 1 # Len(wSync.queue)
          /\ wSync' = [wSync EXCEPT !.at = "send", !.sent = @ + 1]
      BY <2>2 DEF Web!FlushAnswered, Web!NextInQueue
    <3>2. /\ wSync' \in [at : {"idle", "list", "send", "wait"}, queue : Seq(Msgs), sent : Nat]
          /\ wSync'.at = "send" /\ wSync'.queue = wSync.queue /\ wSync'.sent = wSync.sent + 1
      <4>1. wSync' = [at |-> "send", queue |-> wSync.queue, sent |-> wSync.sent + 1]
        BY <1>2, <3>1
      <4>2. wSync.sent + 1 \in Nat /\ wSync.queue \in Seq(Msgs)
        BY <1>2
      <4> QED BY <4>1, <4>2
    <3>3. wSync'.sent < Len(wSync'.queue)
      BY <1>2, <1>3, <3>1, <3>2
    <3>4. \A i \in 1..Len(wSync.queue) : wSync.queue[i] \in InHand'
      BY <1>8 DEF OutboxInv, Flushing
    <3>5. \A i \in 1..(wSync.sent + 1) : wSync.queue[i] \in wLogged' \cup wDropped'
      <4>1. \A i \in 1..wSync.sent : wSync.queue[i] \in wLogged \cup wDropped
        BY DEF OutboxInv, Web!FlushInOrder
      <4>2. wSync.queue[wSync.sent + 1] \in wLogged' \cup wDropped'
        BY <1>3, <1>5, <3>1
      <4>3. \A i \in 1..(wSync.sent + 1) : i \in 1..wSync.sent \/ i = wSync.sent + 1
        BY <1>2
      <4> QED BY <1>8, <4>1, <4>2, <4>3
    <3> QED BY <1>3, <3>2, <3>3, <3>4, <3>5 DEF Flushing, Web!FlushInOrder
  <2> QED BY <2>1, <2>2
<1>11. wPosts' \subseteq OutboxPosts /\ \A q \in wPosts' : q.answer = "ok" => q.msg \in wLogged'
  BY <1>1 DEF OutboxInv
<1>12. wOutbox' \in Seq(Msgs) /\ wComing' \subseteq wLogged'
  BY <1>1, <1>6, <1>7 DEF OutboxInv
<1> QED BY <1>9, <1>10, <1>11, <1>12 DEF OutboxInv, Msgs, OutboxPosts, Web!Messages

LEMMA PaneAnsweredKeeps ==
  ASSUME OutboxInv, NEW p \in wPosts, Web!PaneAnswered(p)
  PROVE  OutboxInv'
<1>1. /\ wTyped' = wTyped /\ wLogged' = wLogged /\ wComing' = wComing /\ wSync' = wSync
      /\ p.by = "pane" /\ p.answer # "none" /\ wPosts' = wPosts \ {p}
      /\ wDropped' = IF p.answer = "no" THEN wDropped \cup {p.msg} ELSE wDropped
  BY DEF Web!PaneAnswered, Web!server
<1>2. p \in OutboxPosts /\ wOutbox \in Seq(Msgs)
  BY DEF OutboxInv
<1>3. p.answer \in {"ok", "no", "net"} /\ p.msg \in Msgs
  BY <1>1, <1>2 DEF OutboxPosts
<1>4. PICK rest : rest = wOutbox'
  OBVIOUS
<1>5. /\ rest \in Seq(Msgs)
      /\ \A m \in Web!Range(wOutbox) : m \in Web!Range(rest) \/ (m = p.msg /\ p.answer = "ok")
      /\ p.answer = "net" => p.msg \in Web!Range(rest)
  <2>1. CASE p.answer = "ok"
    <3>1. rest = Web!Dequeue(p.msg)
      BY <1>4, <2>1 DEF Web!PaneAnswered
    <3> QED BY <1>2, <2>1, <3>1, DequeueKeeps
  <2>2. CASE p.answer = "net"
    <3>1. rest = Web!Enqueue(p.msg)
      BY <1>4, <2>2 DEF Web!PaneAnswered
    <3> QED BY <1>2, <1>3, <2>2, <3>1, EnqueueKeeps
  <2>3. CASE p.answer = "no"
    BY <1>2, <1>4, <2>3 DEF Web!PaneAnswered
  <2> QED BY <1>3, <2>1, <2>2, <2>3
<1>6. InHand' = wLogged' \cup wDropped' \cup Web!Range(rest)
  BY <1>4 DEF InHand, Web!Range
<1>7. p.answer = "ok" => p.msg \in wLogged'
  BY <1>1 DEF OutboxInv
<1>8. InHand \subseteq InHand' /\ wLogged \cup wDropped \subseteq wLogged' \cup wDropped'
      /\ p.msg \in InHand'
  BY <1>1, <1>3, <1>5, <1>6, <1>7 DEF InHand
<1>9. Web!NothingForgotten'
  <2>1. wTyped \subseteq InHand \cup {q.msg : q \in wPosts}
    BY DEF OutboxInv, Web!NothingForgotten, InHand
  <2>2. wTyped' \subseteq InHand' \cup {q.msg : q \in wPosts'}
    BY <1>1, <1>8, <2>1
  <2> QED BY <2>2 DEF Web!NothingForgotten, InHand
<1>10. Flushing' /\ Web!FlushInOrder'
  BY <1>1, <1>8, FlushingStays
<1>11. wPosts' \subseteq OutboxPosts /\ \A q \in wPosts' : q.answer = "ok" => q.msg \in wLogged'
  BY <1>1 DEF OutboxInv
<1>12. wOutbox' \in Seq(Msgs) /\ wComing' \subseteq wLogged'
  BY <1>1, <1>4, <1>5 DEF OutboxInv
<1> QED BY <1>1, <1>9, <1>10, <1>11, <1>12 DEF OutboxInv, Msgs, OutboxPosts, Web!Messages

\* What its owner submits is on its way.
LEMMA SubmitKeeps ==
  ASSUME OutboxInv, NEW m \in Msgs, Web!Submit(m) \/ Web!Retry(m)
  PROVE  OutboxInv'
<1>1. PICK p : p = Web!Post(m, "pane", "none")
  OBVIOUS
<1>2. p \in OutboxPosts /\ p.msg = m /\ p.by = "pane" /\ p.answer = "none"
  BY <1>1 DEF Web!Post, OutboxPosts
<1>3. /\ wPosts' = wPosts \cup {p} /\ wTyped' \subseteq wTyped \cup {m}
      /\ wLogged' = wLogged /\ wComing' = wComing /\ wOutbox' = wOutbox
      /\ wSync' = wSync /\ wDropped' = wDropped
  BY <1>1 DEF Web!Submit, Web!Retry, Web!TrySend, Web!server
<1>4. InHand \subseteq InHand'
  BY <1>3 DEF InHand
<1>5. Flushing' /\ Web!FlushInOrder'
  BY <1>2, <1>3, <1>4, FlushingStays
<1>6. Web!NothingForgotten'
  BY <1>2, <1>3 DEF OutboxInv, Web!NothingForgotten
<1>7. wPosts' \subseteq OutboxPosts /\ \A q \in wPosts' : q.answer = "ok" => q.msg \in wLogged'
  BY <1>2, <1>3 DEF OutboxInv
<1> QED BY <1>3, <1>5, <1>6, <1>7 DEF OutboxInv, Msgs, OutboxPosts, Web!Messages

\* What a reload cuts off is in the outbox or was the pane's first request.
LEMMA ReloadKeeps ==
  ASSUME OutboxInv, Web!Reload
  PROVE  OutboxInv'
<1>1. /\ wPosts' = {} /\ wTyped' = wTyped /\ wLogged' = wLogged /\ wComing' = wComing
      /\ wOutbox' = wOutbox /\ wSync' = [at |-> "idle", queue |-> <<>>, sent |-> 0]
      /\ wDropped' = wDropped \cup {p.msg : p \in {q \in wPosts : q.by = "pane"}}
  BY DEF Web!Reload, Web!server, Web!Idle
<1>2. ASSUME NEW p \in wPosts PROVE p.msg \in InHand'
  <2>1. InHand \subseteq InHand'
    BY <1>1 DEF InHand
  <2>2. CASE p.by = "pane"
    BY <1>1, <2>2 DEF InHand
  <2>3. CASE p.by = "flush"
    BY <2>1, <2>3 DEF OutboxInv, Flushing
  <2>4. p.by \in {"pane", "flush"}
    BY DEF OutboxInv, OutboxPosts
  <2> QED BY <2>2, <2>3, <2>4
<1>3. Web!NothingForgotten'
  BY <1>1, <1>2 DEF OutboxInv, Web!NothingForgotten, InHand
<1>4. Flushing' /\ Web!FlushInOrder'
  BY <1>1, FreshCatchUp
<1>5. wSync' \in [at : {"idle", "list", "send", "wait"}, queue : Seq(Msgs), sent : Nat]
  BY <1>1
<1> QED BY <1>1, <1>3, <1>4, <1>5 DEF OutboxInv, Msgs, OutboxPosts, Web!Messages

\* Nothing typed in a tab is forgotten, and a flush passes what was sent or refused
\* only (ChatPane.tsx:693, outboxFlush.ts:24).
THEOREM WebOutboxSound == Web!Spec => [](Web!NothingForgotten /\ Web!FlushInOrder)
<1>1. Web!Init => OutboxInv
  <2> SUFFICES ASSUME Web!Init PROVE OutboxInv
    OBVIOUS
  <2>1. /\ wOutbox = <<>> /\ wPosts = {} /\ wTyped = {} /\ wComing = {} /\ wLogged = {}
        /\ wSync = [at |-> "idle", queue |-> <<>>, sent |-> 0]
    BY DEF Web!Init, Web!Idle
  <2> QED BY <2>1 DEF OutboxInv, Flushing, Web!NothingForgotten, Web!FlushInOrder
<1>2. OutboxInv /\ [Web!Next]_(Web!vars) => OutboxInv'
  <2> SUFFICES ASSUME OutboxInv, [Web!Next]_(Web!vars) PROVE OutboxInv'
    OBVIOUS
  <2>1. ASSUME NEW p \in wPosts, Web!Accept(p) \/ Web!Refuse(p) \/ Web!Lose(p) PROVE OutboxInv'
    BY <2>1, NetworkKeeps
  <2>2. ASSUME NEW p \in wPosts, Web!FlushAnswered(p) \/ Web!PaneAnswered(p) PROVE OutboxInv'
    BY <2>2, FlushAnsweredKeeps, PaneAnsweredKeeps
  <2>3. ASSUME NEW m \in Msgs, Web!Submit(m) \/ Web!Retry(m) PROVE OutboxInv'
    BY <2>3, SubmitKeeps
  <2>4. ASSUME NEW m \in Msgs, Web!ArriveLate(m) PROVE OutboxInv'
    BY <2>4, ArriveLateKeeps
  <2>5. ASSUME NEW m \in Msgs, Web!Hear(m) PROVE OutboxInv'
    BY <2>5, HearKeeps
  <2>6. CASE Web!Connect
    BY <2>6, ConnectKeeps
  <2>7. CASE Web!ListOutbox
    BY <2>7, ListOutboxKeeps
  <2>8. CASE Web!FlushSend
    BY <2>8, FlushSendKeeps
  <2>9. CASE Web!Reload
    BY <2>9, ReloadKeeps
  <2>10. CASE Web!Drop \/ Web!OpenPane \/ Web!ClosePane \/ UNCHANGED Web!vars
    <3>1. /\ wPosts' = wPosts /\ wSync' = wSync /\ wTyped' = wTyped /\ wDropped' = wDropped
          /\ wLogged' = wLogged /\ wComing' = wComing /\ wOutbox' = wOutbox
      BY <2>10 DEF Web!Drop, Web!OpenPane, Web!ClosePane, Web!vars, Web!server, Web!tab
    <3>2. wOutbox' \in Seq(Msgs) /\ InHand \subseteq InHand' /\ wComing' \subseteq wLogged'
      BY <3>1 DEF OutboxInv, InHand
    <3> QED BY <3>1, <3>2, QuietKeeps
  <2> QED
    BY <2>1, <2>2, <2>3, <2>4, <2>5, <2>6, <2>7, <2>8, <2>9, <2>10
    DEF Web!Next, Web!Client, Msgs
<1>3. OutboxInv => Web!NothingForgotten /\ Web!FlushInOrder
  BY DEF OutboxInv
<1> QED BY <1>1, <1>2, <1>3, PTL DEF Web!Spec

(************************* The reading of a browser *************************)

ReadingTypes ==
  /\ nQueued \in [Chats -> Nat] /\ nReported \in [Chats -> Nat] /\ nSeen \in [Chats -> Nat]
  /\ nTimer \in [Chats -> BOOLEAN] /\ nNewest \in [Chats -> Nat] /\ nHere \in Chats
  /\ nVisible \in BOOLEAN /\ nView \in Nat /\ nArrivals \in Nat

\* What a send is scheduled for is beyond what was sent, and nothing is kept
\* without one.
Scheduled ==
  \A c \in Chats :
    /\ nReported[c] <= nSeen[c] /\ nQueued[c] <= nSeen[c]
    /\ IF nTimer[c] THEN nQueued[c] > nReported[c] ELSE nQueued[c] = 0

\* A seq on the screen of the open chat is reported or about to be.
Told(seq) == seq <= nReported[nHere] \/ (nTimer[nHere] /\ seq <= nQueued[nHere])

ReadingInv ==
  /\ ReadingTypes /\ Scheduled
  /\ ~nVisible => ~nTimer[nHere]
  /\ nVisible => Told(nView)
  /\ Reading!CountsTrue

-----------------------------------------------------------------------------
LEMMA HigherIs ==
  ASSUME NEW a \in Nat, NEW b \in Nat
  PROVE  Reading!Higher(a, b) = IF a >= b THEN a ELSE b
<1>1. PICK h : h = IF a >= b THEN a ELSE b
  OBVIOUS
<1>2. h \in {a, b} /\ \A y \in {a, b} : h >= y
  BY <1>1
<1>3. \A x \in {a, b} : (\A y \in {a, b} : x >= y) => x = h
  BY <1>1
<1>4. (CHOOSE x \in {a, b} : \A y \in {a, b} : x >= y) = h
  BY <1>2, <1>3
<1> QED BY <1>1, <1>4 DEF Reading!Higher, Reading!Max

\* A report of what is on the screen.
LEMMA ReportKeeps ==
  ASSUME ReadingTypes, Scheduled, NEW shown \in BOOLEAN, NEW seq \in Nat,
         Reading!Report(shown, seq), nReported' = nReported, nHere' = nHere
  PROVE  /\ nQueued' \in [Chats -> Nat] /\ nSeen' \in [Chats -> Nat]
         /\ nTimer' \in [Chats -> BOOLEAN] /\ Scheduled'
         /\ shown => Told(seq)'
         /\ ~shown => nTimer' = nTimer /\ nQueued' = nQueued
<1>1. CASE ~shown
  BY <1>1 DEF Reading!Report, ReadingTypes, Scheduled
<1>2. CASE shown
  <2>1. PICK h \in Chats : h = nHere
    BY DEF ReadingTypes
  <2>2. PICK r, q, s \in Nat : r = nReported[h] /\ q = nQueued[h] /\ s = nSeen[h]
    BY DEF ReadingTypes
  <2>3. /\ Reading!Higher(r, q) = (IF r >= q THEN r ELSE q)
        /\ Reading!Higher(s, seq) = IF s >= seq THEN s ELSE seq
    BY HigherIs
  <2>4. nSeen' = [nSeen EXCEPT ![h] = IF s >= seq THEN s ELSE seq]
    BY <1>2, <2>1, <2>2, <2>3 DEF Reading!Report
  <2>5. IF seq > r /\ seq > q
        THEN nQueued' = [nQueued EXCEPT ![h] = seq] /\ nTimer' = [nTimer EXCEPT ![h] = TRUE]
        ELSE nQueued' = nQueued /\ nTimer' = nTimer
    <3>1. IF seq > (IF r >= q THEN r ELSE q)
          THEN nQueued' = [nQueued EXCEPT ![h] = seq] /\ nTimer' = [nTimer EXCEPT ![h] = TRUE]
          ELSE nQueued' = nQueued /\ nTimer' = nTimer
      BY <1>2, <2>1, <2>2, <2>3 DEF Reading!Report, Reading!Request
    <3>2. seq > (IF r >= q THEN r ELSE q) <=> seq > r /\ seq > q
      BY <2>2
    <3> QED BY <3>1, <3>2
  <2>6. r <= s /\ q <= s /\ (IF nTimer[h] THEN q > r ELSE q = 0)
    BY <2>2 DEF Scheduled
  <2>7. /\ nQueued' \in [Chats -> Nat] /\ nSeen' \in [Chats -> Nat]
        /\ nTimer' \in [Chats -> BOOLEAN]
    BY <2>2, <2>4, <2>5 DEF ReadingTypes
  <2>8. Scheduled'
    <3> SUFFICES ASSUME NEW c \in Chats
                 PROVE  /\ nReported[c] <= nSeen'[c] /\ nQueued'[c] <= nSeen'[c]
                        /\ IF nTimer'[c] THEN nQueued'[c] > nReported[c] ELSE nQueued'[c] = 0
      BY DEF Scheduled
    <3>1. CASE c # h
      <4>1. nSeen'[c] = nSeen[c] /\ nQueued'[c] = nQueued[c] /\ nTimer'[c] = nTimer[c]
        BY <2>4, <2>5, <3>1 DEF ReadingTypes
      <4> QED BY <4>1 DEF Scheduled
    <3>2. CASE c = h
      <4>1. nSeen'[c] = IF s >= seq THEN s ELSE seq
        BY <2>4, <3>2 DEF ReadingTypes
      <4>2. IF seq > r /\ seq > q THEN nQueued'[c] = seq /\ nTimer'[c]
            ELSE nQueued'[c] = q /\ nTimer'[c] = nTimer[h]
        BY <2>2, <2>5, <3>2 DEF ReadingTypes
      <4> QED BY <2>2, <2>6, <3>2, <4>1, <4>2
    <3> QED BY <3>1, <3>2
  <2>9. Told(seq)'
    <3>1. IF seq > r /\ seq > q THEN nQueued'[h] = seq /\ nTimer'[h]
          ELSE nQueued'[h] = q /\ nTimer'[h] = nTimer[h]
      BY <2>2, <2>5 DEF ReadingTypes
    <3>2. seq <= r \/ (nTimer'[h] /\ seq <= nQueued'[h])
      BY <2>2, <2>6, <3>1
    <3> QED BY <2>1, <2>2, <3>2 DEF Told
  <2> QED BY <1>2, <2>7, <2>8, <2>9
<1> QED BY <1>1, <1>2

LEMMA FlushKeeps ==
  ASSUME ReadingInv, NEW c \in Chats, Reading!Flush(c)
  PROVE  ReadingInv'
<1>1. /\ nTimer[c] /\ nTimer' = [nTimer EXCEPT ![c] = FALSE]
      /\ nQueued' = [nQueued EXCEPT ![c] = 0]
      /\ nReported' = [nReported EXCEPT ![c] = nQueued[c]]
      /\ UNCHANGED <<nVisible, nHere, nNewest, nView, nLatest, nArrivals, nSeen, nTypers>>
  BY DEF Reading!Flush
<1>2. ReadingTypes /\ Scheduled
  BY DEF ReadingInv
<1>3. ReadingTypes'
  BY <1>1, <1>2 DEF ReadingTypes
<1>4. \A d \in Chats :
        /\ (nTimer'[d] <=> d # c /\ nTimer[d])
        /\ nQueued'[d] = (IF d = c THEN 0 ELSE nQueued[d])
        /\ nReported'[d] = IF d = c THEN nQueued[c] ELSE nReported[d]
  BY <1>1, <1>2 DEF ReadingTypes
<1>5. Scheduled'
  BY <1>1, <1>2, <1>4 DEF Scheduled, ReadingTypes
<1>6. nHere \in Chats /\ nQueued[c] \in Nat /\ nReported[c] \in Nat /\ nView \in Nat
      /\ nQueued[c] > nReported[c]
  BY <1>1, <1>2 DEF ReadingTypes, Scheduled
<1>7. nVisible => Told(nView)'
  <2>1. nVisible => Told(nView)
    BY DEF ReadingInv
  <2>2. CASE nHere = c
    <3>1. nVisible => nView <= nQueued[c]
      BY <1>6, <2>1, <2>2 DEF Told
    <3>2. nReported'[nHere] = nQueued[c]
      BY <1>4, <1>6, <2>2
    <3> QED BY <1>1, <3>1, <3>2 DEF Told
  <2>3. CASE nHere # c
    <3>1. nTimer'[nHere] = nTimer[nHere] /\ nQueued'[nHere] = nQueued[nHere]
          /\ nReported'[nHere] = nReported[nHere]
      BY <1>1, <1>2, <2>3 DEF ReadingTypes
    <3> QED BY <1>1, <2>1, <3>1 DEF Told
  <2> QED BY <2>2, <2>3
<1>8. ~nVisible => ~nTimer'[nHere]
  BY <1>4, <1>6 DEF ReadingInv
<1> QED BY <1>1, <1>3, <1>5, <1>7, <1>8 DEF ReadingInv, Reading!CountsTrue

\* The receipt of a chat is cancelled.
LEMMA CancelKeeps ==
  ASSUME ReadingTypes, Scheduled, NEW c \in Chats, Reading!CancelRequest(c),
         nReported' = nReported, nSeen' = nSeen
  PROVE  /\ nQueued' \in [Chats -> Nat] /\ nTimer' \in [Chats -> BOOLEAN] /\ Scheduled'
         /\ ~nTimer'[c]
<1>1. nTimer' = [nTimer EXCEPT ![c] = FALSE] /\ nQueued' = [nQueued EXCEPT ![c] = 0]
  BY DEF Reading!CancelRequest
<1>2. ~nTimer'[c] /\ nQueued'[c] = 0
  BY <1>1 DEF ReadingTypes
<1>3. ASSUME NEW d \in Chats
      PROVE  /\ nReported[d] <= nSeen[d] /\ nQueued'[d] <= nSeen[d]
             /\ IF nTimer'[d] THEN nQueued'[d] > nReported[d] ELSE nQueued'[d] = 0
  <2>1. CASE d = c
    BY <1>2, <2>1 DEF Scheduled, ReadingTypes
  <2>2. CASE d # c
    <3>1. nTimer'[d] = nTimer[d] /\ nQueued'[d] = nQueued[d]
      BY <1>1, <2>2 DEF ReadingTypes
    <3> QED BY <3>1 DEF Scheduled
  <2> QED BY <2>1, <2>2
<1>4. Scheduled'
  BY <1>3 DEF Scheduled
<1> QED BY <1>1, <1>2, <1>4 DEF ReadingTypes

LEMMA OpenChatKeeps ==
  ASSUME ReadingInv, NEW c \in Chats, Reading!Open(c)
  PROVE  ReadingInv'
<1>1. /\ nHere' = c /\ nView' = 0 /\ nLatest' = TRUE /\ nArrivals' = 0 /\ nTypers' = {}
      /\ nReported' = nReported /\ nSeen' = nSeen /\ nVisible' = nVisible /\ nNewest' = nNewest
  BY DEF Reading!Open, Reading!Switch
<1>2. ReadingTypes /\ Scheduled
  BY DEF ReadingInv
<1>3. /\ nQueued' \in [Chats -> Nat] /\ nTimer' \in [Chats -> BOOLEAN] /\ Scheduled'
      /\ ~nVisible => ~nTimer'[c]
  <2>1. CASE nVisible
    BY <1>1, <1>2, <2>1 DEF Reading!Open, ReadingTypes, Scheduled
  <2>2. CASE ~nVisible
    BY <1>1, <1>2, <2>2, CancelKeeps DEF Reading!Open
  <2> QED BY <2>1, <2>2
<1>4. Told(nView)'
  BY <1>1, <1>2 DEF Told, ReadingTypes
<1> QED BY <1>1, <1>2, <1>3, <1>4 DEF ReadingInv, ReadingTypes, Reading!CountsTrue

LEMMA HideKeeps ==
  ASSUME ReadingInv, Reading!Hide
  PROVE  ReadingInv'
<1>1. /\ nVisible' = FALSE /\ Reading!CancelRequest(nHere) /\ nReported' = nReported
      /\ UNCHANGED <<nHere, nNewest, nView, nLatest, nArrivals, nSeen, nTypers>>
  BY DEF Reading!Hide
<1>2. ReadingTypes /\ Scheduled /\ nHere \in Chats
  BY DEF ReadingInv, ReadingTypes
<1>3. /\ nQueued' \in [Chats -> Nat] /\ nTimer' \in [Chats -> BOOLEAN] /\ Scheduled'
      /\ ~nTimer'[nHere]
  BY <1>1, <1>2, CancelKeeps
<1> QED BY <1>1, <1>2, <1>3 DEF ReadingInv, ReadingTypes, Reading!CountsTrue

LEMMA ShowKeeps ==
  ASSUME ReadingInv, Reading!Show
  PROVE  ReadingInv'
<1>1. /\ nVisible' = TRUE /\ Reading!Report(TRUE, nView) /\ nReported' = nReported
      /\ UNCHANGED <<nHere, nNewest, nView, nLatest, nArrivals, nTypers>>
  BY DEF Reading!Show
<1>2. PICK v \in Nat : v = nView
  BY DEF ReadingInv, ReadingTypes
<1>3. ReadingTypes /\ Scheduled /\ Reading!Report(TRUE, v)
  BY <1>1, <1>2 DEF ReadingInv
<1>4. /\ nQueued' \in [Chats -> Nat] /\ nSeen' \in [Chats -> Nat]
      /\ nTimer' \in [Chats -> BOOLEAN] /\ Scheduled' /\ Told(v)'
  BY <1>1, <1>3, ReportKeeps
<1>5. Told(nView)'
  BY <1>1, <1>2, <1>4 DEF Told
<1> QED BY <1>1, <1>3, <1>4, <1>5 DEF ReadingInv, ReadingTypes, Reading!CountsTrue

\* Something is on the screen of the open chat, at the end of the list or not.
LEMMA ViewKeeps ==
  ASSUME ReadingInv, NEW v \in Nat, nView' = v, Reading!Report(nVisible, v),
         nReported' = nReported, nHere' = nHere, nVisible' = nVisible, nTypers' = nTypers,
         nNewest' \in [Chats -> Nat], nArrivals' \in Nat, nArrivals' > 0 => ~nLatest'
  PROVE  ReadingInv'
<1>1. ReadingTypes /\ Scheduled /\ nVisible \in BOOLEAN
  BY DEF ReadingInv, ReadingTypes
<1>2. /\ nQueued' \in [Chats -> Nat] /\ nSeen' \in [Chats -> Nat]
      /\ nTimer' \in [Chats -> BOOLEAN] /\ Scheduled'
      /\ nVisible => Told(v)'
      /\ ~nVisible => nTimer' = nTimer /\ nQueued' = nQueued
  BY <1>1, ReportKeeps
<1>3. nVisible => Told(nView)'
  BY <1>2 DEF Told
<1> QED BY <1>1, <1>2, <1>3 DEF ReadingInv, ReadingTypes, Reading!CountsTrue

LEMMA ScrollKeeps ==
  ASSUME ReadingInv, NEW seq \in Nat, NEW latest \in BOOLEAN, Reading!Scroll(seq, latest)
  PROVE  ReadingInv'
<1>1. /\ nView' = seq /\ Reading!Report(nVisible, seq) /\ nReported' = nReported
      /\ nHere' = nHere /\ nVisible' = nVisible /\ nTypers' = nTypers /\ nNewest' = nNewest
      /\ nLatest' = latest /\ nArrivals' = IF latest THEN 0 ELSE nArrivals
  BY DEF Reading!Scroll
<1>2. nNewest' \in [Chats -> Nat] /\ nArrivals' \in Nat /\ (nArrivals' > 0 => ~nLatest')
  BY <1>1 DEF ReadingInv, ReadingTypes, Reading!CountsTrue
<1> QED BY <1>1, <1>2, ViewKeeps

\* A step that leaves the throttle, the view and the open chat alone.
LEMMA StillKeeps ==
  ASSUME ReadingInv, UNCHANGED <<nVisible, nHere, nView, nQueued, nTimer, nReported, nSeen>>,
         nNewest' \in [Chats -> Nat], nArrivals' \in Nat, Reading!CountsTrue'
  PROVE  ReadingInv'
<1>1. ReadingTypes' /\ Scheduled' /\ (nVisible => Told(nView)')
  BY DEF ReadingInv, ReadingTypes, Scheduled, Told
<1> QED BY <1>1 DEF ReadingInv

LEMMA ArriveKeeps ==
  ASSUME ReadingInv, NEW c \in Chats, NEW theirs \in BOOLEAN, Reading!Arrive(c, theirs)
  PROVE  ReadingInv'
<1>1. /\ nNewest' = [nNewest EXCEPT ![c] = @ + 1]
      /\ nVisible' = nVisible /\ nHere' = nHere /\ nReported' = nReported /\ nTypers' = nTypers
  BY DEF Reading!Arrive
<1>2. nNewest' \in [Chats -> Nat] /\ nNewest[c] + 1 \in Nat /\ nView \in Nat /\ nArrivals \in Nat
  BY <1>1 DEF ReadingInv, ReadingTypes
<1>3. CASE c # nHere
  <2>1. UNCHANGED <<nView, nLatest, nArrivals, nQueued, nTimer, nSeen>>
    BY <1>3 DEF Reading!Arrive
  <2>2. Reading!CountsTrue'
    BY <1>1, <2>1 DEF ReadingInv, Reading!CountsTrue
  <2> QED BY <1>1, <1>2, <2>1, <2>2, StillKeeps
<1>4. CASE c = nHere
  <2>1. /\ nArrivals' = (IF nLatest' THEN 0 ELSE nArrivals + 1)
        /\ nView' \in (IF nLatest' THEN {nNewest[c] + 1} ELSE {nView, nView + 1})
        /\ Reading!Report(nVisible, nView')
    BY <1>4 DEF Reading!Arrive
  <2>2. PICK v : v = nView'
    OBVIOUS
  <2>3. v \in Nat /\ Reading!Report(nVisible, v)
    BY <1>2, <2>1, <2>2
  <2>4. nArrivals' \in Nat /\ (nArrivals' > 0 => ~nLatest')
    BY <1>2, <2>1
  <2> QED BY <1>1, <1>2, <2>2, <2>3, <2>4, ViewKeeps
<1> QED BY <1>3, <1>4

\* Receipts tell what was on the screen of a visible tab, all of that is told, and
\* the count and the typing are the open chat's (readReceipts.ts:63).
THEOREM ReadingSound ==
  Reading!Spec => [](Reading!ReceiptsTrue /\ Reading!SeenIsReported /\ Reading!CountsTrue)
<1>1. Reading!Init => ReadingInv
  <2> SUFFICES ASSUME Reading!Init PROVE ReadingInv
    OBVIOUS
  <2>1. /\ nHere \in Chats /\ nVisible \in BOOLEAN /\ nView = 0 /\ nArrivals = 0
        /\ nQueued = [c \in Chats |-> 0] /\ nTimer = [c \in Chats |-> FALSE]
        /\ nReported = [c \in Chats |-> 0] /\ nSeen = [c \in Chats |-> 0]
        /\ nTypers = {} /\ nNewest \in [Chats -> 0..1]
    BY DEF Reading!Init
  <2>2. nNewest \in [Chats -> Nat]
    BY <2>1
  <2>3. ReadingTypes /\ Scheduled /\ Told(nView) /\ ~nTimer[nHere] /\ Reading!CountsTrue
    BY <2>1, <2>2 DEF ReadingTypes, Scheduled, Told, Reading!CountsTrue
  <2> QED BY <2>3 DEF ReadingInv
<1>2. ReadingInv /\ [Reading!Next]_(Reading!vars) => ReadingInv'
  <2> SUFFICES ASSUME ReadingInv, [Reading!Next]_(Reading!vars) PROVE ReadingInv'
    OBVIOUS
  <2>1. nArrivals \in Nat /\ nNewest \in [Chats -> Nat] /\ Reading!CountsTrue
    BY DEF ReadingInv, ReadingTypes
  <2>2. CASE Reading!Hide
    BY <2>2, HideKeeps
  <2>3. CASE Reading!Show
    BY <2>3, ShowKeeps
  <2>4. CASE Reading!JumpToLatest
    BY <2>1, <2>4, StillKeeps DEF Reading!JumpToLatest, Reading!throttle, Reading!CountsTrue
  <2>5. CASE Reading!Prune
    BY <2>1, <2>5, StillKeeps DEF Reading!Prune, Reading!throttle, Reading!CountsTrue
  <2>6. ASSUME NEW c \in Chats, Reading!Open(c) PROVE ReadingInv'
    BY <2>6, OpenChatKeeps
  <2>7. ASSUME NEW c \in Chats, Reading!Flush(c) PROVE ReadingInv'
    BY <2>7, FlushKeeps
  <2>8. ASSUME NEW c \in Chats, Reading!Typing(c) PROVE ReadingInv'
    BY <2>1, <2>8, StillKeeps DEF Reading!Typing, Reading!throttle, Reading!CountsTrue
  <2>9. ASSUME NEW c \in Chats, NEW b \in BOOLEAN, Reading!Arrive(c, b) PROVE ReadingInv'
    BY <2>9, ArriveKeeps
  <2>10. ASSUME NEW n \in 1..ReadingSeq, NEW b \in BOOLEAN, Reading!Scroll(n, b)
         PROVE  ReadingInv'
    BY <2>10, ScrollKeeps, ChatsAssumption
  <2>11. CASE UNCHANGED Reading!vars
    BY <2>1, <2>11, StillKeeps DEF Reading!vars, Reading!CountsTrue
  <2> QED
    BY <2>2, <2>3, <2>4, <2>5, <2>6, <2>7, <2>8, <2>9, <2>10, <2>11 DEF Reading!Next
<1>3. ReadingInv => Reading!ReceiptsTrue /\ Reading!SeenIsReported /\ Reading!CountsTrue
  <2> SUFFICES ASSUME ReadingInv
               PROVE  Reading!ReceiptsTrue /\ Reading!SeenIsReported /\ Reading!CountsTrue
    OBVIOUS
  <2>1. ASSUME NEW c \in Chats PROVE Reading!Higher(nReported[c], nQueued[c]) <= nSeen[c]
    <3>1. nReported[c] \in Nat /\ nQueued[c] \in Nat /\ nSeen[c] \in Nat
      BY DEF ReadingInv, ReadingTypes
    <3>2. nReported[c] <= nSeen[c] /\ nQueued[c] <= nSeen[c]
      BY DEF ReadingInv, Scheduled
    <3> QED BY <3>1, <3>2, HigherIs
  <2>2. Reading!ReceiptsTrue
    BY <2>1 DEF ReadingInv, Reading!ReceiptsTrue
  <2>3. Reading!SeenIsReported
    <3>1. PICK q \in Nat : q = IF nTimer[nHere] THEN nQueued[nHere] ELSE 0
      BY DEF ReadingInv, ReadingTypes
    <3>2. nReported[nHere] \in Nat /\ nView \in Nat
      BY DEF ReadingInv, ReadingTypes
    <3>3. nVisible => nView <= nReported[nHere] \/ nView <= q
      BY <3>1 DEF ReadingInv, Told
    <3>4. nVisible => nView <= Reading!Higher(nReported[nHere], q)
      BY <3>1, <3>2, <3>3, HigherIs
    <3> QED BY <3>1, <3>4 DEF Reading!SeenIsReported
  <2> QED BY <2>2, <2>3 DEF ReadingInv
<1> QED BY <1>1, <1>2, <1>3, PTL DEF Reading!Spec

(************************ A chat on a phone's screen ************************)

Own == OwnMessages \cup {None}
Begins == Screen!Texts

\* A text that was begun as a new message, or nothing.
New(x) == x = <<>> \/ \E t \in Begins : x = <<t>> /\ sWritten[t] = "new"
OfEdit(x, m) == x = <<>> \/ x = <<m>> \/ \E t \in Begins : x = <<t>> /\ sWritten[t] = m

\* Outside an edit the box holds what is new and nothing is put aside; during one
\* it holds what is of the message, and what is new is put aside.
BoxHolds ==
  IF sEditing = None THEN New(sText) /\ sDraft = <<>>
  ELSE OfEdit(sText, sEditing) /\ New(sDraft)

BoxInv ==
  /\ sEditing \in Own /\ sWritten \in [Begins -> OwnMessages \cup {"new", None}]
  /\ \A e \in sEdits : e[1] \in OwnMessages
  /\ BoxHolds /\ Screen!SentAsWritten /\ Screen!NothingTypedLost

SheetInv ==
  /\ sSheet \in Own /\ sLeavingSheet \in BOOLEAN
  /\ sLeavingSheet => sSheet = None
  /\ Screen!OneSheet

\* What the server has answered was told to it.
MarkInv ==
  /\ sNewest \in Nat /\ sMarked \in Nat /\ sRead \in Nat /\ sTold \in Nat /\ sSeen \in Nat
  /\ sLastRead \in Nat /\ sMarks \subseteq Nat \X Nat
  /\ \A c \in sMarks : c[2] # 0 => sTold >= c[1]
  /\ Screen!MarksTrue

-----------------------------------------------------------------------------
LEMMA HeldIs ==
  /\ Screen!Held(<<>>) = {}
  /\ \A t \in Begins : Screen!Held(<<t>>) = {t}
  /\ \A m \in OwnMessages : Screen!Held(<<m>>) = {}
<1>1. Screen!Held(<<>>) = {}
  BY DEF Screen!Held
<1>2. ASSUME NEW t PROVE {<<t>>[i] : i \in DOMAIN <<t>>} = {t}
  OBVIOUS
<1>3. ASSUME NEW t \in Begins PROVE Screen!Held(<<t>>) = {t}
  BY <1>2 DEF Screen!Held, Begins
<1>4. ASSUME NEW m \in OwnMessages PROVE Screen!Held(<<m>>) = {}
  BY <1>2, ChatsAssumption DEF Screen!Held, Screen!Texts
<1> QED BY <1>1, <1>3, <1>4

\* What is typed is in the box, in the draft, or has parted from them.
Parted == sSpent \cup {q[1] : q \in sQueued} \cup {e[2] : e \in sEdits}

LEMMA KeptIs ==
  Screen!NothingTypedLost <=>
    \A t \in Begins :
      sWritten[t] = None \/ t \in Parted \cup Screen!Held(sText) \cup Screen!Held(sDraft)
BY DEF Screen!NothingTypedLost, Parted, Begins

\* An edit or a reply begins, or the context is cancelled.
LEMMA EditingKeeps ==
  ASSUME BoxInv, NEW m \in Own, Screen!EditingIs(m), Screen!GivesUp,
         UNCHANGED <<sWritten, sQueued, sEdits>>
  PROVE  BoxInv'
<1>1. sEditing' = m
  BY DEF Screen!EditingIs
<1>2. sSpent' = (IF sEditing = None THEN sSpent ELSE sSpent \cup Screen!Held(sText))
  BY DEF Screen!GivesUp
<1>3. Screen!SentAsWritten'
  BY DEF BoxInv, Screen!SentAsWritten
<1>4. PICK x, d, x1, d1 : x = sText /\ d = sDraft /\ x1 = sText' /\ d1 = sDraft'
  OBVIOUS
<1>5. /\ m # None => x1 = <<m>> /\ d1 = (IF sEditing = None THEN x ELSE d)
      /\ m = None /\ sEditing = None => x1 = x /\ d1 = d
      /\ m = None /\ sEditing # None => x1 = d /\ d1 = <<>>
  BY <1>4 DEF Screen!EditingIs, Screen!DraftFollows
<1>6. /\ sEditing = None => New(x) /\ d = <<>>
      /\ sEditing # None => OfEdit(x, sEditing) /\ New(d)
  BY <1>4 DEF BoxInv, BoxHolds
<1>7. BoxHolds'
  <2>1. \A y : New(y)' <=> New(y)
    BY DEF New
  <2>2. CASE m # None
    <3>1. OfEdit(x1, m)' /\ New(d1)'
      BY <1>5, <1>6, <2>1, <2>2 DEF OfEdit
    <3> QED BY <1>1, <1>4, <2>2, <3>1 DEF BoxHolds, OfEdit, New
  <2>3. CASE m = None
    <3>1. New(x1)' /\ d1 = <<>>
      BY <1>5, <1>6, <2>1, <2>3
    <3> QED BY <1>1, <1>4, <2>3, <3>1 DEF BoxHolds, New
  <2> QED BY <2>2, <2>3
<1>8. Screen!NothingTypedLost'
  <2>1. Parted' = Parted \cup (IF sEditing = None THEN {} ELSE Screen!Held(x))
    BY <1>2, <1>4 DEF Parted
  <2>2. Screen!Held(sText)' = Screen!Held(x1) /\ Screen!Held(sDraft)' = Screen!Held(d1)
    BY <1>4 DEF Screen!Held
  <2>3. \A t \in Begins : sWritten[t] = None \/ t \in Parted \cup Screen!Held(x) \cup Screen!Held(d)
    BY <1>4, KeptIs DEF BoxInv
  <2>4. Screen!Held(x) \cup Screen!Held(d)
          \subseteq Screen!Held(x1) \cup Screen!Held(d1) \cup
                    (IF sEditing = None THEN {} ELSE Screen!Held(x))
    BY <1>5, <1>6, HeldIs
  <2>5. \A t \in Begins :
          sWritten'[t] = None \/ t \in Parted' \cup Screen!Held(x1) \cup Screen!Held(d1)
    BY <2>1, <2>3, <2>4
  <2>6. \A t \in Begins :
          sWritten'[t] = None \/ t \in Parted' \cup Screen!Held(sText)' \cup Screen!Held(sDraft)'
    BY <2>2, <2>5
  <2> QED BY <2>6 DEF Screen!NothingTypedLost, Parted, Begins
<1> QED BY <1>1, <1>3, <1>7, <1>8 DEF BoxInv, Begins, Screen!Texts

LEMMA TypeKeeps ==
  ASSUME BoxInv, NEW t \in Begins, Screen!Type(t)
  PROVE  BoxInv'
<1>1. /\ sWritten[t] = None /\ Screen!Held(sText) = {}
      /\ sWritten' = [sWritten EXCEPT ![t] = IF sEditing = None THEN "new" ELSE sEditing]
      /\ sText' = <<t>> /\ UNCHANGED <<sDraft, sEditing, sSpent, sQueued, sEdits>>
  BY DEF Screen!Type
<1>2. /\ sEditing \in Own /\ sWritten \in [Begins -> OwnMessages \cup {"new", None}]
  BY DEF BoxInv
<1>3. PICK w : w = IF sEditing = None THEN "new" ELSE sEditing
  OBVIOUS
<1>4. w \in OwnMessages \cup {"new"} /\ w # None
  BY <1>2, <1>3, ChatsAssumption DEF Own
<1>5. /\ sWritten' \in [Begins -> OwnMessages \cup {"new", None}] /\ sWritten'[t] = w
      /\ \A u \in Begins : u # t => sWritten'[u] = sWritten[u]
  BY <1>1, <1>2, <1>3, <1>4
<1>6. \A u \in Begins : sWritten[u] # None => u # t /\ sWritten'[u] = sWritten[u]
  BY <1>1, <1>5
<1>7. \A x : New(x) => New(x)'
  BY <1>6, ChatsAssumption DEF New
<1>8. BoxHolds'
  <2>1. CASE sEditing = None
    BY <1>1, <1>3, <1>5, <2>1 DEF BoxInv, BoxHolds, New
  <2>2. CASE sEditing # None
    <3>1. New(sDraft)'
      <4>1. PICK d : d = sDraft
        OBVIOUS
      <4>2. New(d)'
        BY <1>7, <2>2, <4>1 DEF BoxInv, BoxHolds
      <4> QED BY <1>1, <4>1, <4>2 DEF New
    <3>2. OfEdit(sText, sEditing)'
      BY <1>1, <1>3, <1>5, <2>2 DEF OfEdit
    <3> QED BY <1>1, <2>2, <3>1, <3>2 DEF BoxHolds
  <2> QED BY <2>1, <2>2
<1>9. Screen!SentAsWritten'
  <2>1. \A q \in sQueued : q[1] \in Begins /\ sWritten[q[1]] = "new"
    BY DEF BoxInv, Screen!SentAsWritten, Begins
  <2>2. \A e \in sEdits : e[2] # e[1] => e[2] \in Begins /\ sWritten[e[2]] = e[1]
    BY DEF BoxInv, Screen!SentAsWritten, Begins
  <2>3. \A q \in sQueued : sWritten'[q[1]] = "new"
    BY <1>6, <2>1, ChatsAssumption
  <2>4. \A e \in sEdits : e[2] # e[1] => sWritten'[e[2]] = e[1]
    <3>1. SUFFICES ASSUME NEW e \in sEdits, e[2] # e[1] PROVE sWritten'[e[2]] = e[1]
      OBVIOUS
    <3>2. e[2] \in Begins /\ sWritten[e[2]] = e[1]
      BY <2>2, <3>1
    <3>3. CASE e[2] # t
      BY <1>5, <3>2, <3>3
    <3>4. CASE e[2] = t
      BY <1>1, <3>2, <3>4, ChatsAssumption DEF BoxInv
    <3> QED BY <3>3, <3>4
  <2> QED BY <1>1, <2>1, <2>2, <2>3, <2>4 DEF Screen!SentAsWritten, Begins
<1>10. Screen!NothingTypedLost'
  <2>1. \A u \in Begins : sWritten[u] = None \/ u \in Parted \cup Screen!Held(sDraft)
    BY <1>1, KeptIs DEF BoxInv
  <2>2. Parted' = Parted /\ Screen!Held(sDraft)' = Screen!Held(sDraft)
    BY <1>1 DEF Parted, Screen!Held
  <2>3. Screen!Held(sText)' = {t}
    <3>1. Screen!Held(<<t>>) = {t}
      BY HeldIs
    <3> QED BY <1>1, <3>1 DEF Screen!Held
  <2>4. \A u \in Begins :
          sWritten'[u] = None \/ u \in Parted' \cup Screen!Held(sText)' \cup Screen!Held(sDraft)'
    BY <1>5, <2>1, <2>2, <2>3
  <2> QED BY <2>4 DEF Screen!NothingTypedLost, Parted, Begins
<1> QED BY <1>1, <1>2, <1>5, <1>8, <1>9, <1>10 DEF BoxInv, Begins, Screen!Texts

LEMMA EraseKeeps ==
  ASSUME BoxInv, Screen!Erase
  PROVE  BoxInv'
<1>1. /\ sText' = <<>> /\ sSpent' = sSpent \cup Screen!Held(sText)
      /\ UNCHANGED <<sDraft, sEditing, sWritten, sQueued, sEdits>>
  BY DEF Screen!Erase
<1>2. BoxHolds' /\ Screen!SentAsWritten'
  BY <1>1 DEF BoxInv, BoxHolds, New, OfEdit, Screen!SentAsWritten
<1>3. Screen!NothingTypedLost'
  <2>1. \A u \in Begins :
          sWritten[u] = None \/ u \in Parted \cup Screen!Held(sText) \cup Screen!Held(sDraft)
    BY KeptIs DEF BoxInv
  <2>2. Parted' = Parted \cup Screen!Held(sText) /\ Screen!Held(sDraft)' = Screen!Held(sDraft)
    BY <1>1 DEF Parted, Screen!Held
  <2>3. \A u \in Begins : sWritten'[u] = None \/ u \in Parted' \cup Screen!Held(sDraft)'
    BY <1>1, <2>1, <2>2
  <2> QED BY <2>3 DEF Screen!NothingTypedLost, Parted, Begins
<1> QED BY <1>1, <1>2, <1>3 DEF BoxInv, Begins, Screen!Texts

LEMMA SendKeeps ==
  ASSUME BoxInv, Screen!Send
  PROVE  BoxInv'
<1>1. sText # <<>> /\ UNCHANGED <<sWritten, sSpent>> /\ Screen!BoxAfterSend
  BY DEF Screen!Send
<1>2. PICK x, d : x = sText /\ d = sDraft
  OBVIOUS
<1>3. CASE sEditing = None
  <2>1. /\ sText' = <<>> /\ sDraft' = sDraft /\ sEditing' = sEditing /\ sEdits' = sEdits
        /\ sQueued' = sQueued \cup {<<x[1], sReplyTo>>}
    BY <1>1, <1>2, <1>3 DEF Screen!Send, Screen!BoxAfterSend
  <2>2. PICK t \in Begins : x = <<t>> /\ sWritten[t] = "new"
    BY <1>1, <1>2, <1>3 DEF BoxInv, BoxHolds, New
  <2>3. d = <<>> /\ x[1] = t
    BY <1>2, <1>3, <2>2 DEF BoxInv, BoxHolds
  <2>4. BoxHolds'
    BY <1>2, <1>3, <2>1, <2>3 DEF BoxHolds, New
  <2>5. Screen!SentAsWritten'
    BY <1>1, <2>1, <2>2, <2>3 DEF BoxInv, Screen!SentAsWritten, Begins
  <2>6. Screen!NothingTypedLost'
    <3>1. Screen!Held(x) = {t} /\ Screen!Held(d) = {}
      BY <2>2, <2>3, HeldIs
    <3>2. \A u \in Begins : sWritten[u] = None \/ u \in Parted \cup {t}
      BY <1>2, <3>1, KeptIs DEF BoxInv
    <3>3. Parted \cup {t} \subseteq Parted'
      <4>1. <<x[1], sReplyTo>>[1] = t
        BY <2>3
      <4>2. t \in {q[1] : q \in sQueued'}
        BY <2>1, <4>1
      <4> QED BY <1>1, <2>1, <4>2 DEF Parted
    <3>4. \A u \in Begins : sWritten'[u] = None \/ u \in Parted'
      BY <1>1, <3>2, <3>3
    <3> QED BY <3>4 DEF Screen!NothingTypedLost, Parted, Begins
  <2> QED BY <1>1, <2>1, <2>4, <2>5, <2>6 DEF BoxInv, Begins, Screen!Texts
<1>4. CASE sEditing # None
  <2>1. /\ sText' = d /\ sDraft' = <<>> /\ sEditing' = None /\ sQueued' = sQueued
        /\ sEdits' = sEdits \cup {<<sEditing, x[1]>>}
    BY <1>1, <1>2, <1>4
    DEF Screen!Send, Screen!BoxAfterSend, Screen!EditingIs, Screen!DraftFollows
  <2>2. New(d) /\ (x = <<sEditing>> \/ \E t \in Begins : x = <<t>> /\ sWritten[t] = sEditing)
    BY <1>1, <1>2, <1>4 DEF BoxInv, BoxHolds, OfEdit
  <2>3. sEditing \in OwnMessages
    BY <1>4 DEF BoxInv, Own
  <2>4. x[1] = sEditing \/ (x[1] \in Begins /\ sWritten[x[1]] = sEditing)
    BY <2>2
  <2>5. BoxHolds'
    BY <1>1, <2>1, <2>2 DEF BoxHolds, New
  <2>6. Screen!SentAsWritten'
    BY <1>1, <2>1, <2>4 DEF BoxInv, Screen!SentAsWritten, Begins
  <2>7. Screen!NothingTypedLost'
    <3>1. Screen!Held(x) \subseteq {x[1]}
      BY <2>2, <2>3, HeldIs
    <3>2. \A u \in Begins : sWritten[u] = None \/ u \in Parted \cup {x[1]} \cup Screen!Held(d)
      BY <1>2, <3>1, KeptIs DEF BoxInv
    <3>3. Parted \cup {x[1]} \subseteq Parted'
      <4>0. <<sEditing, x[1]>>[2] = x[1]
        OBVIOUS
      <4>1. x[1] \in {e[2] : e \in sEdits'}
        BY <2>1, <4>0
      <4> QED BY <1>1, <2>1, <4>1 DEF Parted
    <3>4. Screen!Held(sText)' = Screen!Held(d)
      BY <2>1 DEF Screen!Held
    <3>5. \A u \in Begins : sWritten'[u] = None \/ u \in Parted' \cup Screen!Held(sText)'
      BY <1>1, <3>2, <3>3, <3>4
    <3> QED BY <3>5 DEF Screen!NothingTypedLost, Parted, Begins
  <2>8. \A e \in sEdits' : e[1] \in OwnMessages
    <3>1. <<sEditing, x[1]>>[1] = sEditing
      OBVIOUS
    <3> QED BY <2>1, <2>3, <3>1 DEF BoxInv
  <2> QED BY <1>1, <2>1, <2>5, <2>6, <2>7, <2>8 DEF BoxInv, Own, Begins, Screen!Texts
<1> QED BY <1>3, <1>4

LEMMA BoxStays ==
  ASSUME BoxInv, UNCHANGED Screen!box
  PROVE  BoxInv'
<1>1. UNCHANGED <<sText, sDraft, sEditing, sWritten, sSpent, sQueued, sEdits>>
  BY DEF Screen!box
<1> QED
  BY <1>1 DEF BoxInv, BoxHolds, New, OfEdit, Begins, Screen!Texts, Screen!SentAsWritten,
     Screen!NothingTypedLost, Screen!Held

LEMMA SheetStays ==
  ASSUME SheetInv, UNCHANGED <<sPlatform, Screen!sheets>>
  PROVE  SheetInv'
BY DEF SheetInv, Screen!sheets, Screen!OneSheet

LEMMA MarksStay ==
  ASSUME MarkInv, UNCHANGED Screen!reading
  PROVE  MarkInv'
BY DEF MarkInv, Screen!reading, Screen!MarksTrue

\* What is done at the box.
LEMMA AtBoxKeeps ==
  ASSUME BoxInv,
         \/ \E t \in Begins : Screen!Type(t)
         \/ Screen!Erase \/ Screen!CancelContext \/ Screen!Send
         \/ \E m \in OwnMessages : Screen!Swipe(m)
  PROVE  BoxInv' /\ UNCHANGED <<sPlatform, Screen!sheets, Screen!reading>>
<1>1. UNCHANGED <<sPlatform, Screen!sheets, Screen!reading>>
  BY DEF Screen!Type, Screen!Erase, Screen!CancelContext, Screen!Send, Screen!Swipe
<1>2. ASSUME NEW t \in Begins, Screen!Type(t) PROVE BoxInv'
  BY <1>2, TypeKeeps
<1>3. ASSUME Screen!CancelContext PROVE BoxInv'
  <2>1. Screen!EditingIs(None) /\ Screen!GivesUp /\ UNCHANGED <<sWritten, sQueued, sEdits>>
    BY <1>3 DEF Screen!CancelContext
  <2>2. None \in Own
    BY DEF Own
  <2> QED BY <2>1, <2>2, EditingKeeps
<1>4. ASSUME NEW m \in OwnMessages, Screen!Swipe(m) PROVE BoxInv'
  <2>1. Screen!EditingIs(None) /\ Screen!GivesUp /\ UNCHANGED <<sWritten, sQueued, sEdits>>
    BY <1>4 DEF Screen!Swipe, Screen!Reply
  <2>2. None \in Own
    BY DEF Own
  <2> QED BY <2>1, <2>2, EditingKeeps
<1>5. ASSUME Screen!Erase PROVE BoxInv'
  BY <1>5, EraseKeeps
<1>6. ASSUME Screen!Send PROVE BoxInv'
  BY <1>6, SendKeeps
<1>7. BoxInv'
  BY <1>2, <1>3, <1>4, <1>5, <1>6
<1> QED BY <1>1, <1>7

-----------------------------------------------------------------------------
\* The sheets come and go.
LEMMA SheetsKeep ==
  ASSUME BoxInv, SheetInv,
         \/ \E m \in OwnMessages : Screen!LongPress(m)
         \/ Screen!CloseSheet \/ Screen!Choose \/ Screen!Report \/ Screen!Dismissed
         \/ Screen!CloseReport
  PROVE  BoxInv' /\ SheetInv' /\ UNCHANGED Screen!reading
<1>1. UNCHANGED Screen!reading
  BY DEF Screen!LongPress, Screen!CloseSheet, Screen!Choose, Screen!Report, Screen!Dismissed,
     Screen!CloseReport
<1>2. BoxInv'
  <2>1. CASE Screen!Choose
    <3>1. sSheet \in Own /\ None \in Own
      BY <2>1 DEF Screen!Choose, SheetInv, Own
    <3>2. /\ Screen!EditingIs(sSheet) \/ Screen!EditingIs(None)
          /\ Screen!GivesUp /\ UNCHANGED <<sWritten, sQueued, sEdits>>
      BY <2>1 DEF Screen!Choose, Screen!Edit, Screen!Reply
    <3>3. PICK m \in Own : Screen!EditingIs(m)
      <4>1. CASE Screen!EditingIs(sSheet)
        BY <3>1, <4>1
      <4>2. CASE Screen!EditingIs(None)
        BY <3>1, <4>2
      <4> QED BY <3>2, <4>1, <4>2
    <3> QED BY <3>2, <3>3, EditingKeeps
  <2>2. CASE ~Screen!Choose
    <3>1. UNCHANGED Screen!box
      BY <2>2 DEF Screen!LongPress, Screen!CloseSheet, Screen!Report, Screen!Dismissed,
         Screen!CloseReport
    <3> QED BY <3>1, BoxStays
  <2> QED BY <2>1, <2>2
<1>3. SheetInv'
  <2>1. ASSUME NEW m \in OwnMessages, Screen!LongPress(m) PROVE SheetInv'
    BY <2>1 DEF SheetInv, Own, Screen!LongPress, Screen!AtChat, Screen!OneSheet
  <2>2. CASE Screen!CloseSheet \/ Screen!Choose
    <3>1. /\ sSheet # None /\ sSheet' = None /\ sLeavingSheet' = (sPlatform = "ios")
          /\ UNCHANGED <<sPlatform, sReportFor>>
      BY <2>2 DEF Screen!CloseSheet, Screen!Choose, Screen!SheetCloses
    <3> QED BY <3>1 DEF SheetInv, Own, Screen!OneSheet
  <2>3. CASE Screen!Report
    <3>1. /\ sSheet # None /\ sSheet' = None /\ sLeavingSheet' = (sPlatform = "ios")
          /\ sPlatform' = sPlatform /\ (sPlatform = "ios" => sReportFor' = sReportFor)
      BY <2>3 DEF Screen!Report, Screen!ReportNext, Screen!SheetCloses
    <3> QED BY <3>1 DEF SheetInv, Own, Screen!OneSheet
  <2>4. CASE Screen!Dismissed
    BY <2>4 DEF SheetInv, Screen!Dismissed, Screen!OneSheet
  <2>5. CASE Screen!CloseReport
    BY <2>5 DEF SheetInv, Screen!CloseReport, Screen!OneSheet
  <2> QED BY <2>1, <2>2, <2>3, <2>4, <2>5
<1> QED BY <1>1, <1>2, <1>3

-----------------------------------------------------------------------------
LEMMA LaterIs ==
  ASSUME NEW a \in Nat, NEW b \in Nat
  PROVE  Screen!Max({a, b}) = IF a >= b THEN a ELSE b
<1>1. PICK h : h = IF a >= b THEN a ELSE b
  OBVIOUS
<1>2. h \in {a, b} /\ \A y \in {a, b} : h >= y
  BY <1>1
<1>3. \A x \in {a, b} : (\A y \in {a, b} : x >= y) => x = h
  BY <1>1
<1>4. (CHOOSE x \in {a, b} : \A y \in {a, b} : x >= y) = h
  BY <1>2, <1>3
<1> QED BY <1>1, <1>4 DEF Screen!Max

\* The effect after something else has changed.
LEMMA MarkReadKeeps ==
  ASSUME MarkInv, Screen!MarkRead, sNewest' \in Nat, sLastRead' \in Nat,
         sRead' = sRead, sTold' = sTold
  PROVE  MarkInv'
<1>1. PICK n \in Nat : n = sNewest'
  OBVIOUS
<1>2. sSeen \in Nat /\ sTold \in Nat /\ sMarks \subseteq Nat \X Nat /\ sMarked \in Nat
  BY DEF MarkInv
<1>3. sSeen' = IF sFront' THEN (IF sSeen >= n THEN sSeen ELSE n) ELSE sSeen
  BY <1>1, <1>2, LaterIs DEF Screen!MarkRead
<1>4. sSeen' \in Nat /\ sSeen' >= sSeen /\ (sFront' => sSeen' >= n)
  BY <1>2, <1>3
<1>5. \/ sFront' /\ sMarked' = n /\ sMarks' = sMarks \cup {<<n, 0>>}
      \/ sMarked' = sMarked /\ sMarks' = sMarks
  BY <1>1 DEF Screen!MarkRead
<1>6. sMarked' \in Nat /\ sMarks' \subseteq Nat \X Nat
  BY <1>2, <1>5
<1>7. \A c \in sMarks' : c[2] # 0 => sTold >= c[1]
  BY <1>5 DEF MarkInv
<1>8. \A c \in sMarks' : c[1] <= sSeen'
  <2>1. \A c \in sMarks : c[1] \in Nat /\ c[1] <= sSeen
    BY <1>2 DEF MarkInv, Screen!MarksTrue
  <2>2. \A c \in sMarks : c[1] <= sSeen'
    BY <1>2, <1>4, <2>1
  <2> QED BY <1>4, <1>5, <2>2
<1>9. sMarked' > 0 => sTold >= sMarked' \/ \E c \in sMarks' : c[1] = sMarked'
  <2>1. CASE sMarked' = n /\ sMarks' = sMarks \cup {<<n, 0>>}
    <3>1. <<n, 0>> \in sMarks' /\ <<n, 0>>[1] = n
      BY <2>1
    <3> QED BY <2>1, <3>1
  <2>2. CASE sMarked' = sMarked /\ sMarks' = sMarks
    BY <2>2 DEF MarkInv, Screen!MarksTrue
  <2> QED BY <1>5, <2>1, <2>2
<1> QED BY <1>4, <1>6, <1>7, <1>8, <1>9 DEF MarkInv, Screen!MarksTrue

LEMMA AnsweredKeeps ==
  ASSUME MarkInv, NEW c \in sMarks, Screen!Answered(c)
  PROVE  MarkInv'
<1>1. /\ sRead \in Nat /\ sTold \in Nat /\ sMarks \subseteq Nat \X Nat /\ c \in Nat \X Nat
  BY DEF MarkInv
<1>2. PICK s, z \in Nat : c = <<s, z>>
  BY <1>1
<1>3. /\ sRead' = (IF sRead >= s THEN sRead ELSE s) /\ sTold' = (IF sTold >= s THEN sTold ELSE s)
      /\ sMarks' = (sMarks \ {c}) \cup {<<s, sRead'>>}
      /\ UNCHANGED <<sNewest, sLastRead, sMarked, sSeen>>
  BY <1>1, <1>2, LaterIs DEF Screen!Answered
<1>4. sRead' \in Nat /\ sTold' \in Nat /\ sTold' >= s /\ sTold' >= sTold
  BY <1>1, <1>3
<1>5. sMarks' \subseteq Nat \X Nat
  BY <1>1, <1>3, <1>4
<1>6. ASSUME NEW d \in sMarks' PROVE (d[2] # 0 => sTold' >= d[1]) /\ d[1] <= sSeen
  <2>1. CASE d \in sMarks
    <3>1. d[1] \in Nat /\ d[1] <= sSeen /\ (d[2] # 0 => sTold >= d[1])
      BY <1>1, <2>1 DEF MarkInv, Screen!MarksTrue
    <3> QED BY <1>1, <1>4, <3>1
  <2>2. CASE d = <<s, sRead'>>
    <3>1. d[1] = s /\ c[1] = s
      BY <1>2, <2>2
    <3> QED BY <1>4, <3>1 DEF MarkInv, Screen!MarksTrue
  <2> QED BY <1>3, <2>1, <2>2
<1>7. sMarked > 0 => sTold' >= sMarked \/ \E d \in sMarks' : d[1] = sMarked
  <2> SUFFICES ASSUME sMarked > 0, ~(sTold' >= sMarked)
               PROVE  \E d \in sMarks' : d[1] = sMarked
    OBVIOUS
  <2>0. sMarked \in Nat
    BY DEF MarkInv
  <2>1. ~(sTold >= sMarked)
    BY <1>1, <1>4, <2>0
  <2>2. PICK d \in sMarks : d[1] = sMarked
    BY <2>1 DEF MarkInv, Screen!MarksTrue
  <2>3. d # c
    <3>1. c[1] = s
      BY <1>2
    <3> QED BY <1>4, <2>2, <3>1
  <2> QED BY <1>3, <2>2, <2>3
<1> QED BY <1>3, <1>4, <1>5, <1>6, <1>7 DEF MarkInv, Screen!MarksTrue

LEMMA MarkDoneKeeps ==
  ASSUME MarkInv, NEW c \in sMarks, Screen!MarkDone(c)
  PROVE  MarkInv'
<1>1. /\ sNewest \in Nat /\ sSeen \in Nat /\ sTold \in Nat /\ sMarks \subseteq Nat \X Nat
      /\ sMarked \in Nat
  BY DEF MarkInv
<1>2. c[2] # 0 /\ sLastRead' = c[2] /\ UNCHANGED <<sNewest, sRead, sTold>>
  BY DEF Screen!MarkDone
<1>3. sLastRead' \in Nat /\ sTold >= c[1]
  BY <1>1, <1>2 DEF MarkInv
<1>4. sSeen' = IF sFront THEN (IF sSeen >= sNewest THEN sSeen ELSE sNewest) ELSE sSeen
  BY <1>1, LaterIs DEF Screen!MarkDone
<1>5. sSeen' \in Nat /\ sSeen' >= sSeen /\ (sFront => sSeen' >= sNewest)
  BY <1>1, <1>4
<1>6. \/ sFront /\ sMarked' = sNewest /\ sMarks' = (sMarks \ {c}) \cup {<<sNewest, 0>>}
      \/ sMarked' = sMarked /\ sMarks' = sMarks \ {c}
  BY DEF Screen!MarkDone
<1>7. sMarked' \in Nat /\ sMarks' \subseteq Nat \X Nat
  BY <1>1, <1>6
<1>8. ASSUME NEW d \in sMarks' PROVE (d[2] # 0 => sTold >= d[1]) /\ d[1] <= sSeen'
  <2>1. CASE d \in sMarks
    <3>1. d[1] \in Nat /\ d[1] <= sSeen /\ (d[2] # 0 => sTold >= d[1])
      BY <1>1, <2>1 DEF MarkInv, Screen!MarksTrue
    <3> QED BY <1>1, <1>5, <3>1
  <2>2. CASE d = <<sNewest, 0>> /\ sFront
    BY <1>5, <2>2
  <2> QED BY <1>6, <2>1, <2>2
<1>9. sMarked' > 0 => sTold >= sMarked' \/ \E d \in sMarks' : d[1] = sMarked'
  <2>1. CASE sMarked' = sNewest /\ sMarks' = (sMarks \ {c}) \cup {<<sNewest, 0>>}
    <3>1. <<sNewest, 0>> \in sMarks' /\ <<sNewest, 0>>[1] = sNewest
      BY <2>1
    <3> QED BY <2>1, <3>1
  <2>2. CASE sMarked' = sMarked /\ sMarks' = sMarks \ {c}
    <3> SUFFICES ASSUME sMarked > 0, ~(sTold >= sMarked)
                 PROVE  \E d \in sMarks' : d[1] = sMarked
      BY <2>2
    <3>1. PICK d \in sMarks : d[1] = sMarked
      BY DEF MarkInv, Screen!MarksTrue
    <3>2. d # c
      BY <1>3, <3>1
    <3> QED BY <2>2, <3>1, <3>2
  <2> QED BY <1>6, <2>1, <2>2
<1> QED BY <1>1, <1>2, <1>3, <1>5, <1>7, <1>8, <1>9 DEF MarkInv, Screen!MarksTrue

\* What is read, told and marked.
LEMMA ReadingKeeps ==
  ASSUME MarkInv,
         \/ Screen!Loaded \/ Screen!Arrive \/ Screen!AppChanges \/ Screen!Refreshed
         \/ \E n \in Nat : Screen!ReadElsewhere(n)
         \/ \E c \in sMarks : Screen!Answered(c) \/ Screen!MarkDone(c) \/ Screen!MarkFails(c)
  PROVE  MarkInv' /\ UNCHANGED <<sPlatform, Screen!box, Screen!sheets>>
<1>1. UNCHANGED <<sPlatform, Screen!box, Screen!sheets>>
  BY DEF Screen!Loaded, Screen!Arrive, Screen!AppChanges, Screen!Refreshed,
     Screen!ReadElsewhere, Screen!Answered, Screen!MarkDone, Screen!MarkFails, Screen!Others
<1>2. ASSUME Screen!Loaded \/ Screen!Arrive \/ Screen!AppChanges \/ Screen!Refreshed
      PROVE  MarkInv'
  <2>1. Screen!MarkRead /\ sRead' = sRead /\ sTold' = sTold
    BY <1>2 DEF Screen!Loaded, Screen!Arrive, Screen!AppChanges, Screen!Refreshed
  <2>2. sNewest' \in Nat /\ sLastRead' \in Nat
    BY <1>2 DEF Screen!Loaded, Screen!Arrive, Screen!AppChanges, Screen!Refreshed, MarkInv
  <2> QED BY <2>1, <2>2, MarkReadKeeps
<1>3. ASSUME NEW n \in Nat, Screen!ReadElsewhere(n) PROVE MarkInv'
  BY <1>3 DEF Screen!ReadElsewhere, MarkInv, Screen!MarksTrue
<1>4. ASSUME NEW c \in sMarks, Screen!MarkFails(c) PROVE MarkInv'
  BY <1>4 DEF Screen!MarkFails, Screen!Fails, MarkInv, Screen!MarksTrue
<1>5. ASSUME NEW c \in sMarks, Screen!Answered(c) PROVE MarkInv'
  BY <1>5, AnsweredKeeps
<1>6. ASSUME NEW c \in sMarks, Screen!MarkDone(c) PROVE MarkInv'
  BY <1>6, MarkDoneKeeps
<1>7. MarkInv'
  BY <1>2, <1>3, <1>4, <1>5, <1>6
<1> QED BY <1>1, <1>7

\* A text goes as what it was written for and is never lost, one sheet is over the
\* chat, and nothing is marked read that came with the app away (Composer.tsx:75, :80;
\* c/[id]/index.tsx:158, :178).
THEOREM ScreenSound ==
  Screen!Spec => [](/\ Screen!SentAsWritten /\ Screen!NothingTypedLost
                    /\ Screen!OneSheet /\ Screen!MarksTrue)
<1>1. Screen!Init => BoxInv /\ SheetInv /\ MarkInv
  <2> SUFFICES ASSUME Screen!Init PROVE BoxInv /\ SheetInv /\ MarkInv
    OBVIOUS
  <2>1. /\ sText = <<>> /\ sDraft = <<>> /\ sEditing = None
        /\ sWritten = [t \in Begins |-> None] /\ sQueued = {} /\ sEdits = {}
    BY DEF Screen!Init, Begins
  <2>2. BoxInv
    BY <2>1 DEF BoxInv, BoxHolds, New, Own, Begins, Screen!Texts, Screen!SentAsWritten,
       Screen!NothingTypedLost
  <2>3. SheetInv
    BY DEF Screen!Init, SheetInv, Own, Screen!OneSheet
  <2>4. MarkInv
    BY DEF Screen!Init, MarkInv, Screen!MarksTrue
  <2> QED BY <2>2, <2>3, <2>4
<1>2. BoxInv /\ SheetInv /\ MarkInv /\ [Screen!Next]_(Screen!vars)
        => BoxInv' /\ SheetInv' /\ MarkInv'
  <2> SUFFICES ASSUME BoxInv, SheetInv, MarkInv, [Screen!Next]_(Screen!vars)
               PROVE  BoxInv' /\ SheetInv' /\ MarkInv'
    OBVIOUS
  <2>1. CASE \/ \E t \in Begins : Screen!Type(t)
             \/ Screen!Erase \/ Screen!CancelContext \/ Screen!Send
             \/ \E m \in OwnMessages : Screen!Swipe(m)
    BY <2>1, AtBoxKeeps, SheetStays, MarksStay
  <2>2. CASE \/ \E m \in OwnMessages : Screen!LongPress(m)
             \/ Screen!CloseSheet \/ Screen!Choose \/ Screen!Report \/ Screen!Dismissed
             \/ Screen!CloseReport
    BY <2>2, SheetsKeep, MarksStay
  <2>3. CASE \/ Screen!Loaded \/ Screen!Arrive \/ Screen!AppChanges \/ Screen!Refreshed
             \/ \E n \in 0..ScreenSeq : Screen!ReadElsewhere(n)
             \/ \E c \in sMarks :
                  Screen!Answered(c) \/ Screen!MarkDone(c) \/ Screen!MarkFails(c)
    <3>1. \/ Screen!Loaded \/ Screen!Arrive \/ Screen!AppChanges \/ Screen!Refreshed
          \/ \E n \in Nat : Screen!ReadElsewhere(n)
          \/ \E c \in sMarks : Screen!Answered(c) \/ Screen!MarkDone(c) \/ Screen!MarkFails(c)
      BY <2>3, ChatsAssumption
    <3> QED BY <3>1, ReadingKeeps, BoxStays, SheetStays
  <2>4. CASE \/ Screen!Pick \/ Screen!Recorded \/ UNCHANGED Screen!vars
             \/ \E p \in sPicks :
                  Screen!PickerGoes(p) \/ Screen!NothingPicked(p) \/ Screen!Picked(p)
    <3>1. UNCHANGED <<sPlatform, Screen!box, Screen!sheets, Screen!reading>>
      BY <2>4 DEF Screen!Pick, Screen!Recorded, Screen!PickerGoes, Screen!NothingPicked,
         Screen!Picked, Screen!vars, Screen!box, Screen!sheets, Screen!reading
    <3> QED BY <3>1, BoxStays, SheetStays, MarksStay
  <2> QED BY <2>1, <2>2, <2>3, <2>4 DEF Screen!Next, Begins
<1>3. BoxInv /\ SheetInv /\ MarkInv =>
        /\ Screen!SentAsWritten /\ Screen!NothingTypedLost
        /\ Screen!OneSheet /\ Screen!MarksTrue
  BY DEF BoxInv, SheetInv, MarkInv
<1> QED BY <1>1, <1>2, <1>3, PTL DEF Screen!Spec

(************************* The chat pane of a browser ***********************)

Composed == Pane!Texts
Word == [by : Owners \cup {None}, for : Chats \cup OwnMessages \cup {None}]

PaneTypes ==
  /\ cMe \in Owners \cup {None} /\ cHere \in Chats \cup {None}
  /\ cWritten \in [Composed -> Word]
  /\ cDraft \in {0} \cup Composed /\ cForm \in {0} \cup Composed
  /\ cKept \in [Owners \X Chats -> {0} \cup Composed]
  /\ cReply \in OwnMessages \cup {None}

\* Nobody is in a pane that nobody is signed in at, and nothing is in a pane that is
\* not there.
Mounted ==
  /\ cMe = None => cHere = None
  /\ cHere = None => cDraft = 0 /\ cForm = 0 /\ cReply = None

\* What is in the composer and the form is of who is signed in, the drafts are of
\* whom and for what they are kept, what went has an author.
WrittenAs ==
  /\ cDraft # 0 => cWritten[cDraft] = [by |-> cMe, for |-> cHere]
  /\ cForm # 0 => cWritten[cForm].by = cMe
  /\ \A u \in Owners, c \in Chats :
       cKept[<<u, c>>] # 0 => cWritten[cKept[<<u, c>>]] = [by |-> u, for |-> c]
  /\ cReply # None => ChatOf[cReply] = cHere
  /\ \A s \in cSent : s.text \in Composed /\ s.by \in Owners
  /\ Pane!SentWhereWritten

\* The composer's text is the draft kept; a sign-out under way has cleared that.
DraftKept ==
  cHere # None =>
    \/ cKept[<<cMe, cHere>>] = cDraft
    \/ cKept[<<cMe, cHere>>] = 0 /\ cDraft \in cSpent

\* Who waits for answers has no other form open than the one that is being saved.
OneForm == ~cHasty => \A s \in cSaving : cForm \in {0, s[2]}

PaneInv ==
  /\ PaneTypes /\ Mounted /\ WrittenAs /\ DraftKept /\ OneForm
  /\ Pane!NothingWrittenLost

-----------------------------------------------------------------------------
LEMMA TextsAre == Composed = 1..PaneTexts /\ 0 \notin Composed
BY ChatsAssumption DEF Composed, Pane!Texts

LEMMA LostIs ==
  Pane!NothingWrittenLost <=>
    (cHasty \/ \A t \in Composed :
       \/ cWritten[t] = Pane!Fresh \/ t \in cSpent \/ t = cForm \/ t = cDraft
       \/ (\E u \in Owners, c \in Chats : cKept[<<u, c>>] = t)
       \/ (\E s \in cSaving : s[2] = t))
<1>1. \A t : (\E k \in Owners \X Chats : cKept[k] = t)
             <=> (\E u \in Owners, c \in Chats : cKept[<<u, c>>] = t)
  <2>1. \A t : (\E k \in Owners \X Chats : cKept[k] = t)
               => (\E u \in Owners, c \in Chats : cKept[<<u, c>>] = t)
    OBVIOUS
  <2>2. \A t : \A u \in Owners, c \in Chats :
          cKept[<<u, c>>] = t => \E k \in Owners \X Chats : cKept[k] = t
    OBVIOUS
  <2> QED BY <2>1, <2>2
<1> QED BY <1>1 DEF Pane!NothingWrittenLost, Composed

\* A text not begun is nowhere.
LEMMA FreshIsNowhere ==
  ASSUME PaneInv, NEW t \in Composed, cWritten[t] = Pane!Fresh
  PROVE  /\ t # cDraft /\ t # cForm
         /\ \A u \in Owners, c \in Chats : cKept[<<u, c>>] # t
         /\ \A s \in cSent : s.text # t
<1>1. None \notin Owners /\ 0 \notin Composed /\ cWritten[t].by = None
  BY ChatsAssumption, TextsAre DEF Pane!Fresh
<1>2. cDraft # 0 \/ cForm # 0 => cMe # None
  BY DEF PaneInv, Mounted
<1>3. t # cDraft /\ t # cForm
  BY <1>1, <1>2 DEF PaneInv, WrittenAs
<1>4. ASSUME NEW u \in Owners, NEW c \in Chats PROVE cKept[<<u, c>>] # t
  <2> SUFFICES ASSUME cKept[<<u, c>>] = t PROVE FALSE
    OBVIOUS
  <2>1. cWritten[t] = [by |-> u, for |-> c]
    BY <1>1 DEF PaneInv, WrittenAs
  <2>2. cWritten[t].by = u
    BY <2>1
  <2> QED BY <1>1, <2>2
<1>5. ASSUME NEW s \in cSent PROVE s.text # t
  <2> SUFFICES ASSUME s.text = t PROVE FALSE
    OBVIOUS
  <2>1. cWritten[t] = [by |-> s.by, for |-> s.to] /\ s.by \in Owners
    BY DEF PaneInv, WrittenAs, Pane!SentWhereWritten
  <2>2. cWritten[t].by = s.by
    BY <2>1
  <2> QED BY <1>1, <2>1, <2>2
<1> QED BY <1>3, <1>4, <1>5

LEMMA DroppedIs ==
  ASSUME NEW t \in Composed
  PROVE  t \in Pane!Dropped(t) \/ \E s \in cSaving : s[2] = t
BY TextsAre DEF Pane!Dropped

LEMMA KeptEverywhere ==
  ASSUME PaneTypes, NEW k \in Owners \X Chats, NEW t \in {0} \cup Composed,
         cKept' = [cKept EXCEPT ![k] = t]
  PROVE  /\ cKept' \in [Owners \X Chats -> {0} \cup Composed] /\ cKept'[k] = t
         /\ \A u \in Owners, c \in Chats : <<u, c>> # k => cKept'[<<u, c>>] = cKept[<<u, c>>]
BY DEF PaneTypes

\* Nothing is written, and the reply stays or goes.
LEMMA PaneStays ==
  ASSUME PaneInv, UNCHANGED <<cMe, cHere, cWritten, cSpent, cDraft, cKept, cForm, cSaving, cSent>>,
         cHasty' = cHasty, cReply' \in {cReply, None}
  PROVE  PaneInv'
<1>1. PaneTypes' /\ Mounted' /\ WrittenAs'
  BY DEF PaneInv, PaneTypes, Word, Composed, Pane!Texts, Mounted, WrittenAs,
     Pane!SentWhereWritten
<1>2. DraftKept' /\ OneForm'
  BY DEF PaneInv, DraftKept, OneForm
<1>3. Pane!NothingWrittenLost'
  BY DEF PaneInv, Pane!NothingWrittenLost, Pane!Texts, Pane!Fresh
<1> QED BY <1>1, <1>2, <1>3 DEF PaneInv

\* The form closes and its text is given up, unless it is being saved.
LEMMA ClosedKeeps ==
  ASSUME PaneInv, UNCHANGED <<cMe, cHere, cWritten, cDraft, cKept, cSaving, cSent>>,
         cForm' = 0, cSpent' = cSpent \cup Pane!Dropped(cForm),
         cHasty' \in {cHasty, cHasty \/ cSaving # {}},
         \/ cReply' \in {cReply, None}
         \/ cReply' \in OwnMessages /\ cHere # None /\ ChatOf[cReply'] = cHere
  PROVE  PaneInv'
<1>1. PaneTypes' /\ Mounted'
  BY DEF PaneInv, PaneTypes, Word, Composed, Pane!Texts, Mounted
<1>2. WrittenAs'
  BY DEF PaneInv, Composed, Pane!Texts, WrittenAs, Pane!SentWhereWritten
<1>3. DraftKept' /\ OneForm'
  BY DEF PaneInv, DraftKept, OneForm
<1>4. cHasty => cHasty'
  OBVIOUS
<1>5. cForm \in Composed => cForm \in cSpent' \/ \E s \in cSaving : s[2] = cForm
  BY DroppedIs
<1>6. ASSUME NEW t \in Composed, ~cHasty'
      PROVE  \/ cWritten[t] = Pane!Fresh \/ t \in cSpent' \/ t = cDraft
             \/ (\E u \in Owners, c \in Chats : cKept[<<u, c>>] = t)
             \/ (\E s \in cSaving : s[2] = t)
  BY <1>4, <1>5, <1>6, LostIs DEF PaneInv
<1>7. Pane!NothingWrittenLost'
  BY <1>6 DEF Pane!NothingWrittenLost, Composed, Pane!Texts, Pane!Fresh
<1> QED BY <1>1, <1>2, <1>3, <1>7 DEF PaneInv

\* Someone is there when a pane is.
LEMMA AtPaneIs ==
  ASSUME PaneInv, cHere # None
  PROVE  cMe \in Owners /\ cHere \in Chats /\ <<cMe, cHere>> \in Owners \X Chats
BY DEF PaneInv, PaneTypes, Mounted

LEMMA TypeDraftKeeps ==
  ASSUME PaneInv, NEW t \in Composed, Pane!Type(t)
  PROVE  PaneInv'
<1>1. /\ cHere # None /\ cDraft = 0 /\ cWritten[t] = Pane!Fresh
      /\ cWritten' = [cWritten EXCEPT ![t] = [by |-> cMe, for |-> cHere]]
      /\ cDraft' = t /\ cKept' = [cKept EXCEPT ![<<cMe, cHere>>] = t]
      /\ UNCHANGED <<cMe, cHere, cSpent, cReply, cForm, cSaving, cSent, cHasty>>
  BY DEF Pane!Type, Pane!AtPane, Pane!Begun, Pane!Keep, Pane!session, Pane!edit
<1>2. cMe \in Owners /\ cHere \in Chats /\ <<cMe, cHere>> \in Owners \X Chats
  BY <1>1, AtPaneIs
<1>3. /\ t # cForm /\ \A u \in Owners, c \in Chats : cKept[<<u, c>>] # t
      /\ \A s \in cSent : s.text # t
  BY <1>1, FreshIsNowhere
<1>4. PaneTypes /\ 0 \notin Composed
  BY TextsAre DEF PaneInv
<1>5. /\ cKept' \in [Owners \X Chats -> {0} \cup Composed] /\ cKept'[<<cMe, cHere>>] = t
      /\ \A u \in Owners, c \in Chats :
           <<u, c>> # <<cMe, cHere>> => cKept'[<<u, c>>] = cKept[<<u, c>>]
  BY <1>1, <1>2, <1>4, KeptEverywhere
<1>6. /\ cWritten' \in [Composed -> Word] /\ cWritten'[t] = [by |-> cMe, for |-> cHere]
      /\ \A u \in Composed : u # t => cWritten'[u] = cWritten[u]
  BY <1>1, <1>2, <1>4 DEF PaneTypes, Word
<1>7. PaneTypes' /\ Mounted'
  BY <1>1, <1>4, <1>5, <1>6 DEF PaneInv, PaneTypes, Word, Composed, Pane!Texts, Mounted
<1>8. WrittenAs'
  <2>1. cForm' # 0 => cWritten'[cForm'].by = cMe'
    BY <1>1, <1>3, <1>4, <1>6 DEF PaneInv, WrittenAs, PaneTypes
  <2>2. ASSUME NEW u \in Owners, NEW c \in Chats, cKept'[<<u, c>>] # 0
        PROVE  cWritten'[cKept'[<<u, c>>]] = [by |-> u, for |-> c]
    <3>1. CASE <<u, c>> = <<cMe, cHere>>
      BY <1>5, <1>6, <3>1
    <3>2. CASE <<u, c>> # <<cMe, cHere>>
      <4>1. cKept'[<<u, c>>] = cKept[<<u, c>>] /\ cKept[<<u, c>>] \in Composed
        BY <1>4, <1>5, <2>2, <3>2 DEF PaneTypes
      <4>2. cWritten'[cKept[<<u, c>>]] = cWritten[cKept[<<u, c>>]]
        BY <1>3, <1>6, <4>1
      <4> QED BY <2>2, <4>1, <4>2 DEF PaneInv, WrittenAs
    <3> QED BY <3>1, <3>2
  <2>3. \A s \in cSent' :
          s.text \in Composed /\ s.by \in Owners /\ cWritten'[s.text] = cWritten[s.text]
    BY <1>1, <1>3, <1>6 DEF PaneInv, WrittenAs
  <2>4. Pane!SentWhereWritten'
    BY <1>1, <2>3 DEF PaneInv, WrittenAs, Pane!SentWhereWritten
  <2> QED BY <1>1, <1>6, <2>1, <2>2, <2>3, <2>4 DEF PaneInv, WrittenAs, Composed, Pane!Texts
<1>9. DraftKept' /\ OneForm'
  BY <1>1, <1>5 DEF PaneInv, DraftKept, OneForm
<1>10. Pane!NothingWrittenLost'
  <2>1. cKept[<<cMe, cHere>>] = 0
    BY <1>1 DEF PaneInv, DraftKept
  <2>2. ASSUME NEW w \in Composed, ~cHasty
        PROVE  \/ cWritten'[w] = Pane!Fresh \/ w \in cSpent \/ w = cForm \/ w = t
               \/ (\E u \in Owners, c \in Chats : cKept'[<<u, c>>] = w)
               \/ (\E s \in cSaving : s[2] = w)
    <3> SUFFICES ASSUME w # t, cWritten[w] # Pane!Fresh, ~(w \in cSpent), w # cForm,
                        ~(\E s \in cSaving : s[2] = w)
                 PROVE  \E u \in Owners, c \in Chats : cKept'[<<u, c>>] = w
      BY <1>6
    <3>1. PICK u \in Owners, c \in Chats : cKept[<<u, c>>] = w
      BY <1>1, <1>4, <2>2, LostIs DEF PaneInv
    <3>2. <<u, c>> # <<cMe, cHere>>
      BY <1>4, <2>1, <3>1
    <3> QED BY <1>5, <3>1, <3>2
  <2>3. \A w \in Composed, u \in Owners, c \in Chats :
          cKept'[<<u, c>>] = w => \E k \in Owners \X Chats : cKept'[k] = w
    OBVIOUS
  <2> QED BY <1>1, <2>2, <2>3 DEF Pane!NothingWrittenLost, Composed, Pane!Texts, Pane!Fresh
<1> QED BY <1>7, <1>8, <1>9, <1>10 DEF PaneInv

\* The text of the composer goes, or its author erases it.
LEMMA ComposerEmptied ==
  ASSUME PaneInv, cHere # None, cDraft # 0, Pane!Keep(0), cSpent' = cSpent \cup {cDraft},
         UNCHANGED <<cMe, cHere, cWritten, cForm, cSaving, cHasty>>,
         cReply' \in {cReply, None},
         \/ cSent' = cSent
         \/ cSent' = cSent \cup {[text |-> cDraft, by |-> cMe, to |-> cHere, reply |-> cReply]}
  PROVE  PaneInv'
<1>1. cDraft' = 0 /\ cKept' = [cKept EXCEPT ![<<cMe, cHere>>] = 0]
  BY DEF Pane!Keep
<1>2. cMe \in Owners /\ cHere \in Chats /\ <<cMe, cHere>> \in Owners \X Chats
  BY AtPaneIs
<1>3. PaneTypes /\ 0 \notin Composed /\ cDraft \in Composed
  BY TextsAre DEF PaneInv, PaneTypes
<1>4. /\ cKept' \in [Owners \X Chats -> {0} \cup Composed] /\ cKept'[<<cMe, cHere>>] = 0
      /\ \A u \in Owners, c \in Chats :
           <<u, c>> # <<cMe, cHere>> => cKept'[<<u, c>>] = cKept[<<u, c>>]
  BY <1>1, <1>2, <1>3, KeptEverywhere
<1>5. PaneTypes' /\ Mounted'
  BY <1>1, <1>3, <1>4 DEF PaneInv, PaneTypes, Word, Composed, Pane!Texts, Mounted
<1>6. WrittenAs'
  <2>1. ASSUME NEW u \in Owners, NEW c \in Chats, cKept'[<<u, c>>] # 0
        PROVE  cWritten[cKept'[<<u, c>>]] = [by |-> u, for |-> c]
    BY <1>4, <2>1 DEF PaneInv, WrittenAs
  <2>2. PICK s : s = [text |-> cDraft, by |-> cMe, to |-> cHere, reply |-> cReply]
    OBVIOUS
  <2>3. /\ s.text \in Composed /\ s.by \in Owners
        /\ cWritten[s.text] = [by |-> s.by, for |-> s.to]
        /\ s.reply # None => ChatOf[s.reply] = s.to
    BY <1>2, <1>3, <2>2 DEF PaneInv, WrittenAs
  <2>4. \A q \in cSent' : q.text \in Composed /\ q.by \in Owners
    BY <2>2, <2>3 DEF PaneInv, WrittenAs
  <2>5. Pane!SentWhereWritten'
    BY <2>2, <2>3 DEF PaneInv, WrittenAs, Pane!SentWhereWritten
  <2> QED BY <1>1, <2>1, <2>4, <2>5 DEF PaneInv, WrittenAs, Composed, Pane!Texts
<1>7. DraftKept' /\ OneForm'
  BY <1>1, <1>4 DEF PaneInv, DraftKept, OneForm
<1>8. Pane!NothingWrittenLost'
  <2>1. cKept[<<cMe, cHere>>] \in {0, cDraft}
    BY DEF PaneInv, DraftKept
  <2>2. ASSUME NEW w \in Composed, ~cHasty
        PROVE  \/ cWritten[w] = Pane!Fresh \/ w \in cSpent' \/ w = cForm
               \/ (\E u \in Owners, c \in Chats : cKept'[<<u, c>>] = w)
               \/ (\E s \in cSaving : s[2] = w)
    <3> SUFFICES ASSUME cWritten[w] # Pane!Fresh, ~(w \in cSpent'), w # cForm,
                        ~(\E s \in cSaving : s[2] = w)
                 PROVE  \E u \in Owners, c \in Chats : cKept'[<<u, c>>] = w
      OBVIOUS
    <3>1. PICK u \in Owners, c \in Chats : cKept[<<u, c>>] = w
      BY <2>2, LostIs DEF PaneInv
    <3>2. <<u, c>> # <<cMe, cHere>>
      BY <1>3, <2>1, <3>1
    <3> QED BY <1>4, <3>1, <3>2
  <2>3. \A w \in Composed, u \in Owners, c \in Chats :
          cKept'[<<u, c>>] = w => \E k \in Owners \X Chats : cKept'[k] = w
    OBVIOUS
  <2> QED BY <2>2, <2>3 DEF Pane!NothingWrittenLost, Composed, Pane!Texts, Pane!Fresh
<1> QED BY <1>5, <1>6, <1>7, <1>8 DEF PaneInv

\* What is typed into the form, which was empty or is being saved.
LEMMA TypeEditKeeps ==
  ASSUME PaneInv, NEW t \in Composed, Pane!TypeEdit(t)
  PROVE  PaneInv'
<1>1. /\ cHere # None /\ cEditing \in OwnMessages /\ cWritten[t] = Pane!Fresh
      /\ cForm = 0 \/ \E s \in cSaving : s[2] = cForm
      /\ cWritten' = [cWritten EXCEPT ![t] = [by |-> cMe, for |-> cEditing]]
      /\ cForm' = t /\ cHasty' = (cHasty \/ cSaving # {})
      /\ UNCHANGED <<cMe, cHere, cSpent, cDraft, cKept, cReply, cSaving, cSent>>
  BY DEF Pane!TypeEdit, Pane!AtPane, Pane!Shown, Pane!Begun, Pane!session, Pane!composer
<1>2. cMe \in Owners /\ cHere \in Chats
  BY <1>1, AtPaneIs
<1>3. /\ t # cDraft /\ \A u \in Owners, c \in Chats : cKept[<<u, c>>] # t
      /\ \A s \in cSent : s.text # t
  BY <1>1, FreshIsNowhere
<1>4. PaneTypes /\ 0 \notin Composed
  BY TextsAre DEF PaneInv
<1>5. /\ cWritten' \in [Composed -> Word] /\ cWritten'[t] = [by |-> cMe, for |-> cEditing]
      /\ \A u \in Composed : u # t => cWritten'[u] = cWritten[u]
  BY <1>1, <1>2, <1>4 DEF PaneTypes, Word
<1>6. PaneTypes' /\ Mounted'
  BY <1>1, <1>4, <1>5 DEF PaneInv, PaneTypes, Word, Composed, Pane!Texts, Mounted
<1>7. WrittenAs'
  <2>1. cDraft # 0 => cWritten'[cDraft] = [by |-> cMe, for |-> cHere]
    BY <1>3, <1>4, <1>5 DEF PaneInv, WrittenAs, PaneTypes
  <2>2. ASSUME NEW u \in Owners, NEW c \in Chats, cKept[<<u, c>>] # 0
        PROVE  cWritten'[cKept[<<u, c>>]] = [by |-> u, for |-> c]
    <3>1. cKept[<<u, c>>] \in Composed
      BY <1>4, <2>2 DEF PaneTypes
    <3>2. cWritten'[cKept[<<u, c>>]] = cWritten[cKept[<<u, c>>]]
      BY <1>3, <1>5, <3>1
    <3> QED BY <2>2, <3>2 DEF PaneInv, WrittenAs
  <2>3. \A s \in cSent' :
          s.text \in Composed /\ s.by \in Owners /\ cWritten'[s.text] = cWritten[s.text]
    BY <1>1, <1>3, <1>5 DEF PaneInv, WrittenAs
  <2>4. Pane!SentWhereWritten'
    BY <1>1, <2>3 DEF PaneInv, WrittenAs, Pane!SentWhereWritten
  <2> QED BY <1>1, <1>5, <2>1, <2>2, <2>3, <2>4 DEF PaneInv, WrittenAs, Composed, Pane!Texts
<1>8. DraftKept' /\ OneForm'
  BY <1>1 DEF PaneInv, DraftKept, OneForm
<1>9. Pane!NothingWrittenLost'
  <2>1. ASSUME NEW w \in Composed, ~cHasty
        PROVE  \/ cWritten'[w] = Pane!Fresh \/ w \in cSpent \/ w = t \/ w = cDraft
               \/ (\E u \in Owners, c \in Chats : cKept[<<u, c>>] = w)
               \/ (\E s \in cSaving : s[2] = w)
    <3>1. CASE w = t
      BY <3>1
    <3>2. CASE w # t
      <4>1. cWritten'[w] = cWritten[w]
        BY <1>5, <3>2
      <4>2. w = cForm => \E s \in cSaving : s[2] = w
        BY <1>1, <1>4
      <4> QED BY <2>1, <4>1, <4>2, LostIs DEF PaneInv
    <3> QED BY <3>1, <3>2
  <2>2. \A w \in Composed, u \in Owners, c \in Chats :
          cKept[<<u, c>>] = w => \E k \in Owners \X Chats : cKept[k] = w
    OBVIOUS
  <2> QED BY <1>1, <2>1, <2>2 DEF Pane!NothingWrittenLost, Composed, Pane!Texts, Pane!Fresh
<1> QED BY <1>6, <1>7, <1>8, <1>9 DEF PaneInv

\* An edit is saved, is refused, or goes on its way.
LEMMA SavingKeeps ==
  ASSUME PaneInv,
         UNCHANGED <<cMe, cHere, cWritten, cDraft, cKept, cReply, cSent, cHasty>>,
         cForm' \in {0, cForm}, cSpent \subseteq cSpent',
         \A s \in cSaving' : s \in cSaving \/ (cForm' = cForm /\ s[2] = cForm),
         \A s \in cSaving : s \in cSaving' \/ s[2] \in cSpent' \/ s[2] = cForm',
         ~cHasty => cForm' = cForm \/ cForm \in cSpent'
  PROVE  PaneInv'
<1>1. PaneTypes' /\ Mounted'
  BY DEF PaneInv, PaneTypes, Word, Composed, Pane!Texts, Mounted
<1>2. WrittenAs'
  BY DEF PaneInv, Composed, Pane!Texts, WrittenAs, Pane!SentWhereWritten
<1>3. DraftKept' /\ OneForm'
  BY DEF PaneInv, DraftKept, OneForm
<1>4. ASSUME NEW w \in Composed, ~cHasty
      PROVE  \/ cWritten[w] = Pane!Fresh \/ w \in cSpent' \/ w = cForm' \/ w = cDraft
             \/ (\E u \in Owners, c \in Chats : cKept[<<u, c>>] = w)
             \/ (\E s \in cSaving' : s[2] = w)
  BY <1>4, LostIs DEF PaneInv
<1>5. \A w \in Composed, u \in Owners, c \in Chats :
        cKept[<<u, c>>] = w => \E k \in Owners \X Chats : cKept[k] = w
  OBVIOUS
<1>6. Pane!NothingWrittenLost'
  BY <1>4, <1>5 DEF Pane!NothingWrittenLost, Composed, Pane!Texts, Pane!Fresh
<1> QED BY <1>1, <1>2, <1>3, <1>6 DEF PaneInv

LEMMA EditsKeep ==
  ASSUME PaneInv,
         \/ Pane!Save
         \/ \E s \in cSaving : Pane!Saved(s) \/ Pane!SaveFails(s)
  PROVE  PaneInv'
<1>1. CASE Pane!Save
  <2>1. /\ cForm' = cForm /\ cSpent' = cSpent /\ cSaving' = cSaving \cup {<<cEditing, cForm>>}
        /\ UNCHANGED <<cMe, cHere, cWritten, cDraft, cKept, cReply, cSent, cHasty>>
    BY <1>1 DEF Pane!Save, Pane!session, Pane!composer
  <2>2. <<cEditing, cForm>>[2] = cForm
    OBVIOUS
  <2> QED BY <2>1, <2>2, SavingKeeps
<1>2. ASSUME NEW s \in cSaving, Pane!Saved(s) PROVE PaneInv'
  <2>1. /\ cForm' = 0 /\ cSpent' = cSpent \cup {s[2]} /\ cSaving' = cSaving \ {s}
        /\ UNCHANGED <<cMe, cHere, cWritten, cDraft, cKept, cReply, cSent, cHasty>>
    BY <1>2 DEF Pane!Saved, Pane!session, Pane!composer
  <2>2. ~cHasty => cForm' = cForm \/ cForm \in cSpent'
    BY <2>1 DEF PaneInv, OneForm
  <2> QED BY <2>1, <2>2, SavingKeeps
<1>3. ASSUME NEW s \in cSaving, Pane!SaveFails(s) PROVE PaneInv'
  <2>1. /\ cForm' = cForm /\ cSaving' = cSaving \ {s}
        /\ cSpent' = (IF cForm = s[2] THEN cSpent ELSE cSpent \cup {s[2]})
        /\ UNCHANGED <<cMe, cHere, cWritten, cDraft, cKept, cReply, cSent, cHasty>>
    BY <1>3 DEF Pane!SaveFails, Pane!session, Pane!composer
  <2> QED BY <2>1, SavingKeeps
<1> QED BY <1>1, <1>2, <1>3

-----------------------------------------------------------------------------
LEMMA OpenKeeps ==
  ASSUME PaneInv, NEW c \in Chats, Pane!Open(c)
  PROVE  PaneInv'
<1>1. /\ cMe # None /\ cHere' = c /\ cDraft' = cKept[<<cMe, c>>] /\ cReply' = None /\ cForm' = 0
      /\ cSpent' = cSpent \cup Pane!Dropped(cForm)
      /\ UNCHANGED <<cMe, cWritten, cKept, cSaving, cSent, cHasty>>
  BY DEF Pane!Open, Pane!Switch, Pane!GetDraft, Pane!session
<1>2. cMe \in Owners /\ <<cMe, c>> \in Owners \X Chats /\ PaneTypes /\ c # None
  BY <1>1, ChatsAssumption DEF PaneInv, PaneTypes
<1>3. PaneTypes' /\ Mounted'
  BY <1>1, <1>2 DEF PaneTypes, Word, Composed, Pane!Texts, Mounted
<1>4. WrittenAs'
  BY <1>1, <1>2 DEF PaneInv, WrittenAs, Composed, Pane!Texts, Pane!SentWhereWritten
<1>5. DraftKept' /\ OneForm'
  BY <1>1 DEF DraftKept, OneForm
<1>6. ASSUME NEW w \in Composed, ~cHasty
      PROVE  \/ cWritten[w] = Pane!Fresh \/ w \in cSpent'
             \/ (\E u \in Owners, d \in Chats : cKept[<<u, d>>] = w)
             \/ (\E s \in cSaving : s[2] = w)
  <2>1. CASE w = cForm
    BY <1>1, <2>1, DroppedIs
  <2>2. CASE w = cDraft
    <3>1. cHere # None /\ w # 0
      BY <2>2, TextsAre DEF PaneInv, Mounted
    <3>2. cMe \in Owners /\ cHere \in Chats
      BY <3>1, AtPaneIs
    <3> QED BY <1>1, <2>2, <3>1, <3>2 DEF PaneInv, DraftKept
  <2>3. CASE w # cForm /\ w # cDraft
    BY <1>1, <1>6, <2>3, LostIs DEF PaneInv
  <2> QED BY <2>1, <2>2, <2>3
<1>7. \A w \in Composed, u \in Owners, d \in Chats :
        cKept[<<u, d>>] = w => \E k \in Owners \X Chats : cKept[k] = w
  OBVIOUS
<1>8. Pane!NothingWrittenLost'
  BY <1>1, <1>6, <1>7 DEF Pane!NothingWrittenLost, Composed, Pane!Texts, Pane!Fresh
<1> QED BY <1>3, <1>4, <1>5, <1>8 DEF PaneInv

\* The drafts as they are, or without those of who signs out.
Cleared == \A u \in Owners, c \in Chats :
             cKept'[<<u, c>>] = IF u = cMe THEN 0 ELSE cKept[<<u, c>>]

LEMMA ClearedIs ==
  ASSUME PaneTypes, Pane!ClearDrafts
  PROVE  cKept' \in [Owners \X Chats -> {0} \cup Composed] /\ Cleared
<1>1. cKept' = [k \in Owners \X Chats |-> IF k[1] = cMe THEN 0 ELSE cKept[k]]
  BY DEF Pane!ClearDrafts
<1>2. ASSUME NEW u \in Owners, NEW c \in Chats
      PROVE  cKept'[<<u, c>>] = IF u = cMe THEN 0 ELSE cKept[<<u, c>>]
  <2>1. <<u, c>> \in Owners \X Chats /\ <<u, c>>[1] = u
    OBVIOUS
  <2> QED BY <1>1, <2>1
<1>3. \A k \in Owners \X Chats : cKept[k] \in {0} \cup Composed
  BY DEF PaneTypes
<1> QED BY <1>1, <1>2, <1>3 DEF Cleared

LEMMA LogoutKeeps ==
  ASSUME PaneInv, Pane!Logout
  PROVE  PaneInv'
<1>1. /\ cMe # None /\ Pane!ClearDrafts /\ cSpent' = cSpent \cup Pane!Mine
      /\ UNCHANGED <<cMe, cHere, cWritten, cDraft, cReply, cForm, cSaving, cSent, cHasty>>
  BY DEF Pane!Logout, Pane!edit
<1>2. PaneTypes /\ Mounted /\ WrittenAs /\ OneForm
  BY DEF PaneInv
<1>3. cKept' \in [Owners \X Chats -> {0} \cup Composed] /\ Cleared
  BY <1>1, <1>2, ClearedIs
<1>4. PaneTypes' /\ Mounted'
  BY <1>1, <1>2, <1>3 DEF PaneTypes, Word, Composed, Pane!Texts, Mounted
<1>5. WrittenAs'
  <2>1. \A u \in Owners, c \in Chats :
          cKept'[<<u, c>>] # 0 => cWritten[cKept'[<<u, c>>]] = [by |-> u, for |-> c]
    BY <1>2, <1>3 DEF WrittenAs, Cleared
  <2> QED BY <1>1, <1>2, <2>1 DEF WrittenAs, Composed, Pane!Texts, Pane!SentWhereWritten
<1>6. cDraft # 0 => cDraft \in Pane!Mine
  BY <1>2 DEF PaneTypes, WrittenAs, Pane!Mine, Composed
<1>7. DraftKept' /\ OneForm'
  <2>1. cHere # None => cKept'[<<cMe, cHere>>] = 0
    BY <1>3, AtPaneIs DEF Cleared
  <2> QED BY <1>1, <1>2, <1>6, <2>1 DEF DraftKept, OneForm
<1>8. ASSUME NEW w \in Composed, ~cHasty
      PROVE  \/ cWritten[w] = Pane!Fresh \/ w \in cSpent' \/ w = cForm \/ w = cDraft
             \/ (\E u \in Owners, c \in Chats : cKept'[<<u, c>>] = w)
             \/ (\E s \in cSaving : s[2] = w)
  <2> SUFFICES ASSUME cWritten[w] # Pane!Fresh, ~(w \in cSpent'), w # cForm, w # cDraft,
                      ~(\E s \in cSaving : s[2] = w)
               PROVE  \E u \in Owners, c \in Chats : cKept'[<<u, c>>] = w
    OBVIOUS
  <2>1. PICK u \in Owners, c \in Chats : cKept[<<u, c>>] = w
    BY <1>1, <1>8, LostIs DEF PaneInv
  <2>2. cWritten[w].by = u
    <3>1. cWritten[w] = [by |-> u, for |-> c]
      BY <1>2, <2>1, TextsAre DEF WrittenAs
    <3> QED BY <3>1
  <2>3. u # cMe
    BY <1>1, <2>2 DEF Pane!Mine, Composed
  <2> QED BY <1>3, <2>1, <2>3 DEF Cleared
<1>9. \A w \in Composed, u \in Owners, d \in Chats :
        cKept'[<<u, d>>] = w => \E k \in Owners \X Chats : cKept'[k] = w
  OBVIOUS
<1>10. Pane!NothingWrittenLost'
  BY <1>1, <1>8, <1>9 DEF Pane!NothingWrittenLost, Composed, Pane!Texts, Pane!Fresh
<1> QED BY <1>4, <1>5, <1>7, <1>10 DEF PaneInv

\* The pane goes: its chat is left, or its person signs out.
LEMMA UnmountKeeps ==
  ASSUME PaneInv,
         \/ Pane!Leave
         \/ Pane!LoggedOut
         \/ Pane!Expire
  PROVE  PaneInv'
<1>1. /\ cHere' = None /\ cDraft' = 0 /\ cReply' = None /\ cForm' = 0 /\ cMe' \in {cMe, None}
      /\ UNCHANGED <<cWritten, cSaving, cSent, cHasty>>
  BY DEF Pane!Leave, Pane!LoggedOut, Pane!Expire, Pane!Unmount, Pane!session
<1>2. PaneTypes /\ WrittenAs /\ OneForm
  BY DEF PaneInv
<1>3. \/ cKept' = cKept
      \/ cSpent' = cSpent \cup Pane!Mine /\ Pane!ClearDrafts
  BY DEF Pane!Leave, Pane!LoggedOut, Pane!Expire
<1>4. /\ cKept' \in [Owners \X Chats -> {0} \cup Composed]
      /\ \A u \in Owners, c \in Chats : cKept'[<<u, c>>] \in {0, cKept[<<u, c>>]}
      /\ \A u \in Owners, c \in Chats :
           \/ cKept'[<<u, c>>] = cKept[<<u, c>>]
           \/ u = cMe /\ cSpent' = cSpent \cup Pane!Mine
  <2>1. CASE cKept' = cKept
    BY <1>2, <2>1 DEF PaneTypes
  <2>2. CASE cSpent' = cSpent \cup Pane!Mine /\ Pane!ClearDrafts
    <3>1. cKept' \in [Owners \X Chats -> {0} \cup Composed] /\ Cleared
      BY <1>2, <2>2, ClearedIs
    <3> QED BY <2>2, <3>1 DEF Cleared
  <2> QED BY <1>3, <2>1, <2>2
<1>5. PaneTypes' /\ Mounted'
  BY <1>1, <1>2, <1>4 DEF PaneTypes, Word, Composed, Pane!Texts, Mounted
<1>6. WrittenAs'
  <2>1. \A u \in Owners, c \in Chats :
          cKept'[<<u, c>>] # 0 => cWritten[cKept'[<<u, c>>]] = [by |-> u, for |-> c]
    BY <1>2, <1>4 DEF WrittenAs
  <2> QED BY <1>1, <1>2, <2>1 DEF WrittenAs, Composed, Pane!Texts, Pane!SentWhereWritten
<1>7. DraftKept' /\ OneForm'
  BY <1>1 DEF DraftKept, OneForm
<1>8. \/ cSpent' = cSpent \cup Pane!Mine
      \/ cKept' = cKept /\ cSpent' = cSpent \cup Pane!Dropped(cForm)
  BY DEF Pane!Leave, Pane!LoggedOut, Pane!Expire
<1>9. ASSUME NEW w \in Composed, ~cHasty
      PROVE  \/ cWritten[w] = Pane!Fresh \/ w \in cSpent'
             \/ (\E u \in Owners, c \in Chats : cKept'[<<u, c>>] = w)
             \/ (\E s \in cSaving : s[2] = w)
  <2>0. w # 0
    BY TextsAre
  <2>1. CASE w = cForm
    <3>1. w \in Pane!Mine
      BY <1>2, <2>0, <2>1 DEF WrittenAs, Pane!Mine, Composed
    <3>2. w \in Pane!Dropped(cForm) \/ \E s \in cSaving : s[2] = w
      BY <2>1, DroppedIs
    <3> QED BY <1>8, <3>1, <3>2
  <2>2. CASE w = cDraft
    <3>1. w \in Pane!Mine
      BY <1>2, <2>0, <2>2 DEF WrittenAs, Pane!Mine, Composed
    <3>2. cHere # None
      BY <2>0, <2>2 DEF PaneInv, Mounted
    <3>3. cMe \in Owners /\ cHere \in Chats
      BY <3>2, AtPaneIs
    <3>4. cKept[<<cMe, cHere>>] = w \/ w \in cSpent
      BY <2>2, <3>2 DEF PaneInv, DraftKept
    <3> QED BY <1>8, <3>1, <3>3, <3>4
  <2>3. CASE \E u \in Owners, c \in Chats : cKept[<<u, c>>] = w
    <3>1. PICK u \in Owners, c \in Chats : cKept[<<u, c>>] = w
      BY <2>3
    <3>2. cWritten[w].by = u
      <4>1. cWritten[w] = [by |-> u, for |-> c]
        BY <1>2, <2>0, <3>1 DEF WrittenAs
      <4> QED BY <4>1
    <3>3. u = cMe => w \in Pane!Mine
      BY <3>2 DEF Pane!Mine, Composed
    <3> QED BY <1>4, <3>1, <3>3
  <2>4. CASE /\ w # cForm /\ w # cDraft
             /\ ~\E u \in Owners, c \in Chats : cKept[<<u, c>>] = w
    <3>1. cWritten[w] = Pane!Fresh \/ w \in cSpent \/ \E s \in cSaving : s[2] = w
      BY <1>9, <2>4, LostIs DEF PaneInv
    <3> QED BY <1>8, <3>1
  <2> QED BY <2>1, <2>2, <2>3, <2>4
<1>10. \A w \in Composed, u \in Owners, d \in Chats :
         cKept'[<<u, d>>] = w => \E k \in Owners \X Chats : cKept'[k] = w
  OBVIOUS
<1>11. Pane!NothingWrittenLost'
  BY <1>1, <1>9, <1>10 DEF Pane!NothingWrittenLost, Composed, Pane!Texts, Pane!Fresh
<1> QED BY <1>5, <1>6, <1>7, <1>11 DEF PaneInv

LEMMA LoginKeeps ==
  ASSUME PaneInv, NEW u \in Owners, Pane!Login(u)
  PROVE  PaneInv'
<1>1. /\ cMe = None /\ cMe' = u
      /\ UNCHANGED <<cHere, cWritten, cSpent, cDraft, cKept, cReply, cForm, cSaving, cSent, cHasty>>
  BY DEF Pane!Login, Pane!composer, Pane!edit
<1>2. cHere = None /\ cDraft = 0 /\ cForm = 0 /\ cReply = None
  BY <1>1 DEF PaneInv, Mounted
<1>3. PaneTypes' /\ Mounted' /\ WrittenAs'
  BY <1>1, <1>2 DEF PaneInv, PaneTypes, Word, Composed, Pane!Texts, Mounted, WrittenAs,
     Pane!SentWhereWritten
<1>4. DraftKept' /\ OneForm'
  BY <1>1, <1>2 DEF PaneInv, DraftKept, OneForm
<1>5. Pane!NothingWrittenLost'
  BY <1>1 DEF PaneInv, Pane!NothingWrittenLost, Pane!Texts, Pane!Fresh
<1> QED BY <1>3, <1>4, <1>5 DEF PaneInv

-----------------------------------------------------------------------------
\* A file the server has sent was stored and nobody cancelled it; a cancelled one is
\* not on its way to the server.
Picked == [to : Chats \cup {None},
           at : {"none", "slot", "put", "sending", "failed", "sent", "gone"},
           uploaded : BOOLEAN, cancelled : BOOLEAN]
\* Of one file: how far it is, against whether it was stored and cancelled.
OneFile(one) ==
  /\ one \in Picked
  /\ one.uploaded => one.at \notin {"none", "slot", "put"}
  /\ one.at = "sending" => one.uploaded
  /\ one.cancelled => one.at \in {"slot", "put", "gone"}

FilesInv ==
  /\ cUpload \in [Files -> Picked]
  /\ \A f \in Files :
       OneFile(cUpload[f]) /\ (f \in cCarried => cUpload[f].uploaded /\ ~cUpload[f].cancelled)

LEMMA OneFileChanges ==
  ASSUME FilesInv, NEW f \in Files, NEW one, OneFile(one),
         cUpload' = [cUpload EXCEPT ![f] = one],
         cCarried' \in {cCarried, cCarried \cup {f}},
         f \in cCarried' => one.uploaded /\ ~one.cancelled
  PROVE  FilesInv'
<1>1. one \in Picked
  BY DEF OneFile
<1>2. cUpload' \in [Files -> Picked] /\ cUpload'[f] = one
  BY <1>1 DEF FilesInv
<1>3. ASSUME NEW g \in Files, g # f
      PROVE  cUpload'[g] = cUpload[g] /\ (g \in cCarried' <=> g \in cCarried)
  BY <1>3 DEF FilesInv
<1>4. ASSUME NEW g \in Files
      PROVE  /\ OneFile(cUpload'[g])
             /\ g \in cCarried' => cUpload'[g].uploaded /\ ~cUpload'[g].cancelled
  <2>1. CASE g = f
    BY <1>2, <2>1
  <2>2. CASE g # f
    BY <1>3, <2>2 DEF FilesInv
  <2> QED BY <2>1, <2>2
<1> QED BY <1>2, <1>4 DEF FilesInv, OneFile

\* A file goes on: only how far it is changes.
LEMMA FileGoesOn ==
  ASSUME FilesInv, NEW f \in Files, NEW at, Pane!Change(f, at),
         at \in {"none", "slot", "put", "sending", "failed", "sent", "gone"},
         cUpload[f].uploaded => at \notin {"none", "slot", "put"},
         at = "sending" => cUpload[f].uploaded,
         cUpload[f].cancelled => at \in {"slot", "put", "gone"},
         cCarried' \in {cCarried, cCarried \cup {f}},
         f \in cCarried' => cUpload[f].uploaded /\ ~cUpload[f].cancelled
  PROVE  FilesInv'
<1>1. cUpload[f] \in Picked /\ cUpload \in [Files -> Picked]
  BY DEF FilesInv
<1>2. PICK one : one = [cUpload[f] EXCEPT !.at = at]
  OBVIOUS
<1>3. cUpload' = [cUpload EXCEPT ![f] = one]
  BY <1>1, <1>2 DEF Pane!Change
<1>4. /\ one \in Picked /\ one.at = at
      /\ one.uploaded = cUpload[f].uploaded /\ one.cancelled = cUpload[f].cancelled
  BY <1>1, <1>2 DEF Picked
<1>5. OneFile(one)
  BY <1>4 DEF OneFile
<1>6. f \in cCarried' => one.uploaded /\ ~one.cancelled
  BY <1>4
<1> QED BY <1>3, <1>5, <1>6, OneFileChanges

LEMMA FileKeeps ==
  ASSUME FilesInv, cHere \in Chats \cup {None}, NEW f \in Files,
         \/ Pane!AddFile(f) \/ Pane!SlotGiven(f) \/ Pane!Stored(f) \/ Pane!Fails(f)
         \/ Pane!Carried(f) \/ Pane!Cancel(f) \/ Pane!Retry(f)
  PROVE  FilesInv'
<1>1. /\ cUpload[f] \in Picked /\ cUpload \in [Files -> Picked] /\ OneFile(cUpload[f])
      /\ f \in cCarried => cUpload[f].uploaded /\ ~cUpload[f].cancelled
  BY DEF FilesInv
<1>2. /\ cUpload[f].uploaded => cUpload[f].at \notin {"none", "slot", "put"}
      /\ cUpload[f].at = "sending" => cUpload[f].uploaded
      /\ cUpload[f].cancelled => cUpload[f].at \in {"slot", "put", "gone"}
      /\ cUpload[f].uploaded \in BOOLEAN /\ cUpload[f].cancelled \in BOOLEAN
      /\ cUpload[f].to \in Chats \cup {None}
  BY <1>1 DEF OneFile, Picked
<1>3. CASE Pane!AddFile(f)
  <2>1. PICK mid : mid = [Pane!NoUpload EXCEPT !.to = cHere]
    OBVIOUS
  <2>2. PICK one : one = [mid EXCEPT !.at = "slot"]
    OBVIOUS
  <2>3. cUpload' = [cUpload EXCEPT ![f] = one] /\ cCarried' = cCarried /\ cUpload[f] = Pane!NoUpload
    BY <1>3, <2>1, <2>2 DEF Pane!AddFile
  <2>4. Pane!NoUpload \in Picked /\ ~Pane!NoUpload.uploaded /\ ~Pane!NoUpload.cancelled
    BY DEF Pane!NoUpload, Picked
  <2>5. mid \in Picked /\ ~mid.uploaded /\ ~mid.cancelled
    BY <2>1, <2>4 DEF Picked
  <2>6. one \in Picked /\ one.at = "slot" /\ ~one.uploaded /\ ~one.cancelled
    BY <2>2, <2>5 DEF Picked
  <2>7. OneFile(one)
    BY <2>6 DEF OneFile
  <2> QED BY <1>1, <2>3, <2>4, <2>7, OneFileChanges
<1>4. CASE Pane!SlotGiven(f)
  <2>1. /\ cUpload[f].at = "slot" /\ cCarried' = cCarried
        /\ Pane!Change(f, IF cUpload[f].cancelled THEN "gone" ELSE "put")
    BY <1>4 DEF Pane!SlotGiven
  <2>2. ~cUpload[f].uploaded
    BY <1>2, <2>1
  <2> QED BY <1>1, <2>1, <2>2, FileGoesOn
<1>5. CASE Pane!Stored(f)
  <2>1. PICK at : at = IF cUpload[f].cancelled THEN "gone" ELSE "sending"
    OBVIOUS
  <2>2. PICK mid : mid = [cUpload[f] EXCEPT !.uploaded = TRUE]
    OBVIOUS
  <2>3. PICK one : one = [mid EXCEPT !.at = at]
    OBVIOUS
  <2>4. /\ cUpload[f].at = "put" /\ cCarried' = cCarried
        /\ cUpload' = [cUpload EXCEPT ![f].uploaded = TRUE, ![f].at = at]
    BY <1>5, <2>1, <1>1 DEF Pane!Stored
  <2>5. cUpload' = [cUpload EXCEPT ![f] = one]
    BY <1>1, <2>2, <2>3, <2>4
  <2>6. mid \in Picked /\ mid.uploaded /\ mid.cancelled = cUpload[f].cancelled
    BY <1>1, <2>2 DEF Picked
  <2>7. one \in Picked /\ one.at = at /\ one.uploaded /\ one.cancelled = cUpload[f].cancelled
    BY <2>1, <2>3, <2>6 DEF Picked
  <2>8. OneFile(one)
    BY <2>1, <2>7 DEF OneFile
  <2>9. f \notin cCarried
    BY <1>1, <1>2, <2>4
  <2> QED BY <2>4, <2>5, <2>8, <2>9, OneFileChanges
<1>6. CASE Pane!Fails(f)
  <2>1. /\ cUpload[f].at \in {"slot", "put", "sending"}
        /\ Pane!Change(f, IF cUpload[f].cancelled \/ cUpload[f].to = None THEN "gone" ELSE "failed")
        /\ cCarried' = cCarried \/ (cUpload[f].at = "sending" /\ cCarried' = cCarried \cup {f})
    BY <1>6 DEF Pane!Fails
  <2>2. f \in cCarried' => cUpload[f].uploaded /\ ~cUpload[f].cancelled
    BY <1>1, <1>2, <2>1
  <2> QED BY <1>1, <1>2, <2>1, <2>2, FileGoesOn
<1>7. CASE Pane!Carried(f)
  <2>1. cUpload[f].at = "sending" /\ Pane!Change(f, "sent") /\ cCarried' = cCarried \cup {f}
    BY <1>7 DEF Pane!Carried
  <2> QED BY <1>1, <1>2, <2>1, FileGoesOn
<1>8. CASE Pane!Cancel(f)
  <2>1. PICK at : at = IF cUpload[f].at = "failed" THEN "gone" ELSE cUpload[f].at
    OBVIOUS
  <2>2. PICK ended \in BOOLEAN : ended = (cUpload[f].at # "failed")
    OBVIOUS
  <2>3. PICK mid : mid = [cUpload[f] EXCEPT !.cancelled = ended]
    OBVIOUS
  <2>4. PICK one : one = [mid EXCEPT !.at = at]
    OBVIOUS
  <2>5. /\ cUpload[f].at \in {"slot", "put", "failed"} /\ cCarried' = cCarried
        /\ ~cUpload[f].cancelled
        /\ cUpload' = [cUpload EXCEPT ![f].cancelled = ended, ![f].at = at]
    BY <1>8, <2>1, <2>2 DEF Pane!Cancel, Pane!Listed
  <2>6. cUpload' = [cUpload EXCEPT ![f] = one]
    BY <1>1, <2>3, <2>4, <2>5
  <2>7. mid \in Picked /\ mid.cancelled = ended /\ mid.uploaded = cUpload[f].uploaded
    BY <1>1, <2>2, <2>3 DEF Picked
  <2>8. /\ one \in Picked /\ one.at = at
        /\ one.cancelled = ended /\ one.uploaded = cUpload[f].uploaded
    BY <2>1, <2>4, <2>5, <2>7 DEF Picked
  <2>9. OneFile(one)
    BY <1>2, <2>1, <2>2, <2>5, <2>8 DEF OneFile
  <2>10. f \in cCarried => one.uploaded /\ ~one.cancelled
    BY <1>1, <1>2, <2>2, <2>5, <2>8
  <2> QED BY <2>5, <2>6, <2>9, <2>10, OneFileChanges
<1>9. CASE Pane!Retry(f)
  <2>1. /\ cUpload[f].at = "failed" /\ cCarried' = cCarried
        /\ Pane!Change(f, IF cUpload[f].uploaded THEN "sending" ELSE "slot")
    BY <1>9 DEF Pane!Retry
  <2> QED BY <1>1, <1>2, <2>1, FileGoesOn
<1> QED BY <1>3, <1>4, <1>5, <1>6, <1>7, <1>8, <1>9

LEMMA FilesUnmount ==
  ASSUME FilesInv, Pane!Unmount
  PROVE  FilesInv'
<1>1. /\ cCarried' = cCarried
      /\ cUpload' = [f \in Files |->
           IF cUpload[f].at \in {"slot", "put"} THEN [cUpload[f] EXCEPT !.cancelled = TRUE]
           ELSE IF cUpload[f].at = "failed" THEN [cUpload[f] EXCEPT !.at = "gone"]
           ELSE IF cUpload[f].at = "sending" THEN [cUpload[f] EXCEPT !.to = None] ELSE cUpload[f]]
  BY DEF Pane!Unmount
<1>2. ASSUME NEW f \in Files
      PROVE  /\ OneFile(cUpload'[f])
             /\ f \in cCarried => cUpload'[f].uploaded /\ ~cUpload'[f].cancelled
  <2>1. /\ cUpload[f] \in Picked /\ OneFile(cUpload[f])
        /\ f \in cCarried => cUpload[f].uploaded /\ ~cUpload[f].cancelled
    BY DEF FilesInv
  <2>2. CASE cUpload[f].at \in {"slot", "put"}
    <3>1. cUpload'[f] = [cUpload[f] EXCEPT !.cancelled = TRUE]
      BY <1>1, <2>2
    <3> QED BY <2>1, <2>2, <3>1 DEF OneFile, Picked
  <2>3. CASE cUpload[f].at = "failed"
    <3>1. cUpload'[f] = [cUpload[f] EXCEPT !.at = "gone"]
      BY <1>1, <2>3
    <3> QED BY <2>1, <2>3, <3>1 DEF OneFile, Picked
  <2>4. CASE cUpload[f].at = "sending"
    <3>1. cUpload'[f] = [cUpload[f] EXCEPT !.to = None]
      BY <1>1, <2>4
    <3> QED BY <2>1, <2>4, <3>1 DEF OneFile, Picked
  <2>5. CASE cUpload[f].at \notin {"slot", "put", "failed", "sending"}
    BY <1>1, <2>1, <2>5
  <2> QED BY <2>2, <2>3, <2>4, <2>5
<1>3. cUpload' \in [Files -> Picked]
  BY <1>1, <1>2 DEF OneFile
<1> QED BY <1>1, <1>2, <1>3 DEF FilesInv, OneFile

\* A text goes where it was begun, nothing written is lost, what was cancelled does not
\* go (ChatPane.tsx:271, :835; useAttachmentUploads.ts:93).
THEOREM PaneSound ==
  Pane!Spec => [](Pane!SentWhereWritten /\ Pane!NothingWrittenLost /\ Pane!CancelledNeverSent)
<1>1. Pane!Init => PaneInv /\ FilesInv
  <2> SUFFICES ASSUME Pane!Init PROVE PaneInv /\ FilesInv
    OBVIOUS
  <2>1. /\ cMe \in Owners /\ cHere = None /\ cWritten = [t \in Composed |-> Pane!Fresh]
        /\ cSpent = {} /\ cDraft = 0 /\ cKept = [k \in Owners \X Chats |-> 0]
        /\ cReply = None /\ cForm = 0 /\ cSaving = {} /\ cSent = {}
        /\ cUpload = [f \in Files |-> Pane!NoUpload] /\ cCarried = {}
    BY DEF Pane!Init, Composed
  <2>2. Pane!Fresh \in Word
    BY DEF Pane!Fresh, Word
  <2>3. PaneTypes /\ Mounted /\ DraftKept /\ OneForm
    BY <2>1, <2>2, ChatsAssumption DEF PaneTypes, Mounted, DraftKept, OneForm
  <2>4. WrittenAs
    <3>1. \A u \in Owners, c \in Chats : cKept[<<u, c>>] = 0
      BY <2>1
    <3> QED BY <2>1, <3>1 DEF WrittenAs, Pane!SentWhereWritten
  <2>5. Pane!NothingWrittenLost
    BY <2>1 DEF Pane!NothingWrittenLost, Composed
  <2>6. FilesInv
    <3>1. OneFile(Pane!NoUpload)
      BY DEF OneFile, Picked, Pane!NoUpload
    <3> QED BY <2>1, <3>1 DEF FilesInv, OneFile
  <2> QED BY <2>3, <2>4, <2>5, <2>6 DEF PaneInv
<1>2. PaneInv /\ FilesInv /\ [Pane!Next]_(Pane!vars) => PaneInv' /\ FilesInv'
  <2> SUFFICES ASSUME PaneInv, FilesInv, [Pane!Next]_(Pane!vars) PROVE PaneInv' /\ FilesInv'
    OBVIOUS
  <2>1. UNCHANGED <<cUpload, cCarried>> => FilesInv'
    BY DEF FilesInv, OneFile, Picked
  <2>2. CASE Pane!Leave \/ Pane!LoggedOut \/ Pane!Expire
    <3>1. Pane!Unmount
      BY <2>2 DEF Pane!Leave, Pane!LoggedOut, Pane!Expire
    <3> QED BY <2>2, <3>1, UnmountKeeps, FilesUnmount
  <2>3. CASE Pane!Logout
    BY <2>1, <2>3, LogoutKeeps DEF Pane!Logout, Pane!files
  <2>4. CASE Pane!Erase
    <3>1. /\ cHere # None /\ cDraft # 0 /\ Pane!Keep(0) /\ cSpent' = cSpent \cup {cDraft}
          /\ UNCHANGED <<cMe, cHere, cWritten, cForm, cSaving, cHasty, cReply, cSent>>
      BY <2>4 DEF Pane!Erase, Pane!AtPane, Pane!session, Pane!edit
    <3> QED BY <2>1, <2>4, <3>1, ComposerEmptied DEF Pane!Erase, Pane!files
  <2>5. CASE Pane!Submit
    <3>1. /\ cHere # None /\ cDraft # 0 /\ Pane!Keep(0) /\ cSpent' = cSpent \cup {cDraft}
          /\ cReply' = None
          /\ cSent' = cSent \cup {[text |-> cDraft, by |-> cMe, to |-> cHere, reply |-> cReply]}
          /\ UNCHANGED <<cMe, cHere, cWritten, cForm, cSaving, cHasty>>
      BY <2>5 DEF Pane!Submit, Pane!AtPane, Pane!session, Pane!edit
    <3> QED BY <2>1, <2>5, <3>1, ComposerEmptied DEF Pane!Submit, Pane!files
  <2>6. ASSUME NEW c \in Chats, Pane!Open(c) PROVE PaneInv' /\ FilesInv'
    BY <2>1, <2>6, OpenKeeps DEF Pane!Open, Pane!files
  <2>7. ASSUME NEW u \in Owners, Pane!Login(u) PROVE PaneInv' /\ FilesInv'
    BY <2>1, <2>7, LoginKeeps DEF Pane!Login, Pane!files
  <2>8. ASSUME NEW t \in Composed, Pane!Type(t) PROVE PaneInv' /\ FilesInv'
    BY <2>1, <2>8, TypeDraftKeeps DEF Pane!Type, Pane!files
  <2>9. ASSUME NEW t \in Composed, Pane!TypeEdit(t) PROVE PaneInv' /\ FilesInv'
    BY <2>1, <2>9, TypeEditKeeps DEF Pane!TypeEdit, Pane!files
  <2>10. CASE Pane!Save \/ \E s \in cSaving : Pane!Saved(s) \/ Pane!SaveFails(s)
    BY <2>1, <2>10, EditsKeep DEF Pane!Save, Pane!Saved, Pane!SaveFails, Pane!files
  <2>11. CASE \/ Pane!CancelReply \/ Pane!CancelDelete \/ Pane!ConfirmDelete
              \/ (\E m \in OwnMessages : Pane!AskDelete(m))
              \/ (\E d \in cDeleting : Pane!DeleteFails(d)) \/ UNCHANGED Pane!vars
    <3>1. /\ UNCHANGED <<cMe, cHere, cWritten, cSpent, cDraft, cKept, cForm, cSaving, cSent>>
          /\ cHasty' = cHasty /\ cReply' \in {cReply, None} /\ UNCHANGED <<cUpload, cCarried>>
      BY <2>11 DEF Pane!CancelReply, Pane!CancelDelete, Pane!ConfirmDelete, Pane!AskDelete,
         Pane!DeleteFails, Pane!vars, Pane!session, Pane!composer, Pane!edit, Pane!files
    <3> QED BY <2>1, <3>1, PaneStays
  <2>12. CASE Pane!CancelEdit
    <3>1. /\ UNCHANGED <<cMe, cHere, cWritten, cDraft, cKept, cSaving, cSent, cUpload, cCarried>>
          /\ cForm' = 0 /\ cSpent' = cSpent \cup Pane!Dropped(cForm)
          /\ cHasty' = cHasty /\ cReply' = cReply
      BY <2>12 DEF Pane!CancelEdit, Pane!session, Pane!composer, Pane!files
    <3> QED BY <2>1, <3>1, ClosedKeeps
  <2>13. ASSUME NEW m \in OwnMessages, Pane!Edit(m) PROVE PaneInv' /\ FilesInv'
    <3>1. /\ UNCHANGED <<cMe, cHere, cWritten, cDraft, cKept, cSaving, cSent, cUpload, cCarried>>
          /\ cForm' = 0 /\ cSpent' = cSpent \cup Pane!Dropped(cForm)
          /\ cHasty' = (cHasty \/ cSaving # {}) /\ cReply' = cReply
      BY <2>13 DEF Pane!Edit, Pane!session, Pane!composer, Pane!files
    <3> QED BY <2>1, <3>1, ClosedKeeps
  <2>14. ASSUME NEW m \in OwnMessages, Pane!Reply(m) PROVE PaneInv' /\ FilesInv'
    <3>1. /\ UNCHANGED <<cMe, cHere, cWritten, cDraft, cKept, cSaving, cSent, cUpload, cCarried>>
          /\ cForm' = 0 /\ cSpent' = cSpent \cup Pane!Dropped(cForm)
          /\ cHasty' = cHasty /\ cReply' = m /\ cHere # None /\ ChatOf[m] = cHere
      BY <2>14 DEF Pane!Reply, Pane!Offered, Pane!AtPane, Pane!Shown, Pane!session, Pane!files
    <3> QED BY <2>1, <3>1, ClosedKeeps
  <2>15. CASE \/ \E m \in OwnMessages : Pane!DeletedElsewhere(m)
              \/ \E d \in cDeleting : Pane!Deleted(d)
    <3>1. /\ UNCHANGED <<cMe, cHere, cWritten, cDraft, cKept, cSaving, cSent, cUpload, cCarried>>
          /\ cHasty' = cHasty /\ cReply' \in {cReply, None}
          /\ \/ cForm' = 0 /\ cSpent' = cSpent \cup Pane!Dropped(cForm)
             \/ cForm' = cForm /\ cSpent' = cSpent
      BY <2>15 DEF Pane!DeletedElsewhere, Pane!Deleted, Pane!Tombstone, Pane!session,
         Pane!composer, Pane!files
    <3>2. CASE cForm' = 0 /\ cSpent' = cSpent \cup Pane!Dropped(cForm)
      BY <2>1, <3>1, <3>2, ClosedKeeps
    <3>3. CASE cForm' = cForm /\ cSpent' = cSpent
      BY <2>1, <3>1, <3>3, PaneStays
    <3> QED BY <3>1, <3>2, <3>3
  <2>16. ASSUME NEW f \in Files,
                \/ Pane!AddFile(f) \/ Pane!SlotGiven(f) \/ Pane!Stored(f) \/ Pane!Fails(f)
                \/ Pane!Carried(f) \/ Pane!Cancel(f) \/ Pane!Retry(f)
         PROVE  PaneInv' /\ FilesInv'
    <3>1. /\ UNCHANGED <<cMe, cHere, cWritten, cSpent, cDraft, cKept, cForm, cSaving, cSent>>
          /\ cHasty' = cHasty /\ cReply' = cReply
      BY <2>16 DEF Pane!AddFile, Pane!SlotGiven, Pane!Stored, Pane!Fails, Pane!Carried,
         Pane!Cancel, Pane!Retry, Pane!Pane, Pane!session, Pane!composer, Pane!edit
    <3>2. PaneInv'
      BY <3>1, PaneStays
    <3>3. cHere \in Chats \cup {None}
      BY DEF PaneInv, PaneTypes
    <3>4. FilesInv'
      BY <2>16, <3>3, FileKeeps
    <3> QED BY <3>2, <3>4
  <2> QED
    BY <2>2, <2>3, <2>4, <2>5, <2>6, <2>7, <2>8, <2>9, <2>10, <2>11, <2>12, <2>13, <2>14,
       <2>15, <2>16
    DEF Pane!Next, Composed
<1>3. PaneInv /\ FilesInv =>
        Pane!SentWhereWritten /\ Pane!NothingWrittenLost /\ Pane!CancelledNeverSent
  BY DEF PaneInv, FilesInv, WrittenAs, Pane!CancelledNeverSent
<1> QED BY <1>1, <1>2, <1>3, PTL DEF Pane!Spec
================================================================================
