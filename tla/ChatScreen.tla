------------------------------ MODULE ChatScreen ------------------------------
(* A chat on the phone's screen: the box that holds a new message or an edit,   *)
(* the reply, the sheets over the list, a file being picked, and the marking of *)
(* what came as read.                                                           *)
(* apps/mobile: app/(app)/c/[id]/index.tsx; src/chat: Composer, MessageActions, *)
(* AttachSheet, SwipeToReply, attachments.ts; src/data/actions.ts: markRead.    *)
(*                                                                              *)
(* One visit of one chat.  What is queued goes on in module MobileOutbox, files *)
(* in Attachments, a recording in HoldToRecord.  Copying, reacting and deleting *)
(* leave nothing on the screen.                                                 *)
EXTENDS Naturals, FiniteSetsExt

CONSTANTS
  Messages,  \* of the person, which can be edited
  MaxTexts,  \* bound on the texts begun
  MaxPicks,  \* bound on the files being picked
  MaxSeq,    \* bound on the messages that come
  None

VARIABLES
  platform,
  text,      \* in the box: nothing (0), a text begun, or a message's own
  draft,     \* put aside during an edit
  editing, replyTo,
  written,   \* written[t]: what text t was begun as, "new" or an edit
  spent,     \* texts given up by their author
  queued,    \* what went to the outbox: the text and the message replied to
  edits,     \* edits asked of the server
  picks,     \* files being picked: the reply there was when it began, and whether it is over the screen
  attached,  \* the replies of the files that went to the uploads
  sheet,     \* actionsFor
  leavingSheet,  \* the sheet is fading out
  pendingReport, reportFor,
  front,     \* the app is active
  known,     \* the conversation is loaded
  newest, lastRead,  \* seqs, as the caches have them
  marked,    \* markedSeq
  marks,     \* calls of markRead: the seq, and the server's answer (0: none yet)
  read,      \* the server's read position
  told,      \* the highest seq that a call has told the server
  seen       \* the newest there was with the app in front

vars == <<platform, text, draft, editing, replyTo, written, spent, queued, edits, picks, attached,
          sheet, leavingSheet, pendingReport, reportFor, front, known, newest, lastRead, marked,
          marks, read, told, seen>>
box == <<text, draft, editing, written, spent, queued, edits>>
files == <<picks, attached>>
sheets == <<sheet, leavingSheet, pendingReport, reportFor>>
reading == <<front, known, newest, lastRead, marked, marks, read, told, seen>>

Texts == 1..MaxTexts
MaybeMessage == Messages \cup {None}

TypeOK ==
  /\ platform \in {"ios", "android"}
  /\ text \in {<<>>} \cup {<<t>> : t \in Texts \cup Messages}
  /\ draft \in {<<>>} \cup {<<t>> : t \in Texts}
  /\ {editing, replyTo, sheet, pendingReport, reportFor} \subseteq MaybeMessage
  /\ written \in [Texts -> Messages \cup {"new", None}] /\ spent \subseteq Texts
  /\ queued \subseteq Texts \X MaybeMessage /\ edits \subseteq Messages \X (Texts \cup Messages)
  /\ picks \subseteq [reply : MaybeMessage, over : BOOLEAN] /\ attached \subseteq MaybeMessage
  /\ {leavingSheet, front, known} \subseteq BOOLEAN
  /\ {newest, lastRead, marked, read, told, seen} \subseteq 0..MaxSeq
  /\ marks \subseteq (1..MaxSeq) \X (0..MaxSeq)

Init ==
  /\ platform \in {"ios", "android"} /\ text = <<>> /\ draft = <<>>
  /\ editing = None /\ replyTo = None /\ written = [t \in Texts |-> None] /\ spent = {}
  /\ queued = {} /\ edits = {} /\ picks = {} /\ attached = {}
  /\ sheet = None /\ leavingSheet = FALSE /\ pendingReport = None /\ reportFor = None
  /\ front = TRUE /\ known = FALSE /\ newest = 0 /\ lastRead = 0 /\ marked = 0 /\ marks = {}
  /\ read \in 0..1 /\ told = 0 /\ seen = 0

(******************************** The box *********************************)

\* At the list and the box: nothing lies over them.
AtChat ==
  front /\ sheet = None /\ ~leavingSheet /\ reportFor = None /\ \A p \in picks : ~p.over
Held(x) == {x[i] : i \in DOMAIN x} \cap Texts

\* The box follows `editing` as it is rendered: an edit begins with the message's
\* text, and what was typed before comes back with its end.  Another edit begun
\* during one puts aside nothing.
DraftFollowsAlways(m) == IF m # None THEN draft' = text ELSE draft' = <<>>
DraftFollows(m) ==
  IF m # None
  THEN draft' = IF editing = None THEN text ELSE draft
  ELSE draft' = IF editing = None THEN draft ELSE <<>>
EditingIs(m) ==
  /\ editing' = m /\ DraftFollows(m)
  /\ text' = IF m # None THEN <<m>> ELSE IF editing # None THEN draft ELSE text
\* Leaving an edit without saving gives its text up.
GivesUp == spent' = IF editing = None THEN spent ELSE spent \cup Held(text)

Type(t) ==
  /\ AtChat /\ t \in Texts /\ written[t] = None /\ Held(text) = {}
  /\ \A n \in 1..(t - 1) : written[n] # None
  /\ written' = [written EXCEPT ![t] = IF editing = None THEN "new" ELSE editing]
  /\ text' = <<t>>
  /\ UNCHANGED <<platform, draft, editing, replyTo, spent, queued, edits, files, sheets, reading>>

Erase ==
  /\ AtChat /\ text # <<>> /\ text' = <<>> /\ spent' = spent \cup Held(text)
  /\ UNCHANGED <<platform, draft, editing, replyTo, written, queued, edits, files, sheets, reading>>

Edit(m) ==
  /\ m # editing /\ replyTo' = None /\ EditingIs(m) /\ GivesUp
  /\ UNCHANGED <<written, queued, edits>>

\* onReply: from the sheet, or by a swipe.
Reply(m) ==
  /\ replyTo' = m /\ EditingIs(None) /\ GivesUp /\ UNCHANGED <<written, queued, edits>>

Swipe(m) == AtChat /\ Reply(m) /\ UNCHANGED <<platform, files, sheets, reading>>

CancelContext ==
  /\ AtChat /\ (editing # None \/ replyTo # None)
  /\ replyTo' = None /\ EditingIs(None) /\ GivesUp
  /\ UNCHANGED <<platform, written, queued, edits, files, sheets, reading>>

\* onSend: an edit goes to the server, and its text is gone when that refuses it.
SendKeepsText ==
  IF editing = None THEN text' = <<>> /\ UNCHANGED <<draft, editing>>
  ELSE editing' = None /\ UNCHANGED <<text, draft>>
BoxAfterSend ==
  IF editing = None THEN text' = <<>> /\ UNCHANGED <<draft, editing>> ELSE EditingIs(None)

Send ==
  /\ AtChat /\ text # <<>>
  /\ IF editing = None
     THEN queued' = queued \cup {<<text[1], replyTo>>} /\ replyTo' = None /\ UNCHANGED edits
     ELSE edits' = edits \cup {<<editing, text[1]>>} /\ UNCHANGED <<queued, replyTo>>
  /\ BoxAfterSend
  /\ UNCHANGED <<platform, written, spent, files, sheets, reading>>

(********************************* Files **********************************)

\* onAttachChoice.  The picker goes before the file is there.
Pick ==
  /\ AtChat /\ editing = None /\ Cardinality(picks) < MaxPicks
  /\ picks' = picks \cup {[reply |-> replyTo, over |-> TRUE]}
  /\ UNCHANGED <<platform, box, replyTo, attached, sheets, reading>>

PickerGoes(p) ==
  /\ p \in picks /\ p.over /\ picks' = (picks \ {p}) \cup {[p EXCEPT !.over = FALSE]}
  /\ UNCHANGED <<platform, box, replyTo, attached, sheets, reading>>

NothingPicked(p) ==
  /\ p \in picks /\ picks' = picks \ {p}
  /\ UNCHANGED <<platform, box, replyTo, attached, sheets, reading>>

\* startUpload, with the reply of when the picking began.
Picked(p) ==
  /\ p \in picks /\ ~p.over /\ picks' = picks \ {p} /\ attached' = attached \cup {p.reply}
  /\ replyTo' = None
  /\ UNCHANGED <<platform, box, sheets, reading>>

\* A voice message, held and released at the empty box.
Recorded ==
  /\ AtChat /\ editing = None /\ text = <<>> /\ attached' = attached \cup {replyTo}
  /\ replyTo' = None
  /\ UNCHANGED <<platform, box, picks, sheets, reading>>

(******************************** Sheets **********************************)

LongPress(m) ==
  /\ AtChat /\ sheet' = m
  /\ UNCHANGED <<platform, box, replyTo, files, leavingSheet, pendingReport, reportFor, reading>>

\* On iOS it fades out, and says when it has.
SheetCloses == sheet' = None /\ leavingSheet' = (platform = "ios")

CloseSheet ==
  /\ front /\ sheet # None /\ SheetCloses
  /\ UNCHANGED <<platform, box, replyTo, files, pendingReport, reportFor, reading>>

Choose ==
  /\ front /\ sheet # None /\ SheetCloses /\ (Edit(sheet) \/ Reply(sheet))
  /\ UNCHANGED <<platform, files, pendingReport, reportFor, reading>>

\* "iOS cannot present a Modal while another one is still dismissing".
ReportAtOnce == reportFor' = sheet /\ UNCHANGED pendingReport
ReportNext ==
  IF platform = "ios" THEN pendingReport' = sheet /\ UNCHANGED reportFor
  ELSE reportFor' = sheet /\ UNCHANGED pendingReport

Report ==
  /\ front /\ sheet # None /\ ReportNext /\ SheetCloses
  /\ UNCHANGED <<platform, box, replyTo, files, reading>>

\* onActionsDismissed.
Dismissed ==
  /\ leavingSheet /\ leavingSheet' = FALSE /\ pendingReport' = None
  /\ reportFor' = IF pendingReport = None THEN reportFor ELSE pendingReport
  /\ UNCHANGED <<platform, box, replyTo, files, sheet, reading>>

\* With a reason, or not.
CloseReport ==
  /\ front /\ reportFor # None /\ reportFor' = None
  /\ UNCHANGED <<platform, box, replyTo, files, sheet, leavingSheet, pendingReport, reading>>

(******************************** Reading *********************************)

\* The effect that runs whenever one of these has changed.  Two calls for one seq
\* that are both on their way count as one.
MarkRead ==
  /\ seen' = IF front' THEN Max({seen, newest'}) ELSE seen
  /\ IF front' /\ known' /\ newest' > lastRead' /\ marked < newest'
     THEN marked' = newest' /\ marks' = marks \cup {<<newest', 0>>}
     ELSE UNCHANGED <<marked, marks>>
Others == <<platform, box, replyTo, files, sheets>>

Loaded ==
  /\ ~known /\ known' = TRUE /\ lastRead' = read
  /\ UNCHANGED <<Others, front, newest, read, told>> /\ MarkRead

Arrive ==
  /\ newest < MaxSeq /\ newest' = newest + 1
  /\ UNCHANGED <<Others, front, known, lastRead, read, told>> /\ MarkRead

AppChanges ==
  /\ front' = ~front /\ UNCHANGED <<Others, known, newest, lastRead, read, told>> /\ MarkRead

\* Another device reads on, or marks the chat unread.
ReadElsewhere(seq) ==
  /\ seq <= newest /\ (seq > read \/ seq = newest - 1) /\ read' = seq
  /\ UNCHANGED <<Others, front, known, newest, lastRead, marked, marks, told, seen>>

\* conversation.read, or any other news of the conversation.
Refreshed ==
  /\ known /\ lastRead' = read
  /\ UNCHANGED <<Others, front, known, newest, read, told>> /\ MarkRead

\* A call only moves the position forward.
Answered(c) ==
  /\ c \in marks /\ c[2] = 0
  /\ read' = Max({read, c[1]}) /\ told' = Max({told, c[1]})
  /\ marks' = (marks \ {c}) \cup {<<c[1], read'>>}
  /\ UNCHANGED <<Others, front, known, newest, lastRead, marked, seen>>

\* applyConversation puts the answer in place of what was there, whichever came first.
MarkDone(c) ==
  /\ c \in marks /\ c[2] # 0 /\ lastRead' = c[2]
  /\ seen' = IF front THEN Max({seen, newest}) ELSE seen
  /\ IF front /\ newest > c[2] /\ marked < newest
     THEN marked' = newest /\ marks' = (marks \ {c}) \cup {<<newest, 0>>}
     ELSE marks' = marks \ {c} /\ UNCHANGED marked
  /\ UNCHANGED <<Others, front, known, newest, read, told>>

\* "try again on the next change".
FailsKeepsMark(c) == marks' = marks \ {c} /\ UNCHANGED marked
Fails(c) == marks' = marks \ {c} /\ marked' = 0
MarkFails(c) ==
  /\ c \in marks /\ Fails(c)
  /\ UNCHANGED <<Others, front, known, newest, lastRead, read, told, seen>>

-----------------------------------------------------------------------------
Next ==
  \/ Erase \/ CancelContext \/ Send \/ Pick \/ Recorded \/ CloseSheet \/ Choose \/ Report
  \/ Dismissed \/ CloseReport \/ Loaded \/ Arrive \/ AppChanges \/ Refreshed
  \/ \E t \in Texts : Type(t)
  \/ \E m \in Messages : Swipe(m) \/ LongPress(m)
  \/ \E p \in picks : PickerGoes(p) \/ NothingPicked(p) \/ Picked(p)
  \/ \E n \in 0..MaxSeq : ReadElsewhere(n)
  \/ \E c \in marks : Answered(c) \/ MarkDone(c) \/ MarkFails(c)

Spec == Init /\ [][Next]_vars

(****************************** Properties ********************************)

\* An edit carries the message's text or one written for it, and what goes as new
\* was written as new: "leaving edit mode must not leave the old text behind to be
\* sent as something else" (Composer.tsx:80).
SentAsWritten ==
  /\ \A q \in queued : q[1] \in Texts /\ written[q[1]] = "new"
  /\ \A e \in edits : e[2] # e[1] => e[2] \in Texts /\ written[e[2]] = e[1]

\* What is typed is in the box or put aside, went out, or was given up by its
\* author: an edit begun meanwhile, or two, do not cost it (Composer.tsx:75).
NothingTypedLost ==
  \A t \in Texts :
    written[t] = None \/ t \in spent \cup Held(text) \cup Held(draft)
                           \cup {q[1] : q \in queued} \cup {e[2] : e \in edits}

\* On iOS one sheet is over the chat at a time (c/[id]/index.tsx:178).
OneSheet == platform = "ios" /\ reportFor # None => sheet = None /\ ~leavingSheet

\* Nothing is marked read that came after the app was last in front; what counts as
\* marked was, or is being told to the server (c/[id]/index.tsx:158).
MarksTrue ==
  /\ \A c \in marks : c[1] <= seen
  /\ marked > 0 => told >= marked \/ \E c \in marks : c[1] = marked
=============================================================================
