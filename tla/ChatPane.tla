------------------------------- MODULE ChatPane -------------------------------
(* What a person writes in the chat pane of a browser: the text in the composer *)
(* and its draft, the message replied to, the form that edits a message, the    *)
(* question before a deletion, and the files picked.                            *)
(* apps/web/src/features: chat/{ChatPane,MessageBubble}.tsx,                    *)
(* attachments/{useAttachmentUploads.ts,PendingUploads.tsx},                    *)
(* auth/AuthContext.tsx; lib/drafts.ts.                                         *)
(*                                                                              *)
(* One tab.  The pane stays mounted while its owner goes from chat to chat; the  *)
(* form stays among the rows rendered (scrolled out of them, it would forget     *)
(* its text).                                                                    *)
(* What becomes of a text once submitted is module WebOutbox, of a file at the  *)
(* server module Attachments; what is shown of a chat WebTimeline.              *)
EXTENDS Naturals, FiniteSets

CONSTANTS
  Users, Convs,
  Messages, In,  \* messages of the person, and the chat of each
  Files,         \* bound on the files picked
  MaxTexts,      \* bound on the texts begun
  None

VARIABLES
  me,        \* who is signed in
  leaving,   \* logout has cleared the drafts and waits for the server
  here,      \* the chat on screen, or None: the pane is not mounted
  written,   \* written[t]: by whom, and for which chat or message
  spent,     \* texts submitted, saved, or given up by their author
  draft,     \* the text in the composer, 0 when empty
  kept,      \* drafts in localStorage
  replyTo, editing, deleteTarget,
  form,      \* the text in the edit form, 0 as long as it is the message's own
  saving,    \* edits on their way
  deleting,  \* deletions on their way
  deleted,   \* messages deleted, as the cache has them
  sent,      \* what was submitted: the text, where to and as whom, the message replied to
  upload,    \* upload[f]: where to, how far, and whether cancelled
  carried,   \* files the server has sent as messages
  hasty      \* something else was opened while an answer was awaited

vars == <<me, leaving, here, written, spent, draft, kept, replyTo, editing, deleteTarget, form,
          saving, deleting, deleted, sent, upload, carried, hasty>>
session == <<me, leaving>>
composer == <<draft, kept, replyTo, sent>>
edit == <<editing, form, saving>>
removal == <<deleteTarget, deleting, deleted>>
files == <<upload, carried>>

Texts == 1..MaxTexts
Fresh == [by |-> None, for |-> None]
NoUpload == [to |-> None, at |-> "none", uploaded |-> FALSE, cancelled |-> FALSE]

TypeOK ==
  /\ me \in Users \cup {None} /\ leaving \in BOOLEAN /\ here \in Convs \cup {None}
  /\ written \in [Texts -> [by : Users \cup {None}, for : Convs \cup Messages \cup {None}]]
  /\ spent \subseteq Texts /\ draft \in 0..MaxTexts /\ form \in 0..MaxTexts
  /\ kept \in [Users \X Convs -> 0..MaxTexts]
  /\ {replyTo, editing, deleteTarget} \subseteq Messages \cup {None}
  /\ saving \subseteq Messages \X Texts /\ deleting \subseteq Messages \X BOOLEAN
  /\ deleted \subseteq Messages
  /\ sent \subseteq [text : Texts, by : Users, to : Convs, reply : Messages \cup {None}]
  /\ upload \in [Files -> [to : Convs \cup {None},
                           at : {"none", "slot", "put", "sending", "failed", "sent", "gone"},
                           uploaded : BOOLEAN, cancelled : BOOLEAN]]
  /\ carried \subseteq Files /\ hasty \in BOOLEAN

Init ==
  /\ me \in Users /\ leaving = FALSE /\ here = None
  /\ written = [t \in Texts |-> Fresh] /\ spent = {} /\ draft = 0
  /\ kept = [k \in Users \X Convs |-> 0]
  /\ replyTo = None /\ editing = None /\ deleteTarget = None /\ form = 0
  /\ saving = {} /\ deleting = {} /\ deleted = {} /\ sent = {}
  /\ upload = [f \in Files |-> NoUpload] /\ carried = {} /\ hasty = FALSE

\* Texts given up: those in a form, unless they are being saved.
Dropped(t) == {t} \ ({0} \cup {s[2] : s \in saving})
Begun(t, for) ==
  /\ t \in Texts /\ written[t] = Fresh /\ \A n \in 1..(t - 1) : written[n] # Fresh
  /\ written' = [written EXCEPT ![t] = [by |-> me, for |-> for]]

\* At the pane, which the question before a deletion covers.
AtPane == here # None /\ deleteTarget = None
Shown == {m \in Messages \ deleted : In[m] = here}
\* The menu of a message, which its form takes the place of.
Offered(m) == AtPane /\ m \in Shown /\ m # editing

(**************************** The open chat *******************************)

GetDraft(c) == kept[<<me, c>>]

\* A switch forgets what was open in the chat left.
SwitchUnchecked(c) ==
  /\ here' = c /\ draft' = IF here = None THEN GetDraft(c) ELSE draft
  /\ replyTo' = None /\ editing' = None /\ deleteTarget' = None /\ form' = 0
  /\ spent' = spent \cup Dropped(form)
Switch(c) ==
  /\ here' = c /\ draft' = GetDraft(c)
  /\ replyTo' = None /\ editing' = None /\ deleteTarget' = None /\ form' = 0
  /\ spent' = spent \cup Dropped(form)

Open(c) ==
  /\ me # None /\ c # here /\ Switch(c)
  /\ UNCHANGED <<session, written, kept, saving, deleting, deleted, sent, files, hasty>>

\* The pane unmounts: state is gone, uploads are cancelled, a finished one is sent
\* and no longer listed.
Unmount ==
  /\ here' = None /\ draft' = 0 /\ replyTo' = None /\ editing' = None
  /\ deleteTarget' = None /\ form' = 0
  /\ upload' = [f \in Files |->
       IF upload[f].at \in {"slot", "put"} THEN [upload[f] EXCEPT !.cancelled = TRUE]
       ELSE IF upload[f].at = "failed" THEN [upload[f] EXCEPT !.at = "gone"]
       ELSE IF upload[f].at = "sending" THEN [upload[f] EXCEPT !.to = None] ELSE upload[f]]
  /\ UNCHANGED <<written, saving, deleting, deleted, sent, carried, hasty>>

Leave ==
  /\ here # None /\ Unmount /\ spent' = spent \cup Dropped(form)
  /\ UNCHANGED <<session, kept>>

-----------------------------------------------------------------------------
\* logout: the drafts first, then the server, then the pages.  Whoever leaves gives
\* up what was written and not sent.
ClearDrafts == kept' = [k \in Users \X Convs |-> IF k[1] = me THEN 0 ELSE kept[k]]
Mine == {t \in Texts : written[t].by = me}

Logout ==
  /\ me # None /\ ~leaving /\ leaving' = TRUE /\ ClearDrafts /\ spent' = spent \cup Mine
  /\ UNCHANGED <<me, here, written, draft, replyTo, edit, removal, sent, files, hasty>>

LoggedOut ==
  /\ leaving /\ me' = None /\ leaving' = FALSE /\ Unmount
  /\ spent' = spent \cup Mine
  /\ UNCHANGED kept

\* refresh was refused: the session has expired.
Expire ==
  /\ me # None /\ ~leaving /\ me' = None /\ Unmount
  /\ ClearDrafts /\ spent' = spent \cup Mine /\ UNCHANGED leaving

Login(u) ==
  /\ me = None /\ me' = u
  /\ UNCHANGED <<leaving, here, written, spent, composer, edit, removal, files, hasty>>

(***************************** The composer *******************************)

Keep(t) == draft' = t /\ kept' = [kept EXCEPT ![<<me, here>>] = t]

Type(t) ==
  /\ AtPane /\ draft = 0 /\ Begun(t, here) /\ Keep(t)
  /\ UNCHANGED <<session, here, spent, replyTo, edit, removal, sent, files, hasty>>

Erase ==
  /\ AtPane /\ draft # 0 /\ Keep(0) /\ spent' = spent \cup {draft}
  /\ UNCHANGED <<session, here, written, replyTo, edit, removal, sent, files, hasty>>

Submit ==
  /\ AtPane /\ draft # 0 /\ Keep(0) /\ replyTo' = None /\ spent' = spent \cup {draft}
  /\ sent' = sent \cup {[text |-> draft, by |-> me, to |-> here, reply |-> replyTo]}
  /\ UNCHANGED <<session, here, written, edit, removal, files, hasty>>

\* startReply.
Reply(m) ==
  /\ Offered(m) /\ replyTo' = m /\ editing' = None /\ form' = 0
  /\ spent' = spent \cup Dropped(form)
  /\ UNCHANGED <<session, here, written, draft, kept, saving, removal, sent, files, hasty>>

CancelReply ==
  /\ AtPane /\ replyTo # None /\ replyTo' = None
  /\ UNCHANGED <<session, here, written, spent, draft, kept, edit, removal, sent, files, hasty>>

(************************* Editing and deleting ***************************)

\* The form of one message takes the place of that of another.
Edit(m) ==
  /\ Offered(m) /\ editing' = m /\ form' = 0
  /\ spent' = spent \cup Dropped(form) /\ hasty' = (hasty \/ saving # {})
  /\ UNCHANGED <<session, here, written, composer, saving, removal, files>>

\* The form can be written in while it is being saved.
TypeEdit(t) ==
  /\ AtPane /\ editing \in Shown /\ (form = 0 \/ \E s \in saving : s[2] = form)
  /\ Begun(t, editing) /\ form' = t /\ hasty' = (hasty \/ saving # {})
  /\ UNCHANGED <<session, here, spent, composer, editing, saving, removal, files>>

CancelEdit ==
  /\ AtPane /\ editing \in Shown /\ editing' = None /\ form' = 0
  /\ spent' = spent \cup Dropped(form)
  /\ UNCHANGED <<session, here, written, composer, saving, removal, files, hasty>>

Save ==
  /\ AtPane /\ editing \in Shown /\ form # 0 /\ saving' = saving \cup {<<editing, form>>}
  /\ UNCHANGED <<session, here, written, spent, composer, editing, form, removal, files, hasty>>

\* saveEdit: the form closes; whichever it is by now.
Saved(s) ==
  /\ s \in saving /\ saving' = saving \ {s} /\ spent' = spent \cup {s[2]}
  /\ editing' = None /\ form' = 0
  /\ UNCHANGED <<session, here, written, composer, removal, files, hasty>>

\* A refused edit stays in its form, when that is still there.
SaveFailsCloses(s) ==
  /\ s \in saving /\ saving' = saving \ {s} /\ editing' = None /\ form' = 0
  /\ spent' = IF form = s[2] THEN spent ELSE spent \cup {s[2]}
  /\ UNCHANGED <<session, here, written, composer, removal, files, hasty>>
SaveFails(s) ==
  /\ s \in saving /\ saving' = saving \ {s}
  /\ spent' = IF form = s[2] THEN spent ELSE spent \cup {s[2]}
  /\ UNCHANGED <<session, here, written, composer, editing, form, removal, files, hasty>>

AskDelete(m) ==
  /\ Offered(m) /\ deleteTarget' = m
  /\ UNCHANGED <<session, here, written, spent, composer, edit, deleting, deleted, files, hasty>>

CancelDelete ==
  /\ deleteTarget # None /\ deleteTarget' = None
  /\ UNCHANGED <<session, here, written, spent, composer, edit, deleting, deleted, files, hasty>>

ConfirmDelete ==
  /\ deleteTarget # None /\ deleteTarget' = None
  /\ deleting' = deleting \cup {<<deleteTarget, replyTo = deleteTarget>>}
  /\ UNCHANGED <<session, here, written, spent, composer, edit, deleted, files, hasty>>

\* confirmDelete goes by the reply there was when it was pressed; the cache shows
\* the tombstone, which has no form.
Tombstone(m) ==
  /\ deleted' = deleted \cup {m}
  /\ form' = IF editing = m THEN 0 ELSE form
  /\ spent' = IF editing = m THEN spent \cup Dropped(form) ELSE spent

Deleted(d) ==
  /\ d \in deleting /\ deleting' = deleting \ {d} /\ Tombstone(d[1])
  /\ replyTo' = IF d[2] THEN None ELSE replyTo
  /\ UNCHANGED <<session, here, written, draft, kept, sent, editing, saving, deleteTarget, files,
                 hasty>>

DeleteFails(d) ==
  /\ d \in deleting /\ deleting' = deleting \ {d}
  /\ UNCHANGED <<session, here, written, spent, composer, edit, deleteTarget, deleted, files,
                 hasty>>

\* message.updated, of a deletion elsewhere.
DeletedElsewhere(m) ==
  /\ m \notin deleted /\ Tombstone(m)
  /\ UNCHANGED <<session, here, written, composer, editing, saving, deleteTarget, deleting, files,
                 hasty>>

(******************************** Files ***********************************)

Change(f, at) == upload' = [upload EXCEPT ![f].at = at]
Pane == <<session, here, written, spent, composer, edit, removal, hasty>>

AddFile(f) ==
  /\ AtPane /\ upload[f] = NoUpload
  /\ upload' = [upload EXCEPT ![f] = [NoUpload EXCEPT !.to = here, !.at = "slot"]]
  /\ UNCHANGED <<Pane, carried>>

\* requestUpload cannot be cancelled; the PUT is not begun after it.
SlotGiven(f) ==
  /\ upload[f].at = "slot" /\ Change(f, IF upload[f].cancelled THEN "gone" ELSE "put")
  /\ UNCHANGED <<Pane, carried>>

\* Both the PUT and run look at the signal.
StoredUnchecked(f) ==
  /\ upload[f].at = "put"
  /\ upload' = [upload EXCEPT ![f].uploaded = TRUE, ![f].at = "sending"]
  /\ UNCHANGED <<Pane, carried>>
Stored(f) ==
  /\ upload[f].at = "put"
  /\ upload' = [upload EXCEPT ![f].uploaded = TRUE,
                              ![f].at = IF upload[f].cancelled THEN "gone" ELSE "sending"]
  /\ UNCHANGED <<Pane, carried>>

\* A removed upload is not seen to fail.
Fails(f) ==
  /\ upload[f].at \in {"slot", "put", "sending"}
  /\ Change(f, IF upload[f].cancelled \/ upload[f].to = None THEN "gone" ELSE "failed")
  /\ carried' \in {carried} \cup (IF upload[f].at = "sending" THEN {carried \cup {f}} ELSE {})
  /\ UNCHANGED Pane

Carried(f) ==
  /\ upload[f].at = "sending" /\ Change(f, "sent") /\ carried' = carried \cup {f}
  /\ UNCHANGED Pane

Listed(f) == AtPane /\ upload[f].to = here /\ ~upload[f].cancelled

Cancel(f) ==
  /\ Listed(f) /\ upload[f].at \in {"slot", "put", "failed"}
  /\ upload' = [upload EXCEPT ![f].cancelled = (upload[f].at # "failed"),
                              ![f].at = IF upload[f].at = "failed" THEN "gone" ELSE upload[f].at]
  /\ UNCHANGED <<Pane, carried>>

\* A finished upload is not repeated.
Retry(f) ==
  /\ Listed(f) /\ upload[f].at = "failed"
  /\ Change(f, IF upload[f].uploaded THEN "sending" ELSE "slot") /\ UNCHANGED <<Pane, carried>>

-----------------------------------------------------------------------------
Next ==
  \/ Leave \/ Logout \/ LoggedOut \/ Expire \/ Erase \/ Submit \/ CancelReply
  \/ CancelEdit \/ Save \/ CancelDelete \/ ConfirmDelete
  \/ \E c \in Convs : Open(c)
  \/ \E u \in Users : Login(u)
  \/ \E t \in Texts : Type(t) \/ TypeEdit(t)
  \/ \E m \in Messages : Reply(m) \/ Edit(m) \/ AskDelete(m) \/ DeletedElsewhere(m)
  \/ \E s \in saving : Saved(s) \/ SaveFails(s)
  \/ \E d \in deleting : Deleted(d) \/ DeleteFails(d)
  \/ \E f \in Files :
       AddFile(f) \/ SlotGiven(f) \/ Stored(f) \/ Fails(f) \/ Carried(f) \/ Cancel(f) \/ Retry(f)

Spec == Init /\ [][Next]_vars

(****************************** Properties ********************************)

\* "An in-progress draft would otherwise follow the person into the next
\* conversation and could get sent to the wrong person" (ChatPane.tsx:271): a
\* text leaves for the chat it was begun in, as its author's, and answers a
\* message of that chat.
SentWhereWritten ==
  \A s \in sent :
    /\ written[s.text] = [by |-> s.by, for |-> s.to]
    /\ s.reply # None => In[s.reply] = s.to

\* A text begun is in the composer or the drafts, in the open form, on its way as
\* an edit, or its author is done with it; unless something else was opened while
\* an answer was awaited (ChatPane.tsx:835).
NothingWrittenLost ==
  hasty \/ \A t \in Texts :
    \/ written[t] = Fresh \/ t \in spent \/ t = form \/ t = draft
    \/ (\E k \in Users \X Convs : kept[k] = t) \/ (\E s \in saving : s[2] = t)

\* A cancelled upload is never sent (useAttachmentUploads.ts:93).
CancelledNeverSent == \A f \in Files : upload[f].cancelled => f \notin carried
=============================================================================
