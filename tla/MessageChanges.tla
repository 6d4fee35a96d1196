---------------------------- MODULE MessageChanges ----------------------------
(* What happens to one message after it was sent: edits, "delete for         *)
(* everyone", reactions, its link preview fetched late or dismissed, each a  *)
(* statement of its own whose outcome is mapped and announced afterwards,    *)
(* and what a screen that shows the message makes of the announcements.      *)
(* apps/api/src: messages/{messages,reactions}.service.ts, message-mapper.ts,*)
(* db/{messages,reactions}.ts, link-previews.service.ts; the caches of       *)
(* apps/web (messagesCache.ts, ChatPane.tsx) and apps/mobile (events.ts).    *)
EXTENDS Naturals, Sequences, FiniteSets, FiniteSetTheorems, TLAPS

CONSTANTS
  People,      \* who may react; all are members of the conversation
  Emojis, MaxDistinct, \* LIMITS.reactionsPerMessageMax
  Texts,       \* bodies; each has a link of its own
  MaxChanges,  \* bound on the changes asked for
  MaxCrashes,
  None

ASSUME ChangesAssumption == MaxDistinct \in Nat /\ MaxChanges \in Nat /\ MaxCrashes \in Nat

VARIABLES
  row,       \* the message's row
  reactions, \* its reactions: pairs of person and emoji
  files,     \* its attachment's rows and objects are there
  jobs,      \* requests at work: what they have read, and what is left to do
  fetches,   \* texts whose preview is being fetched
  pending,   \* what is to be announced, mapped or not
  wire,      \* announced, on the way to the screen
  shown,     \* what the screen shows
  changes, crashes

vars == <<row, reactions, files, jobs, fetches, pending, wire, shown, changes, crashes>>

Row == [body : Texts \cup {None}, deleted : BOOLEAN, preview : Texts \cup {None}, dismissed : BOOLEAN]
Sets == SUBSET (People \X Emojis)
Job == [do : {"edit"}, arg : Texts, had : {FALSE}] \cup [do : {"dismiss"}, arg : {None}, had : BOOLEAN]
       \cup [do : {"react"}, by : People, emoji : Emojis]
       \cup [do : {"files", "clear"}, row : Row]
Announcement == [kind : {"updated", "reactions"}, row : Row, mapped : BOOLEAN, reactions : Sets]

TypeOK ==
  /\ row \in Row /\ reactions \in Sets /\ files \in BOOLEAN
  /\ jobs \subseteq Job /\ fetches \subseteq Texts /\ pending \subseteq Announcement
  /\ wire \in Seq(Announcement) /\ shown \in [row : Row, reactions : Sets]
  /\ changes \in 0..MaxChanges /\ crashes \in 0..MaxCrashes

\* Just sent, without a file (then its preview is being fetched) or with one.
Init ==
  /\ \E t \in Texts : row = [body |-> t, deleted |-> FALSE, preview |-> None, dismissed |-> FALSE]
  /\ files \in BOOLEAN /\ fetches = (IF files THEN {} ELSE {row.body})
  /\ reactions = {} /\ jobs = {} /\ pending = {} /\ wire = <<>>
  /\ shown = [row |-> row, reactions |-> {}] /\ changes = 0 /\ crashes = 0

Start(job) == changes < MaxChanges /\ changes' = changes + 1 /\ jobs' = jobs \cup {job}
rest == <<row, reactions, files, fetches, pending, wire, shown, crashes>>

\* publishUpdated of the row a statement returned; reactions are read first.
Updated(r) == [kind |-> "updated", row |-> r, mapped |-> FALSE, reactions |-> {}]

(********************************* Edits **********************************)

\* edit(): read and checked, the mentions resolved, then written.
StartEdit(text) ==
  /\ ~row.deleted /\ row.body # text /\ Start([do |-> "edit", arg |-> text, had |-> FALSE])
  /\ UNCHANGED rest

\* editMessageBody: not of a deleted message; the preview goes with the text
\* it was made for.
EditBody(j) ==
  /\ j \in jobs /\ j.do = "edit" /\ jobs' = jobs \ {j}
  /\ IF row.deleted THEN UNCHANGED <<row, pending, fetches>>
     ELSE /\ row' = [row EXCEPT !.body = j.arg, !.preview = None]
          /\ pending' = pending \cup {Updated(row')}
          /\ fetches' = IF files THEN fetches ELSE fetches \cup {j.arg}
  /\ UNCHANGED <<reactions, files, wire, shown, changes, crashes>>

(******************************** Deleting ********************************)

\* softDeleteMessage; then the files, then the reactions, then the news.
Delete ==
  /\ ~row.deleted /\ row' = [row EXCEPT !.deleted = TRUE, !.body = None, !.preview = None,
                                        !.dismissed = FALSE]
  /\ Start([do |-> "files", row |-> row'])
  /\ UNCHANGED <<reactions, files, fetches, pending, wire, shown, crashes>>
DeleteFiles(j) ==
  /\ j \in jobs /\ j.do = "files" /\ files' = FALSE
  /\ jobs' = (jobs \ {j}) \cup {[do |-> "clear", row |-> j.row]}
  /\ UNCHANGED <<row, reactions, fetches, pending, wire, shown, changes, crashes>>
DeleteReactions(j) ==
  /\ j \in jobs /\ j.do = "clear" /\ reactions' = {} /\ jobs' = jobs \ {j}
  /\ pending' = pending \cup {Updated(j.row)}
  /\ UNCHANGED <<row, files, fetches, wire, shown, changes, crashes>>

(******************************* Reactions ********************************)

StartReact(p, e) ==
  /\ Start([do |-> "react", by |-> p, emoji |-> e]) /\ UNCHANGED rest

Used(rs) == {r[2] : r \in rs}
\* toggleReaction.
Toggled(p, e) ==
  IF <<p, e>> \in reactions THEN reactions \ {<<p, e>>}
  ELSE IF e \notin Used(reactions) /\ Cardinality(Used(reactions)) >= MaxDistinct THEN reactions
  ELSE reactions \cup {<<p, e>>}

\* toggle(): one transaction that holds the message's row.
ReactUnlocked(j) ==
  /\ j \in jobs /\ j.do = "react" /\ jobs' = jobs \ {j}
  /\ reactions' = Toggled(j.by, j.emoji)
  /\ pending' = IF reactions' = reactions THEN pending
                ELSE pending \cup {[Updated(row) EXCEPT !.kind = "reactions"]}
  /\ UNCHANGED <<row, files, fetches, wire, shown, changes, crashes>>
React(j) ==
  \/ ~row.deleted /\ ReactUnlocked(j)
  \/ /\ row.deleted /\ j \in jobs /\ j.do = "react" /\ jobs' = jobs \ {j}
     /\ UNCHANGED <<row, reactions, files, fetches, pending, wire, shown, changes, crashes>>

(****************************** Link previews *****************************)

\* setMessageLinkPreview, once the page was fetched (or came from the cache).
AttachLate(t) ==
  /\ t \in fetches /\ fetches' = fetches \ {t}
  /\ IF row.deleted \/ row.dismissed THEN UNCHANGED <<row, pending>>
     ELSE row' = [row EXCEPT !.preview = t] /\ pending' = pending \cup {Updated(row')}
  /\ UNCHANGED <<reactions, files, jobs, wire, shown, changes, crashes>>
Attach(t) ==
  /\ t \in fetches /\ fetches' = fetches \ {t}
  /\ IF row.deleted \/ row.dismissed \/ row.body # t THEN UNCHANGED <<row, pending>>
     ELSE row' = [row EXCEPT !.preview = t] /\ pending' = pending \cup {Updated(row')}
  /\ UNCHANGED <<reactions, files, jobs, wire, shown, changes, crashes>>
NoPreview(t) ==
  /\ t \in fetches /\ fetches' = fetches \ {t}
  /\ UNCHANGED <<row, reactions, files, jobs, pending, wire, shown, changes, crashes>>

\* removeFromMessage: announced only if there was one to see when it was read.
StartDismiss ==
  /\ Start([do |-> "dismiss", arg |-> None, had |-> row.preview # None]) /\ UNCHANGED rest
Dismiss(j) ==
  /\ j \in jobs /\ j.do = "dismiss" /\ jobs' = jobs \ {j}
  /\ IF row.deleted THEN UNCHANGED <<row, pending>>
     ELSE /\ row' = [row EXCEPT !.preview = None, !.dismissed = TRUE]
          /\ pending' = IF j.had THEN pending \cup {Updated(row')} ELSE pending
  /\ UNCHANGED <<reactions, files, fetches, wire, shown, changes, crashes>>

(************************ Announcing and showing **************************)

\* toMessages, listReactions: read when mapped; a tombstone has none.
MapRow(a) ==
  /\ a \in pending /\ ~a.mapped
  /\ pending' = (pending \ {a}) \cup {[a EXCEPT !.mapped = TRUE,
       !.reactions = IF a.kind = "updated" /\ a.row.deleted THEN {} ELSE reactions]}
  /\ UNCHANGED <<row, reactions, files, jobs, fetches, wire, shown, changes, crashes>>
Publish(a) ==
  /\ a \in pending /\ a.mapped /\ pending' = pending \ {a} /\ wire' = Append(wire, a)
  /\ UNCHANGED <<row, reactions, files, jobs, fetches, shown, changes, crashes>>

\* replaceMessage and setMessageReactions: what comes last is shown.
Receive ==
  /\ wire # <<>> /\ wire' = Tail(wire)
  /\ LET a == Head(wire) IN
     shown' = [row |-> IF a.kind = "updated" THEN a.row ELSE shown.row, reactions |-> a.reactions]
  /\ UNCHANGED <<row, reactions, files, jobs, fetches, pending, changes, crashes>>

\* A node dies with what it had not finished.
Crash ==
  /\ crashes < MaxCrashes /\ crashes' = crashes + 1
  /\ \E lost \in SUBSET jobs, unsaid \in SUBSET pending : jobs' = jobs \ lost /\ pending' = pending \ unsaid
  /\ fetches' \in SUBSET fetches
  /\ UNCHANGED <<row, reactions, files, wire, shown, changes>>

Next ==
  \/ \E t \in Texts : StartEdit(t) \/ Attach(t) \/ NoPreview(t)
  \/ \E p \in People, e \in Emojis : StartReact(p, e)
  \/ Delete \/ StartDismiss \/ Receive \/ Crash
  \/ \E j \in jobs : EditBody(j) \/ DeleteFiles(j) \/ DeleteReactions(j) \/ React(j) \/ Dismiss(j)
  \/ \E a \in pending : MapRow(a) \/ Publish(a)

Spec == Init /\ [][Next]_vars

(****************************** Properties ********************************)

\* "The content is removed" (messages.service.ts:230): once a delete is done,
\* nothing that was on its way brings back a text, a preview or a reaction.
DeletedIsGone ==
  row.deleted =>
    /\ row.body = None /\ row.preview = None
    /\ crashes = 0 /\ (\A j \in jobs : j.do \notin {"files", "clear"}) => reactions = {} /\ ~files

\* A preview belongs to the text that is there, and does not come back once
\* dismissed (db/messages.ts:248), in the row as on the screen.
PreviewFits ==
  \A r \in {row, shown.row} : r.preview # None => r.preview = r.body /\ ~r.dismissed /\ ~r.deleted

\* At most so many different emojis, however many react at once (reactions.ts:33).
FewEmojis == Cardinality(Used(reactions)) <= MaxDistinct

\* A deleted message stays empty whatever was on its way to it
\* (messages.service.ts:230), a preview is of the text that is there and stays
\* dismissed (db/messages.ts:248), the emojis stay few (reactions.ts:33).
ChangesSound == DeletedIsGone /\ PreviewFits /\ FewEmojis

\* "Immune to ordering races" (reactions.service.ts:21), which the
\* announcements are not: when all is quiet the screen shows what is stored.
ScreenSettles ==
  crashes = 0 /\ jobs = {} /\ fetches = {} /\ pending = {} /\ wire = <<>>
    => shown.row = row /\ (row.deleted \/ shown.reactions = reactions)

(******************************** Proofs **********************************)

\* A row whose preview is of its text, wherever the row is: stored, left to a
\* request, about to be announced, on the way, shown.
Fits(r) == r.preview # None => r.preview = r.body /\ ~r.dismissed /\ ~r.deleted

AllFit ==
  /\ Fits(row) /\ Fits(shown.row)
  /\ \A j \in jobs : j.do \in {"files", "clear"} => Fits(j.row)
  /\ \A a \in pending : Fits(a.row)
  /\ \A i \in 1..Len(wire) : Fits(wire[i].row)

Left(what) == \E j \in jobs : j.do \in what

\* A deleted message has no text; its files and its reactions are gone but for
\* what the request that deletes it has left to do.
Emptied ==
  row.deleted =>
    /\ row.body = None /\ row.preview = None
    /\ crashes = 0 =>
         (files => Left({"files"})) /\ (reactions # {} => Left({"files", "clear"}))

Few == IsFiniteSet(Used(reactions)) /\ Cardinality(Used(reactions)) <= MaxDistinct

IInv == TypeOK /\ AllFit /\ Emptied /\ Few

-----------------------------------------------------------------------------
(* Lemmas the actions share.                                                 *)

LEMMA UpdatedIs ==
  ASSUME NEW r \in Row
  PROVE  Updated(r) \in Announcement /\ Updated(r).row = r /\ ~Updated(r).mapped
BY DEF Updated, Announcement, Sets

\* A statement on the row whose result is announced, or not.
LEMMA RowWritten ==
  ASSUME IInv, NEW new \in Row, Fits(new), row' = new, jobs' \subseteq jobs,
         pending' \in {pending, pending \cup {Updated(new)}}, UNCHANGED <<wire, shown>>
  PROVE  pending' \subseteq Announcement /\ AllFit'
<1>1. pending' \subseteq Announcement
  BY UpdatedIs DEF IInv, TypeOK
<1>2. \A a \in pending' : Fits(a.row)
  BY UpdatedIs DEF IInv, AllFit
<1>3. Fits(row') /\ Fits(shown'.row) /\ (\A j \in jobs' : j.do \in {"files", "clear"} => Fits(j.row))
  BY DEF IInv, AllFit
<1>4. \A i \in 1..Len(wire') : Fits(wire'[i].row)
  BY DEF IInv, AllFit
<1> QED BY <1>1, <1>2, <1>3, <1>4 DEF AllFit, Fits

\* What is left to do for a deleted message is still left when another request
\* goes.
LEMMA StillLeft ==
  ASSUME NEW j \in jobs, j.do \notin {"files", "clear"}, jobs' = jobs \ {j}
  PROVE  /\ Left({"files"}) => Left({"files"})'
         /\ Left({"files", "clear"}) => Left({"files", "clear"})'
BY DEF Left

\* toggleReaction keeps within the limit.
LEMMA ToggledFew ==
  ASSUME Few, NEW p \in People, NEW e \in Emojis
  PROVE  /\ IsFiniteSet(Used(Toggled(p, e)))
         /\ Cardinality(Used(Toggled(p, e))) <= MaxDistinct
<1>1. CASE <<p, e>> \in reactions
  <2>1. Used(reactions \ {<<p, e>>}) \subseteq Used(reactions)
    BY DEF Used
  <2>2. /\ IsFiniteSet(Used(reactions \ {<<p, e>>}))
        /\ Cardinality(Used(reactions \ {<<p, e>>})) <= Cardinality(Used(reactions))
    BY <2>1, FS_Subset DEF Few
  <2>3. /\ Cardinality(Used(reactions \ {<<p, e>>})) \in Nat
        /\ Cardinality(Used(reactions)) \in Nat
    BY <2>2, FS_CardinalityType DEF Few
  <2>4. Toggled(p, e) = reactions \ {<<p, e>>}
    BY <1>1 DEF Toggled
  <2> QED BY <2>2, <2>3, <2>4, ChangesAssumption DEF Few
<1>2. CASE <<p, e>> \notin reactions /\ e \in Used(reactions)
  <2>1. Toggled(p, e) = reactions \cup {<<p, e>>}
    BY <1>2 DEF Toggled
  <2>2. Used(reactions \cup {<<p, e>>}) = Used(reactions)
    BY <1>2 DEF Used
  <2> QED BY <2>1, <2>2 DEF Few
<1>3. CASE <<p, e>> \notin reactions /\ e \notin Used(reactions)
  <2>1. CASE Cardinality(Used(reactions)) >= MaxDistinct
    BY <1>3, <2>1 DEF Few, Toggled
  <2>2. CASE ~(Cardinality(Used(reactions)) >= MaxDistinct)
    <3>1. Toggled(p, e) = reactions \cup {<<p, e>>}
      BY <1>3, <2>2 DEF Toggled
    <3>2. Used(reactions \cup {<<p, e>>}) = Used(reactions) \cup {e}
      <4>1. <<p, e>>[2] = e
        OBVIOUS
      <4>2. Used(reactions \cup {<<p, e>>}) = Used(reactions) \cup {<<p, e>>[2]}
        BY Zenon DEF Used
      <4> QED BY <4>1, <4>2
    <3>3. /\ IsFiniteSet(Used(reactions) \cup {e})
          /\ Cardinality(Used(reactions) \cup {e}) = Cardinality(Used(reactions)) + 1
      BY <1>3, FS_AddElement DEF Few
    <3>4. Cardinality(Used(reactions)) \in Nat
      BY FS_CardinalityType DEF Few
    <3> QED BY <2>2, <3>1, <3>2, <3>3, <3>4, ChangesAssumption
  <2> QED BY <2>1, <2>2
<1> QED BY <1>1, <1>2, <1>3

LEMMA NothingUsed == Used({}) = {} /\ IsFiniteSet({}) /\ Cardinality({}) = 0
BY FS_EmptySet DEF Used

(* One lemma for each action.                                                *)

LEMMA StartEditKeeps ==
  ASSUME IInv, NEW t \in Texts, StartEdit(t)
  PROVE  IInv'
<1>1. TypeOK'
  <2> DEFINE job == [do |-> "edit", arg |-> t, had |-> FALSE]
  <2>1. job \in Job
    BY DEF Job
  <2>2. jobs' = jobs \cup {job} /\ UNCHANGED rest
    BY DEF StartEdit, Start
  <2>3. changes' \in 0..MaxChanges
    BY ChangesAssumption DEF IInv, TypeOK, StartEdit, Start
  <2> HIDE DEF job
  <2> QED BY <2>1, <2>2, <2>3 DEF IInv, TypeOK, rest
<1>2. AllFit'
  BY DEF IInv, TypeOK, AllFit, Fits, StartEdit, Start, rest
<1>3. Emptied'
  BY DEF IInv, TypeOK, Emptied, Left, StartEdit, Start, rest
<1>4. Few'
  BY DEF IInv, Few, StartEdit, Start, rest
<1> QED BY <1>1, <1>2, <1>3, <1>4 DEF IInv

LEMMA EditBodyKeeps ==
  ASSUME IInv, NEW j \in jobs, EditBody(j)
  PROVE  IInv'
<1> DEFINE new == [row EXCEPT !.body = j.arg, !.preview = None]
<1>1. j.do = "edit" /\ jobs' = jobs \ {j} /\ UNCHANGED <<reactions, files, wire, shown, changes, crashes>>
  BY DEF EditBody
<1>2. CASE row.deleted
  <2>1. UNCHANGED <<row, pending, fetches>>
    BY <1>2 DEF EditBody
  <2>2. TypeOK'
    BY <1>1, <2>1 DEF IInv, TypeOK
  <2>3. AllFit'
    BY <1>1, <2>1 DEF IInv, AllFit, Fits
  <2>4. Emptied'
    BY <1>1, <2>1, StillLeft DEF IInv, Emptied
  <2> QED BY <1>1, <2>2, <2>3, <2>4 DEF IInv, Few
<1>3. CASE ~row.deleted
  <2>1. j.arg \in Texts
    BY <1>1 DEF IInv, TypeOK, Job
  <2>2. new \in Row /\ new.preview = None /\ ~new.deleted
    BY <1>3, <2>1 DEF IInv, TypeOK, Row
  <2>3. row' = new /\ pending' = pending \cup {Updated(new)}
    BY <1>3 DEF EditBody
  <2> HIDE DEF new
  <2>4. pending' \subseteq Announcement /\ AllFit'
    BY <1>1, <2>2, <2>3, RowWritten DEF Fits
  <2>5. fetches' \subseteq Texts
    BY <1>3, <2>1 DEF IInv, TypeOK, EditBody
  <2>6. TypeOK'
    BY <1>1, <2>2, <2>3, <2>4, <2>5 DEF IInv, TypeOK
  <2>7. Emptied' /\ Few'
    BY <1>1, <2>2, <2>3 DEF IInv, Emptied, Few
  <2> QED BY <2>4, <2>6, <2>7 DEF IInv
<1> QED BY <1>2, <1>3

LEMMA DeleteKeeps ==
  ASSUME IInv, Delete
  PROVE  IInv'
<1> DEFINE new == [row EXCEPT !.deleted = TRUE, !.body = None, !.preview = None, !.dismissed = FALSE]
<1> DEFINE job == [do |-> "files", row |-> new]
<1>1. /\ row' = new /\ jobs' = jobs \cup {job}
      /\ UNCHANGED <<reactions, files, fetches, pending, wire, shown, crashes>>
  BY DEF Delete, Start
<1>2. new \in Row /\ new.preview = None /\ new.body = None
  BY DEF IInv, TypeOK, Row
<1>3. job.do = "files" /\ job.row = new
  OBVIOUS
<1>4. job \in Job
  BY <1>2 DEF Job
<1>5. changes' \in 0..MaxChanges
  BY ChangesAssumption DEF IInv, TypeOK, Delete, Start
<1> HIDE DEF new, job
<1>6. TypeOK'
  BY <1>1, <1>2, <1>4, <1>5 DEF IInv, TypeOK
<1>7. AllFit'
  BY <1>1, <1>2, <1>3 DEF IInv, AllFit, Fits
<1>8. Emptied'
  BY <1>1, <1>2, <1>3 DEF Emptied, Left
<1>9. Few'
  BY <1>1 DEF IInv, Few
<1> QED BY <1>6, <1>7, <1>8, <1>9 DEF IInv

LEMMA DeleteFilesKeeps ==
  ASSUME IInv, NEW j \in jobs, DeleteFiles(j)
  PROVE  IInv'
<1> DEFINE job == [do |-> "clear", row |-> j.row]
<1>1. /\ j.do = "files" /\ files' = FALSE /\ jobs' = (jobs \ {j}) \cup {job}
      /\ UNCHANGED <<row, reactions, fetches, pending, wire, shown, changes, crashes>>
  BY DEF DeleteFiles
<1>2. j.row \in Row
  BY <1>1 DEF IInv, TypeOK, Job
<1>3. job \in Job /\ job.do = "clear" /\ job.row = j.row
  BY <1>2 DEF Job
<1> HIDE DEF job
<1>4. TypeOK'
  BY <1>1, <1>3 DEF IInv, TypeOK
<1>5. AllFit'
  BY <1>1, <1>3 DEF IInv, AllFit, Fits
<1>6. Emptied'
  BY <1>1, <1>3 DEF IInv, Emptied, Left
<1>7. Few'
  BY <1>1 DEF IInv, Few
<1> QED BY <1>4, <1>5, <1>6, <1>7 DEF IInv

LEMMA DeleteReactionsKeeps ==
  ASSUME IInv, NEW j \in jobs, DeleteReactions(j)
  PROVE  IInv'
<1>1. /\ j.do = "clear" /\ reactions' = {} /\ jobs' = jobs \ {j}
      /\ pending' = pending \cup {Updated(j.row)}
      /\ UNCHANGED <<row, files, fetches, wire, shown, changes, crashes>>
  BY DEF DeleteReactions
<1>2. j.row \in Row /\ Fits(j.row)
  BY <1>1 DEF IInv, TypeOK, AllFit, Job
<1>3. Updated(j.row) \in Announcement /\ Fits(Updated(j.row).row)
  BY <1>2, UpdatedIs
<1>4. TypeOK'
  BY <1>1, <1>3 DEF IInv, TypeOK, Sets
<1>5. AllFit'
  <2>1. \A a \in pending' : Fits(a.row)
    BY <1>1, <1>3 DEF IInv, AllFit
  <2> QED BY <1>1, <2>1 DEF IInv, AllFit, Fits
<1>6. Emptied'
  BY <1>1 DEF IInv, Emptied, Left
<1>7. Few'
  BY <1>1, NothingUsed, ChangesAssumption DEF Few
<1> QED BY <1>4, <1>5, <1>6, <1>7 DEF IInv

LEMMA StartReactKeeps ==
  ASSUME IInv, NEW p \in People, NEW e \in Emojis, StartReact(p, e)
  PROVE  IInv'
<1>1. TypeOK'
  <2> DEFINE job == [do |-> "react", by |-> p, emoji |-> e]
  <2>1. job \in Job
    BY DEF Job
  <2>2. jobs' = jobs \cup {job} /\ UNCHANGED rest
    BY DEF StartReact, Start
  <2>3. changes' \in 0..MaxChanges
    BY ChangesAssumption DEF IInv, TypeOK, StartReact, Start
  <2> HIDE DEF job
  <2> QED BY <2>1, <2>2, <2>3 DEF IInv, TypeOK, rest
<1>2. AllFit'
  BY DEF IInv, TypeOK, AllFit, Fits, StartReact, Start, rest
<1>3. Emptied'
  BY DEF IInv, TypeOK, Emptied, Left, StartReact, Start, rest
<1>4. Few'
  BY DEF IInv, Few, StartReact, Start, rest
<1> QED BY <1>1, <1>2, <1>3, <1>4 DEF IInv

LEMMA ReactKeeps ==
  ASSUME IInv, NEW j \in jobs, React(j)
  PROVE  IInv'
<1>1. /\ j.do = "react" /\ jobs' = jobs \ {j}
      /\ UNCHANGED <<row, files, fetches, wire, shown, changes, crashes>>
  BY DEF React, ReactUnlocked
<1>2. CASE row.deleted
  <2>1. UNCHANGED <<reactions, pending>>
    BY <1>2 DEF React
  <2>2. TypeOK'
    BY <1>1, <2>1 DEF IInv, TypeOK
  <2>3. AllFit'
    BY <1>1, <2>1 DEF IInv, AllFit, Fits
  <2>4. Emptied'
    BY <1>1, <2>1, StillLeft DEF IInv, Emptied
  <2> QED BY <2>1, <2>2, <2>3, <2>4 DEF IInv, Few
<1>3. CASE ~row.deleted
  <2> DEFINE news == [Updated(row) EXCEPT !.kind = "reactions"]
  <2>1. reactions' = Toggled(j.by, j.emoji) /\ pending' \subseteq pending \cup {news}
    BY <1>3 DEF React, ReactUnlocked
  <2>2. j.by \in People /\ j.emoji \in Emojis
    BY <1>1 DEF IInv, TypeOK, Job
  <2>3. news \in Announcement /\ news.row = row
    BY DEF IInv, TypeOK, Updated, Announcement, Sets
  <2> HIDE DEF news
  <2>4. reactions' \in Sets
    BY <2>1, <2>2 DEF IInv, TypeOK, Toggled, Sets
  <2>5. TypeOK'
    BY <1>1, <2>1, <2>3, <2>4 DEF IInv, TypeOK
  <2>6. AllFit'
    <3>1. \A a \in pending' : Fits(a.row)
      BY <2>1, <2>3 DEF IInv, AllFit
    <3> QED BY <1>1, <3>1 DEF IInv, AllFit, Fits
  <2>7. Emptied'
    BY <1>1, <1>3 DEF Emptied
  <2>8. Few'
    BY <2>1, <2>2, ToggledFew DEF IInv, Few
  <2> QED BY <2>5, <2>6, <2>7, <2>8 DEF IInv
<1> QED BY <1>2, <1>3

LEMMA AttachKeeps ==
  ASSUME IInv, NEW t \in Texts, Attach(t)
  PROVE  IInv'
<1> DEFINE new == [row EXCEPT !.preview = t]
<1>1. fetches' \subseteq fetches /\ UNCHANGED <<reactions, files, jobs, wire, shown, changes, crashes>>
  BY DEF Attach
<1>2. CASE row.deleted \/ row.dismissed \/ row.body # t
  <2>1. UNCHANGED <<row, pending>>
    BY <1>2 DEF Attach
  <2>2. TypeOK'
    BY <1>1, <2>1 DEF IInv, TypeOK
  <2>3. AllFit' /\ Emptied' /\ Few'
    BY <1>1, <2>1 DEF IInv, AllFit, Fits, Emptied, Left, Few
  <2> QED BY <2>2, <2>3 DEF IInv
<1>3. CASE ~row.deleted /\ ~row.dismissed /\ row.body = t
  <2>1. row' = new /\ pending' = pending \cup {Updated(new)}
    BY <1>3 DEF Attach
  <2>2. new \in Row /\ new.preview = t /\ new.body = t /\ ~new.deleted /\ ~new.dismissed
    BY <1>3 DEF IInv, TypeOK, Row
  <2> HIDE DEF new
  <2>3. pending' \subseteq Announcement /\ AllFit'
    BY <1>1, <2>1, <2>2, RowWritten DEF Fits
  <2>4. TypeOK'
    BY <1>1, <2>1, <2>2, <2>3 DEF IInv, TypeOK
  <2>5. Emptied' /\ Few'
    BY <1>1, <2>1, <2>2 DEF IInv, Emptied, Few
  <2> QED BY <2>3, <2>4, <2>5 DEF IInv
<1> QED BY <1>2, <1>3

LEMMA NoPreviewKeeps ==
  ASSUME IInv, NEW t \in Texts, NoPreview(t)
  PROVE  IInv'
<1>1. TypeOK'
  BY DEF IInv, TypeOK, NoPreview
<1>2. AllFit'
  BY DEF IInv, TypeOK, AllFit, Fits, NoPreview
<1>3. Emptied'
  BY DEF IInv, TypeOK, Emptied, Left, NoPreview
<1>4. Few'
  BY DEF IInv, Few, NoPreview
<1> QED BY <1>1, <1>2, <1>3, <1>4 DEF IInv

LEMMA StartDismissKeeps ==
  ASSUME IInv, StartDismiss
  PROVE  IInv'
<1>1. TypeOK'
  <2>1. [do |-> "dismiss", arg |-> None, had |-> row.preview # None] \in Job
    BY DEF Job
  <2> QED BY <2>1, ChangesAssumption DEF IInv, TypeOK, StartDismiss, Start, rest
<1>2. AllFit'
  BY DEF IInv, TypeOK, AllFit, Fits, StartDismiss, Start, rest
<1>3. Emptied'
  BY DEF IInv, TypeOK, Emptied, Left, StartDismiss, Start, rest
<1>4. Few'
  BY DEF IInv, Few, StartDismiss, Start, rest
<1> QED BY <1>1, <1>2, <1>3, <1>4 DEF IInv

LEMMA DismissKeeps ==
  ASSUME IInv, NEW j \in jobs, Dismiss(j)
  PROVE  IInv'
<1> DEFINE new == [row EXCEPT !.preview = None, !.dismissed = TRUE]
<1>1. /\ j.do = "dismiss" /\ jobs' = jobs \ {j}
      /\ UNCHANGED <<reactions, files, fetches, wire, shown, changes, crashes>>
  BY DEF Dismiss
<1>2. CASE row.deleted
  <2>1. UNCHANGED <<row, pending>>
    BY <1>2 DEF Dismiss
  <2>2. TypeOK'
    BY <1>1, <2>1 DEF IInv, TypeOK
  <2>3. AllFit'
    BY <1>1, <2>1 DEF IInv, AllFit, Fits
  <2>4. Emptied'
    BY <1>1, <2>1, StillLeft DEF IInv, Emptied
  <2> QED BY <1>1, <2>2, <2>3, <2>4 DEF IInv, Few
<1>3. CASE ~row.deleted
  <2>1. row' = new /\ pending' \in {pending, pending \cup {Updated(new)}}
    BY <1>3 DEF Dismiss
  <2>2. new \in Row /\ new.preview = None /\ ~new.deleted
    BY <1>3 DEF IInv, TypeOK, Row
  <2> HIDE DEF new
  <2>3. pending' \subseteq Announcement /\ AllFit'
    BY <1>1, <2>1, <2>2, RowWritten DEF Fits
  <2>4. TypeOK'
    BY <1>1, <2>1, <2>2, <2>3 DEF IInv, TypeOK
  <2>5. Emptied' /\ Few'
    BY <1>1, <2>1, <2>2 DEF IInv, Emptied, Few
  <2> QED BY <2>3, <2>4, <2>5 DEF IInv
<1> QED BY <1>2, <1>3

LEMMA MapRowKeeps ==
  ASSUME IInv, NEW a \in pending, MapRow(a)
  PROVE  IInv'
<1>1. PICK said \in Sets : pending' = (pending \ {a}) \cup {[a EXCEPT !.mapped = TRUE, !.reactions = said]}
  BY DEF IInv, TypeOK, MapRow, Sets
<1> DEFINE new == [a EXCEPT !.mapped = TRUE, !.reactions = said]
<1>2. UNCHANGED <<row, reactions, files, jobs, fetches, wire, shown, changes, crashes>>
  BY DEF MapRow
<1>3. new \in Announcement /\ new.row = a.row
  BY DEF IInv, TypeOK, Announcement
<1>4. pending' = (pending \ {a}) \cup {new}
  BY <1>1
<1> HIDE DEF new
<1>5. TypeOK'
  BY <1>2, <1>3, <1>4 DEF IInv, TypeOK
<1>6. AllFit'
  <2>1. \A b \in pending' : Fits(b.row)
    BY <1>3, <1>4 DEF IInv, AllFit
  <2> QED BY <1>2, <2>1 DEF IInv, AllFit, Fits
<1>7. Emptied' /\ Few'
  BY <1>2 DEF IInv, Emptied, Left, Few
<1> QED BY <1>5, <1>6, <1>7 DEF IInv

LEMMA PublishKeeps ==
  ASSUME IInv, NEW a \in pending, Publish(a)
  PROVE  IInv'
<1>1. TypeOK'
  <2>1. wire' \in Seq(Announcement) /\ pending' \subseteq Announcement
    BY DEF IInv, TypeOK, Publish
  <2> QED BY <2>1 DEF IInv, TypeOK, Publish
<1>2. AllFit'
  BY DEF IInv, TypeOK, AllFit, Fits, Publish
<1>3. Emptied'
  BY DEF IInv, TypeOK, Emptied, Left, Publish
<1>4. Few'
  BY DEF IInv, Few, Publish
<1> QED BY <1>1, <1>2, <1>3, <1>4 DEF IInv

LEMMA ReceiveKeeps ==
  ASSUME IInv, Receive
  PROVE  IInv'
<1>1. TypeOK'
  <2>1. wire # <<>> /\ wire' = Tail(wire) /\ Head(wire) \in Announcement /\ wire' \in Seq(Announcement)
    BY DEF IInv, TypeOK, Receive
  <2>2. Head(wire).row \in Row /\ Head(wire).reactions \in Sets
    BY <2>1 DEF Announcement
  <2>3. shown' \in [row : Row, reactions : Sets]
    BY <2>2 DEF IInv, TypeOK, Receive
  <2> QED BY <2>1, <2>3 DEF IInv, TypeOK, Receive
<1>2. AllFit'
  BY DEF IInv, TypeOK, AllFit, Fits, Receive
<1>3. Emptied'
  BY DEF IInv, TypeOK, Emptied, Left, Receive
<1>4. Few'
  BY DEF IInv, Few, Receive
<1> QED BY <1>1, <1>2, <1>3, <1>4 DEF IInv

LEMMA CrashKeeps ==
  ASSUME IInv, Crash
  PROVE  IInv'
<1>1. TypeOK'
  <2>1. crashes' \in 0..MaxCrashes
    BY ChangesAssumption DEF IInv, TypeOK, Crash
  <2>2. jobs' \subseteq jobs /\ pending' \subseteq pending /\ fetches' \subseteq fetches
    BY DEF Crash
  <2> QED BY <2>1, <2>2 DEF IInv, TypeOK, Crash
<1>2. AllFit'
  BY DEF IInv, TypeOK, AllFit, Fits, Crash
<1>3. Emptied'
  BY DEF IInv, TypeOK, Emptied, Left, Crash
<1>4. Few'
  BY DEF IInv, Few, Crash
<1> QED BY <1>1, <1>2, <1>3, <1>4 DEF IInv

LEMMA StutterKeeps ==
  ASSUME IInv, UNCHANGED vars
  PROVE  IInv'
<1>1. TypeOK' BY DEF IInv, TypeOK, vars
<1>2. AllFit' BY DEF IInv, AllFit, Fits, vars
<1>3. Emptied' /\ Few' BY DEF IInv, Emptied, Left, Few, vars
<1> QED BY <1>1, <1>2, <1>3 DEF IInv

LEMMA InitHolds ==
  ASSUME Init
  PROVE  IInv
<1>1. PICK t \in Texts : row = [body |-> t, deleted |-> FALSE, preview |-> None, dismissed |-> FALSE]
  BY DEF Init
<1>2. row \in Row /\ row.body = t /\ row.preview = None /\ ~row.deleted
  BY <1>1 DEF Row
<1>3. shown \in [row : Row, reactions : Sets] /\ shown.row = row
  BY <1>2 DEF Init, Sets
<1>4. TypeOK
  BY <1>2, <1>3, ChangesAssumption DEF Init, TypeOK, Sets
<1>5. AllFit
  BY <1>2, <1>3 DEF Init, AllFit, Fits
<1>6. Emptied
  BY <1>2 DEF Emptied
<1>7. Few
  <2>1. reactions = {}
    BY DEF Init
  <2>2. 0 <= MaxDistinct
    BY ChangesAssumption
  <2> QED BY <2>1, <2>2, NothingUsed DEF Few
<1> QED BY <1>4, <1>5, <1>6, <1>7 DEF IInv

-----------------------------------------------------------------------------
\* The inductive invariant: whatever a request, an announcement or a screen
\* still holds of the message is a row that was true of it once, and what a
\* deleted message still has is what its deletion has left to do.
THEOREM Invariant == Spec => []IInv
<1>1. IInv /\ [Next]_vars => IInv'
  <2> SUFFICES ASSUME IInv, [Next]_vars PROVE IInv'
    OBVIOUS
  <2>1. CASE \E t \in Texts : StartEdit(t) \/ Attach(t) \/ NoPreview(t)
    BY <2>1, StartEditKeeps, AttachKeeps, NoPreviewKeeps
  <2>2. CASE \E p \in People, e \in Emojis : StartReact(p, e)
    BY <2>2, StartReactKeeps
  <2>3. CASE Delete \/ StartDismiss \/ Receive \/ Crash
    BY <2>3, DeleteKeeps, StartDismissKeeps, ReceiveKeeps, CrashKeeps
  <2>4. CASE \E j \in jobs : \/ EditBody(j) \/ DeleteFiles(j) \/ DeleteReactions(j)
                             \/ React(j) \/ Dismiss(j)
    BY <2>4, EditBodyKeeps, DeleteFilesKeeps, DeleteReactionsKeeps, ReactKeeps, DismissKeeps
  <2>5. CASE \E a \in pending : MapRow(a) \/ Publish(a)
    BY <2>5, MapRowKeeps, PublishKeeps
  <2>6. CASE UNCHANGED vars
    BY <2>6, StutterKeeps
  <2> QED BY <2>1, <2>2, <2>3, <2>4, <2>5, <2>6 DEF Next
<1> QED BY <1>1, InitHolds, PTL DEF Spec

\* Rows, requests and announcements are what their schemas say.
THEOREM TypesHold == Spec => []TypeOK
BY Invariant, PTL DEF IInv

\* A deleted message stays empty whatever was on its way to it, a preview is of
\* the text that is there and stays dismissed, and the emojis stay few, for any
\* number of people, emojis, changes and crashed nodes.
THEOREM ChangesStaySound == Spec => []ChangesSound
<1>1. IInv => DeletedIsGone
  BY DEF IInv, TypeOK, Emptied, Left, DeletedIsGone
<1>2. IInv => PreviewFits
  BY DEF IInv, AllFit, Fits, PreviewFits
<1>3. IInv => FewEmojis
  BY DEF IInv, Few, FewEmojis
<1> QED BY <1>1, <1>2, <1>3, Invariant, PTL DEF ChangesSound
================================================================================
