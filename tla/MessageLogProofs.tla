--------------------------- MODULE MessageLogProofs ---------------------------
(***************************************************************************)
(* Proofs about MessageLog, for any number of people, conversations, ids   *)
(* and requests; and about the store, a file of it, for any number of      *)
(* slots and sends (Attachments), and the keys of an encrypted chat (E2ee)  *)
(* together, as composed in MCMessages.                                     *)
(***************************************************************************)
EXTENDS MCMessages, SequenceTheorems, TLAPS

-----------------------------------------------------------------------------
(* Types.                                                                  *)

ReqOK ==
  /\ req \in [Requests -> RequestStates]
  /\ \A r \in Requests : req[r].at # "idle" => req[r].conv \in Convs

LEMMA Names ==
  /\ \A s \in {"idle", "dedupe", "lock", "member", "insert", "commit",
               "publish", "answered", "markRead", "markUnread"} : s \in Steps
  /\ \A o \in {"none", "sent", "notMember", "idConflict", "uniqueViolation",
               "attachmentGone"} : o \in Outcomes
  /\ NoUser \in Authors /\ Users \subseteq Authors
  /\ NoId \in Ids /\ MsgIds \subseteq Ids
BY DEF Steps, SendSteps, MarkSteps, Outcomes, Authors, Ids

(* What is known of a running request.                                     *)
LEMMA Running ==
  ASSUME ReqOK, NEW r \in Requests
  PROVE  /\ req[r] \in RequestStates
         /\ req[r].conv \in Convs \cup {NoConv}
         /\ req[r].at # "idle" => req[r].conv \in Convs
         /\ req[r].user \in Authors
         /\ req[r].id \in Ids
         /\ req[r].seq \in Nat
BY DEF ReqOK, RequestStates

(* A request that moves on keeps its type, ...                             *)
LEMMA GotoType ==
  ASSUME ReqOK, NEW r \in Requests, req[r].at # "idle", NEW s \in Steps,
         Goto(r, s)
  PROVE  ReqOK'
BY DEF ReqOK, RequestStates, Goto

(* ... so does one that is answered, ...                                   *)
LEMMA AnswerType ==
  ASSUME ReqOK, NEW r \in Requests, req[r].at # "idle", NEW o \in Outcomes,
         Answer(r, o)
  PROVE  ReqOK'
<1>1. "answered" \in Steps
  BY Names
<1>. QED
  BY <1>1 DEF ReqOK, RequestStates, Answer

(* ... one that is given a position, ...                                   *)
LEMMA SeqType ==
  ASSUME ReqOK, NEW r \in Requests, req[r].at # "idle", NEW s \in Steps,
         NEW n \in Nat, req' = [req EXCEPT ![r].seq = n, ![r].at = s]
  PROVE  ReqOK'
BY DEF ReqOK, RequestStates

(* ... and one that starts or ends.                                        *)
LEMMA StartType ==
  ASSUME ReqOK, NEW r \in Requests, NEW s \in Steps, NEW c \in Convs,
         NEW u \in Authors, NEW k \in Ids, NEW n \in Nat,
         req' = [req EXCEPT ![r] = Request(s, c, u, k, n)]
  PROVE  ReqOK'
<1>1. Request(s, c, u, k, n) \in RequestStates
  BY Names DEF Request, RequestStates
<1>. QED
  BY <1>1 DEF ReqOK, Request

LEMMA IdleType == Idle \in RequestStates /\ Idle.at = "idle"
BY Names DEF Idle, Request, RequestStates

LEMMA EndType ==
  ASSUME ReqOK, NEW r \in Requests, req' = [req EXCEPT ![r] = Idle]
  PROVE  ReqOK'
BY IdleType DEF ReqOK

LEMMA TypeInit == Init => TypeOK
BY IdleType DEF Init, TypeOK

LEMMA TypeStep == TypeOK /\ [Next]_vars => TypeOK'
<1>. SUFFICES ASSUME TypeOK, [Next]_vars
              PROVE  TypeOK'
  OBVIOUS
<1>a. ReqOK
  BY DEF TypeOK, ReqOK
<1>b. ASSUME ReqOK', UNCHANGED Tables, published' \subseteq Rows
      PROVE  TypeOK'
  BY <1>b DEF TypeOK, ReqOK, Tables
<1>c. ASSUME ReqOK', UNCHANGED <<Tables, published>>
      PROVE  TypeOK'
  <2>1. published' \subseteq Rows
    BY <1>c DEF TypeOK
  <2>. QED
    BY <1>b, <1>c, <2>1
<1>1. ASSUME NEW r \in Requests, NEW c \in Convs, StartSystem(r, c)
      PROVE  TypeOK'
  <2>1. ReqOK'
    BY <1>1, <1>a, Names, StartType DEF StartSystem
  <2>. QED
    BY <1>1, <1>c, <2>1 DEF StartSystem
<1>2. ASSUME NEW r \in Requests, NEW u \in Users, NEW c \in Convs,
             NEW k \in MsgIds, StartSend(r, u, c, k)
      PROVE  TypeOK'
  <2>1. ReqOK'
    BY <1>2, <1>a, Names, StartType DEF StartSend
  <2>. QED
    BY <1>2, <1>c, <2>1 DEF StartSend
<1>3. ASSUME NEW r \in Requests, Dedupe(r)
      PROVE  TypeOK'
  <2>1. req[r].at # "idle"
    BY <1>3 DEF Dedupe
  <2>2. ASSUME Goto(r, "lock")
        PROVE  ReqOK'
    BY <1>a, <2>1, <2>2, Names, GotoType
  <2>3. ASSUME NEW m \in rows, req' = [req EXCEPT ![r].at = "publish",
                                                  ![r].seq = m.seq]
        PROVE  ReqOK'
    <3>1. m.seq \in Nat /\ "publish" \in Steps
      BY Names DEF TypeOK, Rows
    <3>. QED
      BY <1>a, <2>1, <2>3, <3>1 DEF ReqOK, RequestStates
  <2>4. ASSUME Answer(r, "idConflict")
        PROVE  ReqOK'
    BY <1>a, <2>1, <2>4, Names, AnswerType
  <2>5. ReqOK'
    BY <1>3, <2>2, <2>3, <2>4 DEF Dedupe, SentAs
  <2>. QED
    BY <1>3, <1>c, <2>5 DEF Dedupe
<1>4. ASSUME NEW r \in Requests, LockConversation(r)
      PROVE  TypeOK'
  <2>. DEFINE s == IF req[r].user = NoUser THEN "insert" ELSE "member"
  <2>1. req[r].at # "idle"
    BY <1>4 DEF LockConversation
  <2>2. lastSeq[req[r].conv] + 1 \in Nat
    BY <1>a, <2>1, Running DEF TypeOK
  <2>3. s \in Steps
    BY Names
  <2>4. ReqOK'
    BY <1>4, <1>a, <2>1, <2>2, <2>3, SeqType DEF LockConversation
  <2>. QED
    BY <1>4, <1>c, <2>4 DEF LockConversation
<1>5. ASSUME NEW r \in Requests, CheckMember(r)
      PROVE  TypeOK'
  <2>1. req[r].at # "idle"
    BY <1>5 DEF CheckMember
  <2>2. CASE Goto(r, "insert")
    BY <1>a, <1>c, <1>5, <2>1, <2>2, Names, GotoType DEF CheckMember
  <2>3. CASE Answer(r, "notMember")
    BY <1>a, <1>c, <1>5, <2>1, <2>3, Names, AnswerType DEF CheckMember
  <2>. QED
    BY <1>5, <2>2, <2>3 DEF CheckMember
<1>6. ASSUME NEW r \in Requests, InsertRow(r)
      PROVE  TypeOK'
  <2>1. req[r].at # "idle"
    BY <1>6 DEF InsertRow
  <2>2. ReqOK'
    BY <1>6, <1>a, <2>1, Names, GotoType DEF InsertRow
  <2>. QED
    BY <1>6, <1>c, <2>2 DEF InsertRow
<1>7. ASSUME NEW r \in Requests, InsertRefused(r)
      PROVE  TypeOK'
  <2>1. req[r].at # "idle"
    BY <1>7 DEF InsertRefused
  <2>2. ReqOK'
    BY <1>7, <1>a, <2>1, Names, AnswerType DEF InsertRefused
  <2>. QED
    BY <1>7, <1>c, <2>2 DEF InsertRefused
<1>8. ASSUME NEW r \in Requests, AttachmentGone(r)
      PROVE  TypeOK'
  <2>1. req[r].at # "idle"
    BY <1>8 DEF AttachmentGone
  <2>2. ReqOK'
    BY <1>8, <1>a, <2>1, Names, AnswerType DEF AttachmentGone
  <2>. QED
    BY <1>8, <1>c, <2>2 DEF AttachmentGone
<1>9. ASSUME NEW r \in Requests, Commit(r)
      PROVE  TypeOK'
  <2>1. req[r].at # "idle"
    BY <1>9 DEF Commit
  <2>2. ReqOK'
    BY <1>9, <1>a, <2>1, Names, GotoType DEF Commit
  <2>3. NewRow(r) \in Rows /\ req[r].seq \in Nat
    BY <1>a, <2>1, Running DEF NewRow, Rows
  <2>4. lastSeq' \in [Convs -> Nat]
    BY <1>9, <2>3 DEF Commit, TypeOK
  <2>5. lastRead' \in [Convs -> [Users -> Nat]]
    BY <1>9, <2>3 DEF Commit, TypeOK
  <2>. QED
    BY <1>9, <2>2, <2>3, <2>4, <2>5 DEF Commit, TypeOK, ReqOK
<1>10. ASSUME NEW r \in Requests, Publish(r)
       PROVE  TypeOK'
  <2>1. req[r].at # "idle"
    BY <1>10 DEF Publish
  <2>2. ReqOK'
    BY <1>10, <1>a, <2>1, Names, AnswerType DEF Publish
  <2>3. NewRow(r) \in Rows
    BY <1>a, <2>1, Running DEF NewRow, Rows
  <2>4. published' \subseteq Rows
    BY <1>10, <2>3 DEF Publish, TypeOK
  <2>. QED
    BY <1>10, <1>b, <2>2, <2>4 DEF Publish
<1>11. ASSUME NEW r \in Requests, Finish(r)
       PROVE  TypeOK'
  <2>1. ReqOK'
    BY <1>11, <1>a, EndType DEF Finish
  <2>. QED
    BY <1>11, <1>c, <2>1 DEF Finish
<1>12. ASSUME NEW r \in Requests, Crash(r)
       PROVE  TypeOK'
  <2>1. ReqOK'
    BY <1>12, <1>a, EndType DEF Crash
  <2>. QED
    BY <1>12, <1>c, <2>1 DEF Crash
<1>13. ASSUME NEW r \in Requests, NEW u \in Users, NEW c \in Convs,
              NEW n \in Positions, StartMarkRead(r, u, c, n)
       PROVE  TypeOK'
  <2>. DEFINE clamped == IF n < lastSeq[c] THEN n ELSE lastSeq[c]
  <2>1. clamped \in Nat
    BY DEF TypeOK, Positions
  <2>2. ReqOK'
    BY <1>13, <1>a, <2>1, Names, StartType DEF StartMarkRead
  <2>. QED
    BY <1>13, <1>c, <2>2 DEF StartMarkRead
<1>14. ASSUME NEW r \in Requests, NEW u \in Users, NEW c \in Convs,
              StartMarkUnread(r, u, c)
       PROVE  TypeOK'
  <2>0. lastSeq[c] \in Nat /\ lastSeq[c] # 0
    BY <1>14 DEF StartMarkUnread, TypeOK
  <2>1. lastSeq[c] - 1 \in Nat
    BY <2>0
  <2>2. ReqOK'
    BY <1>14, <1>a, <2>1, Names, StartType DEF StartMarkUnread
  <2>. QED
    BY <1>14, <1>c, <2>2 DEF StartMarkUnread
<1>15. ASSUME NEW r \in Requests, MarkRead(r)
       PROVE  TypeOK'
  <2>1. ReqOK'
    BY <1>15, <1>a, EndType DEF MarkRead
  <2>2. req[r].conv \in Convs /\ req[r].seq \in Nat
    BY <1>15, <1>a, Running DEF MarkRead
  <2>3. members[req[r].conv] \subseteq Users
    BY <2>2 DEF TypeOK
  <2>4. lastRead' \in [Convs -> [Users -> Nat]]
    BY <1>15, <2>2, <2>3 DEF MarkRead, TypeOK
  <2>. QED
    BY <1>15, <2>1, <2>4 DEF MarkRead, TypeOK, ReqOK
<1>16. ASSUME NEW r \in Requests, MarkUnread(r)
       PROVE  TypeOK'
  <2>1. ReqOK'
    BY <1>16, <1>a, EndType DEF MarkUnread
  <2>2. req[r].conv \in Convs /\ req[r].seq \in Nat
    BY <1>16, <1>a, Running DEF MarkUnread
  <2>3. members[req[r].conv] \subseteq Users
    BY <2>2 DEF TypeOK
  <2>4. lastRead' \in [Convs -> [Users -> Nat]]
    BY <1>16, <2>2, <2>3 DEF MarkUnread, TypeOK
  <2>. QED
    BY <1>16, <2>1, <2>4 DEF MarkUnread, TypeOK, ReqOK
<1>17. ASSUME NEW u \in Users, NEW c \in Convs, Leave(u, c)
       PROVE  TypeOK'
  <2>1. members' \in [Convs -> SUBSET Users]
    BY <1>17 DEF Leave, TypeOK
  <2>. QED
    BY <1>17, <2>1 DEF Leave, TypeOK
<1>18. ASSUME NEW u \in Users, NEW c \in Convs, Join(u, c)
       PROVE  TypeOK'
  <2>1. members' \in [Convs -> SUBSET Users]
    BY <1>18 DEF Join, TypeOK
  <2>. QED
    BY <1>18, <2>1 DEF Join, TypeOK
<1>19. CASE UNCHANGED vars
  BY <1>19 DEF vars, TypeOK
<1>. QED
  BY <1>1, <1>2, <1>3, <1>4, <1>5, <1>6, <1>7, <1>8, <1>9,
     <1>10, <1>11, <1>12, <1>13, <1>14, <1>15, <1>16, <1>17, <1>18, <1>19 DEF Next, Step

(* Every variable keeps its type.                                          *)
THEOREM TypeCorrect == Spec => []TypeOK
<1>. QED
  BY TypeInit, TypeStep, PTL DEF Spec

-----------------------------------------------------------------------------
(* The tables.  None of the properties of the tables is inductive: why a   *)
(* message that is committed next has the next position and a fresh id is  *)
(* known only to the transaction, which has held the row lock since it was *)
(* given the position and the key since it inserted the row.  So the       *)
(* invariant that carries over is all of them together with what the       *)
(* running requests may rely on (TransactionsOrdered).                     *)

(* GaplessLog for one row and one position at a time.                      *)
RowsPlaced == \A m \in rows : m.seq \in 1..lastSeq[m.conv]
PlacesFilled ==
  \A c \in Convs : \A i \in 1..lastSeq[c] :
    \E m \in rows : m.conv = c /\ m.seq = i
PlacesSingle ==
  \A m, n \in rows : m.conv = n.conv /\ m.seq = n.seq => m = n

LEMMA GaplessByPlace ==
  ASSUME TypeOK
  PROVE  GaplessLog <=> RowsPlaced /\ PlacesFilled /\ PlacesSingle
<1>. DEFINE Seqs(c) == {m.seq : m \in {n \in rows : n.conv = c}}
<1>1. \A m \in rows : m.conv \in Convs
  BY DEF TypeOK, Rows
<1>2. (\A c \in Convs : Seqs(c) = 1..lastSeq[c]) <=> RowsPlaced /\ PlacesFilled
  <2>1. ASSUME \A c \in Convs : Seqs(c) = 1..lastSeq[c]
        PROVE  RowsPlaced /\ PlacesFilled
    BY <1>1, <2>1 DEF RowsPlaced, PlacesFilled
  <2>2. ASSUME RowsPlaced, PlacesFilled, NEW c \in Convs
        PROVE  Seqs(c) = 1..lastSeq[c]
    BY <1>1, <2>2 DEF RowsPlaced, PlacesFilled
  <2>. QED
    BY <2>1, <2>2
<1>. QED
  BY <1>2 DEF GaplessLog, PlacesSingle

(* What a request may rely on, by itself and against the others.           *)
ReqInv(r) ==
  /\ InTx(r) => req[r].seq = lastSeq[req[r].conv] + 1
  /\ req[r].at = "commit" /\ req[r].user # NoUser =>
       SentAs(req[r].user, req[r].id) = {}
  /\ req[r].at = "publish" => NewRow(r) \in rows
  /\ req[r].at = "markRead" => req[r].seq <= lastSeq[req[r].conv]
  /\ req[r].at = "answered" /\ req[r].outcome = "sent" =>
       NewRow(r) \in rows \cap published

Apart(r, q) ==
  /\ InTx(r) /\ InTx(q) => req[r].conv # req[q].conv
  /\ req[r].at = "commit" /\ req[q].at = "commit" /\ req[r].user # NoUser =>
       req[r].user # req[q].user \/ req[r].id # req[q].id

TableInv ==
  /\ RowsPlaced /\ PlacesFilled /\ PlacesSingle
  /\ SentOnce
  /\ AnnouncedIsCommitted
  /\ ReadWithinLog

Inv ==
  /\ TableInv
  /\ \A r \in Requests : ReqInv(r)
  /\ \A r, q \in Requests : r # q => Apart(r, q)

(* Inv is what the runs check, put differently.                            *)
LEMMA InvMeaning ==
  ASSUME TypeOK
  PROVE  Inv => /\ GaplessLog /\ SentOnce /\ AnnouncedIsCommitted
                /\ SentIsLoggedAndAnnounced /\ ReadWithinLog
                /\ TransactionsOrdered
<1>. SUFFICES ASSUME Inv
              PROVE  /\ GaplessLog /\ SentOnce /\ AnnouncedIsCommitted
                     /\ SentIsLoggedAndAnnounced /\ ReadWithinLog
                     /\ TransactionsOrdered
  OBVIOUS
<1>1. GaplessLog
  BY GaplessByPlace DEF Inv, TableInv
<1>2. SentIsLoggedAndAnnounced /\ AnnouncesItsRow /\ MarksWithinLog
  BY DEF Inv, ReqInv, SentIsLoggedAndAnnounced, AnnouncesItsRow, MarksWithinLog
<1>3. LocksHeld
  BY DEF Inv, ReqInv, Apart, LocksHeld, HoldsLock
<1>4. KeysHeld
  BY DEF Inv, ReqInv, Apart, KeysHeld, HoldsKey
<1>. QED
  BY <1>1, <1>2, <1>3, <1>4 DEF Inv, TableInv, TransactionsOrdered

LEMMA InvInit == Init => Inv
<1>. SUFFICES ASSUME Init
              PROVE  Inv
  OBVIOUS
<1>1. TableInv
  BY DEF Init, TableInv, RowsPlaced, PlacesFilled, PlacesSingle, SentOnce,
         AnnouncedIsCommitted, ReadWithinLog
<1>2. \A r \in Requests : req[r].at = "idle"
  BY IdleType DEF Init
<1>3. \A r \in Requests : ReqInv(r)
  BY <1>2 DEF ReqInv, InTx
<1>4. \A r, q \in Requests : r # q => Apart(r, q)
  BY <1>2 DEF Apart, InTx
<1>. QED
  BY <1>1, <1>3, <1>4 DEF Inv

(* What a request relies on stays true while it stands still, whatever     *)
(* the others commit, as long as that is not in its conversation while it  *)
(* holds the lock, nor under its id while it holds the key.                *)
LEMMA StandingStill ==
  ASSUME TypeOK, NEW r \in Requests, ReqInv(r), req'[r] = req[r],
         rows \subseteq rows', published \subseteq published',
         \A c \in Convs : lastSeq[c] <= lastSeq'[c] /\ lastSeq'[c] \in Nat,
         InTx(r) => lastSeq'[req[r].conv] = lastSeq[req[r].conv],
         req[r].at = "commit" /\ req[r].user # NoUser =>
           SentAs(req[r].user, req[r].id)' = {}
  PROVE  ReqInv(r)'
<1>a. ReqOK
  BY DEF TypeOK, ReqOK
<1>1. req[r].at # "idle" => req[r].conv \in Convs /\ req[r].seq \in Nat
  BY <1>a, Running
<1>2. InTx(r)' => req'[r].seq = lastSeq'[req'[r].conv] + 1
  BY DEF ReqInv, InTx
<1>3. req[r].at = "markRead" => req[r].seq <= lastSeq'[req[r].conv]
  <2>. SUFFICES ASSUME req[r].at = "markRead"
                PROVE  req[r].seq <= lastSeq'[req[r].conv]
    OBVIOUS
  <2>1. req[r].seq <= lastSeq[req[r].conv]
    BY DEF ReqInv
  <2>2. lastSeq[req[r].conv] <= lastSeq'[req[r].conv]
    BY <1>1
  <2>3. /\ req[r].seq \in Nat /\ lastSeq[req[r].conv] \in Nat
        /\ lastSeq'[req[r].conv] \in Nat
    BY <1>1 DEF TypeOK
  <2>. QED
    BY <2>1, <2>2, <2>3
<1>4. NewRow(r)' = NewRow(r)
  BY DEF NewRow
<1>. QED
  BY <1>2, <1>3, <1>4 DEF ReqInv

(* A step that leaves the tables alone, of one request: only that request  *)
(* has anything to show.                                                   *)
LEMMA RequestStep ==
  ASSUME TypeOK, Inv, NEW r \in Requests,
         \A q \in Requests \ {r} : req'[q] = req[q],
         UNCHANGED Tables, published \subseteq published', published' \subseteq rows,
         ReqInv(r)',
         InTx(r)' => \A q \in Requests \ {r} :
           InTx(q) => req[q].conv # req'[r].conv,
         req'[r].at = "commit" /\ req'[r].user # NoUser =>
           \A q \in Requests \ {r} :
             req[q].at = "commit" =>
               req[q].user # req'[r].user \/ req[q].id # req'[r].id
  PROVE  Inv'
<1>1. TableInv'
  BY DEF Inv, TableInv, RowsPlaced, PlacesFilled, PlacesSingle, SentOnce,
         AnnouncedIsCommitted, ReadWithinLog, Tables
<1>2. ASSUME NEW q \in Requests
      PROVE  ReqInv(q)'
  <2>1. CASE q = r
    BY <2>1
  <2>2. CASE q # r
    <3>1. req'[q] = req[q] /\ ReqInv(q)
      BY <2>2 DEF Inv
    <3>2. \A c \in Convs : lastSeq[c] <= lastSeq'[c] /\ lastSeq'[c] \in Nat
      BY DEF Tables, TypeOK
    <3>3. rows' = rows /\ lastSeq' = lastSeq
      BY DEF Tables
    <3>4. SentAs(req[q].user, req[q].id)' = SentAs(req[q].user, req[q].id)
      BY <3>1, <3>3 DEF SentAs
    <3>5. req[q].at = "commit" /\ req[q].user # NoUser =>
            SentAs(req[q].user, req[q].id)' = {}
      BY <3>1, <3>4 DEF ReqInv
    <3>. QED
      BY <3>1, <3>2, <3>3, <3>5, StandingStill
  <2>. QED
    BY <2>1, <2>2
<1>3. ASSUME NEW p \in Requests, NEW q \in Requests, p # q
      PROVE  Apart(p, q)'
  <2>1. CASE p = r
    BY <1>3, <2>1 DEF Apart, InTx
  <2>2. CASE q = r
    BY <1>3, <2>2 DEF Apart, InTx
  <2>3. CASE p # r /\ q # r
    <3>1. req'[p] = req[p] /\ req'[q] = req[q] /\ Apart(p, q)
      BY <1>3, <2>3 DEF Inv
    <3>. QED
      BY <3>1 DEF Apart, InTx
  <2>. QED
    BY <2>1, <2>2, <2>3
<1>. QED
  BY <1>1, <1>2, <1>3 DEF Inv

(* The steps of a send before its commit.                                  *)
LEMMA DedupeKeepsInv ==
  ASSUME TypeOK, Inv, NEW r \in Requests, Dedupe(r)
  PROVE  Inv'
<1>a. req \in [Requests -> RequestStates]
  BY DEF TypeOK
<1>b. UNCHANGED Tables /\ published' = published /\ published \subseteq rows
  BY DEF Dedupe, Inv, TableInv, AnnouncedIsCommitted
<1>1. \A q \in Requests \ {r} : req'[q] = req[q]
  BY <1>a DEF Dedupe, Goto, Answer
<1>2. \/ req'[r].at = "lock"
      \/ req'[r].at = "answered" /\ req'[r].outcome = "idConflict"
      \/ /\ req'[r].at = "publish"
         /\ \E m \in SentAs(req[r].user, req[r].id) :
              /\ m.conv = req[r].conv
              /\ req'[r] = [req[r] EXCEPT !.at = "publish", !.seq = m.seq]
  BY <1>a DEF Dedupe, Goto, Answer, RequestStates
<1>3. ASSUME req'[r].at = "publish"
      PROVE  NewRow(r)' \in rows'
  <2>1. PICK m \in rows :
          /\ m.sender = req[r].user /\ m.id = req[r].id /\ m.conv = req[r].conv
          /\ req'[r] = [req[r] EXCEPT !.at = "publish", !.seq = m.seq]
    BY <1>2, <1>3 DEF SentAs
  <2>2. m \in Rows
    BY DEF TypeOK
  <2>3. NewRow(r)' = m
    BY <1>a, <2>1, <2>2 DEF NewRow, Rows, RequestStates
  <2>. QED
    BY <1>b, <2>3 DEF Tables
<1>4. ReqInv(r)'
  BY <1>2, <1>3 DEF ReqInv, InTx
<1>. QED
  BY <1>b, <1>1, <1>2, <1>4, RequestStep DEF InTx

LEMMA LockKeepsInv ==
  ASSUME TypeOK, Inv, NEW r \in Requests, LockConversation(r)
  PROVE  Inv'
<1>a. req \in [Requests -> RequestStates]
  BY DEF TypeOK
<1>b. UNCHANGED Tables /\ published' = published /\ published \subseteq rows
  BY DEF LockConversation, Inv, TableInv, AnnouncedIsCommitted
<1>1. \A q \in Requests \ {r} : req'[q] = req[q]
  BY <1>a DEF LockConversation
<1>2. /\ req'[r].at \in {"insert", "member"}
      /\ req'[r].conv = req[r].conv
      /\ req'[r].seq = lastSeq[req[r].conv] + 1
  BY <1>a DEF LockConversation, RequestStates
<1>3. ReqInv(r)'
  BY <1>b, <1>2 DEF ReqInv, InTx, Tables
<1>4. \A q \in Requests \ {r} : InTx(q) => req[q].conv # req'[r].conv
  BY <1>2 DEF LockConversation, HoldsLock
<1>. QED
  BY <1>b, <1>1, <1>2, <1>3, <1>4, RequestStep

LEMMA CheckMemberKeepsInv ==
  ASSUME TypeOK, Inv, NEW r \in Requests, CheckMember(r)
  PROVE  Inv'
<1>a. req \in [Requests -> RequestStates]
  BY DEF TypeOK
<1>b. UNCHANGED Tables /\ published' = published /\ published \subseteq rows
  BY DEF CheckMember, Inv, TableInv, AnnouncedIsCommitted
<1>1. \A q \in Requests \ {r} : req'[q] = req[q]
  BY <1>a DEF CheckMember, Goto, Answer
<1>2. \/ req'[r].at = "insert"
      \/ req'[r].at = "answered" /\ req'[r].outcome = "notMember"
  BY <1>a DEF CheckMember, Goto, Answer, RequestStates
<1>3. InTx(r) /\ req'[r].conv = req[r].conv /\ req'[r].seq = req[r].seq
  BY <1>a DEF CheckMember, Goto, Answer, RequestStates, InTx
<1>4. ReqInv(r)'
  BY <1>b, <1>2, <1>3 DEF Inv, ReqInv, InTx, Tables
<1>5. \A q \in Requests \ {r} : InTx(q) => req[q].conv # req'[r].conv
  BY <1>3 DEF Inv, Apart
<1>. QED
  BY <1>b, <1>1, <1>2, <1>4, <1>5, RequestStep

LEMMA InsertKeepsInv ==
  ASSUME TypeOK, Inv, NEW r \in Requests, InsertRow(r)
  PROVE  Inv'
<1>a. req \in [Requests -> RequestStates]
  BY DEF TypeOK
<1>b. UNCHANGED Tables /\ published' = published /\ published \subseteq rows
  BY DEF InsertRow, Inv, TableInv, AnnouncedIsCommitted
<1>1. \A q \in Requests \ {r} : req'[q] = req[q]
  BY <1>a DEF InsertRow, Goto
<1>2. req'[r] = [req[r] EXCEPT !.at = "commit"] /\ InTx(r)
  BY <1>a DEF InsertRow, Goto, InTx
<1>3. /\ req'[r].at = "commit" /\ req'[r].conv = req[r].conv
      /\ req'[r].seq = req[r].seq /\ req'[r].user = req[r].user
      /\ req'[r].id = req[r].id
  BY <1>a, <1>2 DEF RequestStates
<1>4. ASSUME req[r].user # NoUser
      PROVE  /\ SentAs(req[r].user, req[r].id) = {}
             /\ \A q \in Requests : ~HoldsKey(q, req[r].user, req[r].id)
  BY <1>4 DEF InsertRow
<1>5. ReqInv(r)'
  <2>1. req'[r].user # NoUser => SentAs(req[r].user, req[r].id)' = {}
    BY <1>b, <1>3, <1>4 DEF SentAs, Tables
  <2>2. req[r].seq = lastSeq[req[r].conv] + 1
    BY <1>2 DEF Inv, ReqInv
  <2>. QED
    BY <1>b, <1>3, <2>1, <2>2 DEF ReqInv, InTx, Tables
<1>6. \A q \in Requests \ {r} : InTx(q) => req[q].conv # req'[r].conv
  BY <1>2, <1>3 DEF Inv, Apart
<1>7. req'[r].user # NoUser =>
        \A q \in Requests \ {r} :
          req[q].at = "commit" =>
            req[q].user # req'[r].user \/ req[q].id # req'[r].id
  BY <1>3, <1>4 DEF HoldsKey
<1>. QED
  BY <1>b, <1>1, <1>5, <1>6, <1>7, RequestStep

(* Announcing, answering, giving up.                                       *)
LEMMA PublishKeepsInv ==
  ASSUME TypeOK, Inv, NEW r \in Requests, Publish(r)
  PROVE  Inv'
<1>a. req \in [Requests -> RequestStates]
  BY DEF TypeOK
<1>1. \A q \in Requests \ {r} : req'[q] = req[q]
  BY <1>a DEF Publish, Answer
<1>2. /\ req'[r].at = "answered" /\ req'[r].conv = req[r].conv
      /\ req'[r].seq = req[r].seq /\ req'[r].user = req[r].user
      /\ req'[r].id = req[r].id
  BY <1>a DEF Publish, Answer, RequestStates
<1>3. NewRow(r) \in rows /\ NewRow(r)' = NewRow(r)
  BY <1>2 DEF Publish, Inv, ReqInv, NewRow
<1>4. /\ UNCHANGED Tables
      /\ published' = published \cup {NewRow(r)}
      /\ published \subseteq rows
  BY DEF Publish, Inv, TableInv, AnnouncedIsCommitted
<1>5. ReqInv(r)'
  BY <1>2, <1>3, <1>4 DEF ReqInv, InTx, Tables
<1>6. published \subseteq published' /\ published' \subseteq rows
  BY <1>3, <1>4
<1>. QED
  BY <1>1, <1>2, <1>4, <1>5, <1>6, RequestStep DEF InTx

LEMMA RefusalKeepsInv ==
  ASSUME TypeOK, Inv, NEW r \in Requests, NEW o, o # "sent", Answer(r, o),
         UNCHANGED <<Tables, published>>
  PROVE  Inv'
<1>a. req \in [Requests -> RequestStates]
  BY DEF TypeOK
<1>b. UNCHANGED Tables /\ published' = published /\ published \subseteq rows
  BY DEF Inv, TableInv, AnnouncedIsCommitted
<1>1. \A q \in Requests \ {r} : req'[q] = req[q]
  BY <1>a DEF Answer
<1>2. req'[r].at = "answered" /\ req'[r].outcome = o
  BY <1>a DEF Answer, RequestStates
<1>3. ReqInv(r)'
  BY <1>2 DEF ReqInv, InTx
<1>. QED
  BY <1>b, <1>1, <1>2, <1>3, RequestStep DEF InTx

LEMMA EndKeepsInv ==
  ASSUME TypeOK, Inv, NEW r \in Requests, req' = [req EXCEPT ![r] = Idle],
         UNCHANGED <<Tables, published>>
  PROVE  Inv'
<1>a. req \in [Requests -> RequestStates]
  BY DEF TypeOK
<1>b. UNCHANGED Tables /\ published' = published /\ published \subseteq rows
  BY DEF Inv, TableInv, AnnouncedIsCommitted
<1>1. \A q \in Requests \ {r} : req'[q] = req[q]
  BY <1>a
<1>2. req'[r].at = "idle"
  BY <1>a, IdleType
<1>3. ReqInv(r)'
  BY <1>2 DEF ReqInv, InTx
<1>. QED
  BY <1>b, <1>1, <1>2, <1>3, RequestStep DEF InTx

(* A request that starts relies on nothing yet, but a markRead on its      *)
(* clamped position.                                                       *)
LEMMA StartKeepsInv ==
  ASSUME TypeOK, Inv, NEW r \in Requests,
         NEW s \in {"dedupe", "lock", "markRead", "markUnread"},
         NEW c \in Convs, NEW u, NEW k, NEW n,
         s = "markRead" => n <= lastSeq[c],
         req' = [req EXCEPT ![r] = Request(s, c, u, k, n)],
         UNCHANGED <<Tables, published>>
  PROVE  Inv'
<1>a. req \in [Requests -> RequestStates]
  BY DEF TypeOK
<1>b. UNCHANGED Tables /\ published' = published /\ published \subseteq rows
  BY DEF Inv, TableInv, AnnouncedIsCommitted
<1>1. \A q \in Requests \ {r} : req'[q] = req[q]
  BY <1>a
<1>2. req'[r].at = s /\ req'[r].conv = c /\ req'[r].seq = n
  BY <1>a DEF Request
<1>3. ReqInv(r)'
  BY <1>b, <1>2 DEF ReqInv, InTx, Tables
<1>. QED
  BY <1>b, <1>1, <1>2, <1>3, RequestStep DEF InTx

(* The commit.  The others are in other conversations, or hold no lock;    *)
(* whoever holds a key holds another one.                                  *)
LEMMA CommitKeepsInv ==
  ASSUME TypeOK, Inv, NEW r \in Requests, Commit(r)
  PROVE  Inv'
<1>. DEFINE c == req[r].conv
            u == req[r].user
            n == lastSeq[c] + 1
            line == NewRow(r)
<1>a. ReqOK /\ req \in [Requests -> RequestStates]
  BY DEF TypeOK, ReqOK
<1>b. InTx(r) /\ req[r].at = "commit" /\ req[r].seq = n
  BY DEF Commit, InTx, Inv, ReqInv
<1>c. c \in Convs /\ u \in Authors /\ lastSeq[c] \in Nat /\ n \in Nat
  BY <1>a, <1>b, Running DEF TypeOK
<1>d. /\ lastSeq' = [lastSeq EXCEPT ![c] = n]
      /\ rows' = rows \cup {line}
      /\ published' = published
      /\ req' = [req EXCEPT ![r].at = "publish"]
  BY <1>b DEF Commit, Goto
<1>e. /\ line.conv = c /\ line.seq = n /\ line.sender = u /\ line.id = req[r].id
  BY <1>b DEF NewRow
<1>f. /\ lastSeq'[c] = n
      /\ \A d \in Convs : d # c => lastSeq'[d] = lastSeq[d]
  BY <1>c, <1>d DEF TypeOK
<1>g. \A d \in Convs :
        lastSeq[d] \in Nat /\ lastSeq'[d] \in Nat /\ lastSeq[d] <= lastSeq'[d]
  <2>1. \A d \in Convs : lastSeq[d] \in Nat
    BY DEF TypeOK
  <2>2. lastSeq[c] <= n
    BY <1>c
  <2>. QED
    BY <1>c, <1>f, <2>1, <2>2
<1>h. \A m \in rows : m.conv \in Convs /\ m.seq \in Nat
  BY DEF TypeOK, Rows
<1>1. RowsPlaced'
  <2>1. ASSUME NEW m \in rows
        PROVE  m.seq \in 1..lastSeq'[m.conv]
    <3>1. m.seq \in 1..lastSeq[m.conv] /\ lastSeq[m.conv] <= lastSeq'[m.conv]
      BY <1>g, <1>h DEF Inv, TableInv, RowsPlaced
    <3>. QED
      BY <1>g, <1>h, <3>1
  <2>2. line.seq \in 1..lastSeq'[line.conv]
    BY <1>c, <1>e, <1>f
  <2>. QED
    BY <1>d, <2>1, <2>2 DEF RowsPlaced
<1>2. PlacesFilled'
  <2>1. ASSUME NEW d \in Convs, NEW i \in 1..lastSeq'[d]
        PROVE  \E m \in rows' : m.conv = d /\ m.seq = i
    <3>1. CASE d = c /\ i = n
      BY <1>d, <1>e, <3>1
    <3>2. CASE ~(d = c /\ i = n)
      <4>1. i \in 1..lastSeq[d]
        BY <1>c, <1>f, <1>g, <3>2
      <4>. QED
        BY <1>d, <4>1 DEF Inv, TableInv, PlacesFilled
    <3>. QED
      BY <3>1, <3>2
  <2>. QED
    BY <2>1 DEF PlacesFilled
<1>3. PlacesSingle'
  <2>1. ASSUME NEW m \in rows, m.conv = c
        PROVE  m.seq # n
    <3>1. m.seq \in 1..lastSeq[c]
      BY <2>1 DEF Inv, TableInv, RowsPlaced
    <3>. QED
      BY <1>c, <3>1
  <2>. QED
    BY <1>d, <1>e, <2>1 DEF Inv, TableInv, PlacesSingle
<1>4. SentOnce'
  <2>1. u # NoUser => \A m \in rows : ~(m.sender = u /\ m.id = req[r].id)
    BY <1>b DEF Inv, ReqInv, SentAs
  <2>. QED
    BY <1>d, <1>e, <2>1 DEF Inv, TableInv, SentOnce
<1>5. AnnouncedIsCommitted'
  BY <1>d DEF Inv, TableInv, AnnouncedIsCommitted
<1>6. ReadWithinLog'
  <2>1. ASSUME NEW d \in Convs, NEW v \in Users
        PROVE  lastRead'[d][v] <= lastSeq'[d]
    <3>1. lastRead'[d][v] = IF d = c /\ v = u /\ lastRead[d][v] < n
                            THEN n ELSE lastRead[d][v]
      BY <1>b DEF Commit
    <3>2. lastRead[d][v] <= lastSeq[d] /\ lastRead[d][v] \in Nat
      BY DEF Inv, TableInv, ReadWithinLog, TypeOK
    <3>3. CASE d = c /\ v = u /\ lastRead[d][v] < n
      BY <1>c, <1>f, <3>1, <3>3
    <3>4. CASE ~(d = c /\ v = u /\ lastRead[d][v] < n)
      <4>1. lastRead'[d][v] = lastRead[d][v]
        BY <3>1, <3>4
      <4>. QED
        BY <1>g, <3>2, <4>1
    <3>. QED
      BY <3>3, <3>4
  <2>. QED
    BY <2>1 DEF ReadWithinLog
<1>7. ASSUME NEW q \in Requests
      PROVE  ReqInv(q)'
  <2>1. CASE q = r
    <3>1. req'[r] = [req[r] EXCEPT !.at = "publish"]
      BY <1>a, <1>d
    <3>2. /\ req'[r].at = "publish" /\ req'[r].conv = c /\ req'[r].user = u
          /\ req'[r].id = req[r].id /\ req'[r].seq = req[r].seq
      BY <1>a, <3>1 DEF RequestStates
    <3>3. NewRow(r)' = line
      BY <3>2 DEF NewRow
    <3>. QED
      BY <1>d, <2>1, <3>2, <3>3 DEF ReqInv, InTx
  <2>2. CASE q # r
    <3>1. req'[q] = req[q] /\ ReqInv(q) /\ Apart(r, q)
      BY <1>a, <1>d, <2>2 DEF Inv
    <3>2. InTx(q) => lastSeq'[req[q].conv] = lastSeq[req[q].conv]
      <4>1. InTx(q) => req[q].conv \in Convs /\ req[q].conv # c
        BY <1>a, <1>b, <3>1, Running DEF Apart, InTx
      <4>. QED
        BY <1>f, <4>1
    <3>3. ASSUME req[q].at = "commit", req[q].user # NoUser
          PROVE  SentAs(req[q].user, req[q].id)' = {}
      <4>1. SentAs(req[q].user, req[q].id) = {}
        BY <3>1, <3>3 DEF ReqInv
      <4>2. ~(line.sender = req[q].user /\ line.id = req[q].id)
        BY <1>b, <1>e, <3>1, <3>3 DEF Apart
      <4>. QED
        BY <1>d, <3>1, <4>1, <4>2 DEF SentAs
    <3>4. rows \subseteq rows' /\ published \subseteq published'
      BY <1>d
    <3>. QED
      BY <1>g, <3>1, <3>2, <3>3, <3>4, StandingStill
  <2>. QED
    BY <2>1, <2>2
<1>8. ASSUME NEW p \in Requests, NEW q \in Requests, p # q
      PROVE  Apart(p, q)'
  <2>1. \A x \in Requests : x # r => req'[x] = req[x]
    BY <1>a, <1>d
  <2>2. req'[r].at = "publish"
    BY <1>a, <1>d DEF RequestStates
  <2>3. Apart(p, q)
    BY <1>8 DEF Inv
  <2>. QED
    BY <2>1, <2>2, <2>3 DEF Apart, InTx
<1>. QED
  BY <1>1, <1>2, <1>3, <1>4, <1>5, <1>6, <1>7, <1>8 DEF Inv, TableInv

(* A mark moves a read position, up to where it was clamped to or down.    *)
LEMMA MarkKeepsInv ==
  ASSUME TypeOK, Inv, NEW r \in Requests,
         req' = [req EXCEPT ![r] = Idle],
         UNCHANGED <<lastSeq, rows, members, published>>,
         \A c \in Convs, u \in Users : lastRead'[c][u] <= lastSeq[c]
  PROVE  Inv'
<1>a. req \in [Requests -> RequestStates]
  BY DEF TypeOK
<1>1. TableInv'
  BY DEF Inv, TableInv, RowsPlaced, PlacesFilled, PlacesSingle, SentOnce,
         AnnouncedIsCommitted, ReadWithinLog
<1>2. \A q \in Requests : q # r => req'[q] = req[q]
  BY <1>a
<1>3. req'[r].at = "idle"
  BY <1>a, IdleType
<1>4. ASSUME NEW q \in Requests
      PROVE  ReqInv(q)'
  BY <1>2, <1>3 DEF Inv, ReqInv, InTx, SentAs, NewRow
<1>5. ASSUME NEW p \in Requests, NEW q \in Requests, p # q
      PROVE  Apart(p, q)'
  BY <1>2, <1>3, <1>5 DEF Inv, Apart, InTx
<1>. QED
  BY <1>1, <1>4, <1>5 DEF Inv

LEMMA MarkReadKeepsInv ==
  ASSUME TypeOK, Inv, NEW r \in Requests, MarkRead(r)
  PROVE  Inv'
<1>1. req[r].seq <= lastSeq[req[r].conv]
  BY DEF MarkRead, Inv, ReqInv
<1>2. ASSUME NEW c \in Convs, NEW u \in Users
      PROVE  lastRead'[c][u] <= lastSeq[c]
  <2>1. lastRead[c][u] <= lastSeq[c]
    BY DEF Inv, TableInv, ReadWithinLog
  <2>2. \/ lastRead'[c][u] = lastRead[c][u]
        \/ c = req[r].conv /\ lastRead'[c][u] = req[r].seq
    BY DEF MarkRead, TypeOK
  <2>. QED
    BY <1>1, <2>1, <2>2
<1>. QED
  BY <1>2, MarkKeepsInv DEF MarkRead

LEMMA MarkUnreadKeepsInv ==
  ASSUME TypeOK, Inv, NEW r \in Requests, MarkUnread(r)
  PROVE  Inv'
<1>a. ReqOK
  BY DEF TypeOK, ReqOK
<1>1. ASSUME NEW c \in Convs, NEW u \in Users
      PROVE  lastRead'[c][u] <= lastSeq[c]
  <2>1. /\ lastRead[c][u] <= lastSeq[c] /\ lastRead[c][u] \in Nat
        /\ lastSeq[c] \in Nat /\ req[r].seq \in Nat
    BY <1>a, Running DEF Inv, TableInv, ReadWithinLog, TypeOK
  <2>2. \/ lastRead'[c][u] = lastRead[c][u]
        \/ lastRead'[c][u] = req[r].seq /\ lastRead[c][u] > req[r].seq
    BY DEF MarkUnread, TypeOK
  <2>. QED
    BY <2>1, <2>2
<1>. QED
  BY <1>1, MarkKeepsInv DEF MarkUnread

LEMMA InvStep == TypeOK /\ Inv /\ [Next]_vars => Inv'
<1>. SUFFICES ASSUME TypeOK, Inv, [Next]_vars
              PROVE  Inv'
  OBVIOUS
<1>1. ASSUME NEW r \in Requests, Step(r)
      PROVE  Inv'
  <2>1. CASE InsertRefused(r)
    BY <2>1, RefusalKeepsInv DEF InsertRefused
  <2>2. CASE Finish(r)
    BY <2>2, EndKeepsInv DEF Finish
  <2>. QED
    BY <1>1, <2>1, <2>2, DedupeKeepsInv, LockKeepsInv, CheckMemberKeepsInv,
       InsertKeepsInv, CommitKeepsInv, PublishKeepsInv, MarkReadKeepsInv,
       MarkUnreadKeepsInv DEF Step
<1>2. ASSUME NEW r \in Requests, AttachmentGone(r)
      PROVE  Inv'
  BY <1>2, RefusalKeepsInv DEF AttachmentGone
<1>3. ASSUME NEW r \in Requests, Crash(r)
      PROVE  Inv'
  BY <1>3, EndKeepsInv DEF Crash
<1>4. ASSUME NEW r \in Requests, NEW c \in Convs, StartSystem(r, c)
      PROVE  Inv'
  BY <1>4, StartKeepsInv DEF StartSystem
<1>5. ASSUME NEW r \in Requests, NEW u \in Users, NEW c \in Convs,
             NEW k \in MsgIds, StartSend(r, u, c, k)
      PROVE  Inv'
  BY <1>5, StartKeepsInv DEF StartSend
<1>6. ASSUME NEW r \in Requests, NEW u \in Users, NEW c \in Convs,
             NEW n \in Positions, StartMarkRead(r, u, c, n)
      PROVE  Inv'
  <2>. DEFINE clamped == IF n < lastSeq[c] THEN n ELSE lastSeq[c]
  <2>1. n \in Int /\ lastSeq[c] \in Nat
    BY DEF Positions, TypeOK
  <2>2. clamped <= lastSeq[c]
    BY <2>1
  <2>. QED
    BY <1>6, <2>2, StartKeepsInv DEF StartMarkRead
<1>7. ASSUME NEW r \in Requests, NEW u \in Users, NEW c \in Convs,
             StartMarkUnread(r, u, c)
      PROVE  Inv'
  BY <1>7, StartKeepsInv DEF StartMarkUnread
<1>8. ASSUME UNCHANGED <<lastSeq, rows, lastRead, published, req>>
      PROVE  Inv'
  <2>1. TableInv'
    BY <1>8 DEF Inv, TableInv, RowsPlaced, PlacesFilled, PlacesSingle,
                SentOnce, AnnouncedIsCommitted, ReadWithinLog
  <2>2. \A r \in Requests : ReqInv(r)'
    BY <1>8 DEF Inv, ReqInv, InTx, SentAs, NewRow
  <2>3. \A r, q \in Requests : r # q => Apart(r, q)'
    BY <1>8 DEF Inv, Apart, InTx
  <2>. QED
    BY <2>1, <2>2, <2>3 DEF Inv
<1>9. ASSUME NEW u \in Users, NEW c \in Convs, Leave(u, c) \/ Join(u, c)
      PROVE  Inv'
  BY <1>8, <1>9 DEF Leave, Join
<1>10. CASE UNCHANGED vars
  BY <1>8, <1>10 DEF vars
<1>. QED
  BY <1>1, <1>2, <1>3, <1>4, <1>5, <1>6, <1>7, <1>9, <1>10 DEF Next

LEMMA InvCorrect == Spec => [](TypeOK /\ Inv)
<1>. QED
  BY TypeInit, TypeStep, InvInit, InvStep, PTL DEF Spec

(* Positions are handed out and given back without a gap, whatever runs    *)
(* together, rolls back or dies.                                           *)
THEOREM GaplessCorrect == Spec => []GaplessLog
<1>1. TypeOK /\ Inv => GaplessLog
  BY InvMeaning
<1>. QED
  BY <1>1, InvCorrect, PTL

(* A client id is used up by one message, in whichever conversation.       *)
THEOREM SentOnceCorrect == Spec => []SentOnce
<1>1. TypeOK /\ Inv => SentOnce
  BY InvMeaning
<1>. QED
  BY <1>1, InvCorrect, PTL

(* No event tells of a message that was rolled back.                       *)
THEOREM AnnouncedCorrect == Spec => []AnnouncedIsCommitted
<1>1. TypeOK /\ Inv => AnnouncedIsCommitted
  BY InvMeaning
<1>. QED
  BY <1>1, InvCorrect, PTL

(* "Sent" is answered only of a message in the table, and announced.       *)
THEOREM SentCorrect == Spec => []SentIsLoggedAndAnnounced
<1>1. TypeOK /\ Inv => SentIsLoggedAndAnnounced
  BY InvMeaning
<1>. QED
  BY <1>1, InvCorrect, PTL

(* Nobody has read further than the conversation goes.                     *)
THEOREM ReadCorrect == Spec => []ReadWithinLog
<1>1. TypeOK /\ Inv => ReadWithinLog
  BY InvMeaning
<1>. QED
  BY <1>1, InvCorrect, PTL

(* What a transaction read under its lock is still true when it commits.   *)
THEOREM OrderCorrect == Spec => []TransactionsOrdered
<1>1. TypeOK /\ Inv => TransactionsOrdered
  BY InvMeaning
<1>. QED
  BY <1>1, InvCorrect, PTL

-----------------------------------------------------------------------------
(* Refinement: the tables, read as one sequence of messages for each       *)
(* conversation, are the append-only logs of ConversationLog.              *)

(* A transaction writes for one of the people under one of their ids, or   *)
(* for the system under none.                                              *)
Signed(u, k) ==
  \/ u \in Users /\ k \in MsgIds
  \/ u = NoUser /\ k = NoId

SendsSigned ==
  \A r \in Requests :
    req[r].at \in SendSteps => Signed(req[r].user, req[r].id)

LEMMA SignedInit == Init => SendsSigned
BY IdleType DEF Init, SendsSigned, SendSteps

LEMMA SignedStep == TypeOK /\ SendsSigned /\ [Next]_vars => SendsSigned'
<1>. SUFFICES ASSUME TypeOK, SendsSigned, [Next]_vars
              PROVE  SendsSigned'
  OBVIOUS
<1>a. req \in [Requests -> RequestStates]
  BY DEF TypeOK
<1>b. ASSUME NEW r \in Requests,
             \A q \in Requests \ {r} : req'[q] = req[q],
             req'[r].at \in SendSteps => Signed(req'[r].user, req'[r].id)
      PROVE  SendsSigned'
  BY <1>b DEF SendsSigned
<1>c. ASSUME NEW r \in Requests,
             \A q \in Requests \ {r} : req'[q] = req[q],
             req[r].at \in SendSteps,
             req'[r].user = req[r].user, req'[r].id = req[r].id
      PROVE  SendsSigned'
  BY <1>b, <1>c DEF SendsSigned
<1>1. ASSUME NEW r \in Requests,
             \/ Dedupe(r) \/ LockConversation(r) \/ CheckMember(r)
             \/ InsertRow(r) \/ InsertRefused(r) \/ AttachmentGone(r)
      PROVE  SendsSigned'
  <2>1. req[r].at \in SendSteps
    BY <1>1 DEF Dedupe, LockConversation, CheckMember, InsertRow,
                InsertRefused, AttachmentGone, SendSteps
  <2>2. \A q \in Requests \ {r} : req'[q] = req[q]
    BY <1>a, <1>1 DEF Dedupe, LockConversation, CheckMember, InsertRow,
                InsertRefused, AttachmentGone, Goto, Answer
  <2>3. req'[r].user = req[r].user /\ req'[r].id = req[r].id
    BY <1>a, <1>1 DEF Dedupe, LockConversation, CheckMember, InsertRow,
                InsertRefused, AttachmentGone, Goto, Answer, RequestStates
  <2>. QED
    BY <1>c, <2>1, <2>2, <2>3
<1>2. ASSUME NEW r \in Requests, Commit(r) \/ Publish(r)
      PROVE  SendsSigned'
  <2>1. req[r].at \in SendSteps
    BY <1>2 DEF Commit, Publish, SendSteps
  <2>2. \A q \in Requests \ {r} : req'[q] = req[q]
    BY <1>a, <1>2 DEF Commit, Publish, Goto, Answer
  <2>3. req'[r].user = req[r].user /\ req'[r].id = req[r].id
    BY <1>a, <1>2 DEF Commit, Publish, Goto, Answer, RequestStates
  <2>. QED
    BY <1>c, <2>1, <2>2, <2>3
<1>3. ASSUME NEW r \in Requests, req' = [req EXCEPT ![r] = Idle]
      PROVE  SendsSigned'
  BY <1>a, <1>b, <1>3, IdleType DEF SendSteps
<1>4. ASSUME NEW r \in Requests, NEW s, NEW c, NEW u, NEW k, NEW n,
             req' = [req EXCEPT ![r] = Request(s, c, u, k, n)],
             s \in SendSteps => Signed(u, k)
      PROVE  SendsSigned'
  <2>1. req'[r].at = s /\ req'[r].user = u /\ req'[r].id = k
    BY <1>a, <1>4 DEF Request
  <2>2. \A q \in Requests \ {r} : req'[q] = req[q]
    BY <1>a, <1>4
  <2>. QED
    BY <1>b, <1>4, <2>1, <2>2
<1>5. ASSUME NEW r \in Requests, Finish(r) \/ Crash(r) \/ MarkRead(r) \/ MarkUnread(r)
      PROVE  SendsSigned'
  BY <1>3, <1>5 DEF Finish, Crash, MarkRead, MarkUnread
<1>6. ASSUME NEW r \in Requests, NEW c \in Convs, StartSystem(r, c)
      PROVE  SendsSigned'
  BY <1>4, <1>6 DEF StartSystem, Signed
<1>7. ASSUME NEW r \in Requests, NEW u \in Users, NEW c \in Convs,
             NEW k \in MsgIds, StartSend(r, u, c, k)
      PROVE  SendsSigned'
  BY <1>4, <1>7 DEF StartSend, Signed
<1>8. ASSUME NEW r \in Requests, NEW u \in Users, NEW c \in Convs,
             NEW n \in Positions, StartMarkRead(r, u, c, n)
      PROVE  SendsSigned'
  BY <1>4, <1>8 DEF StartMarkRead, SendSteps
<1>9. ASSUME NEW r \in Requests, NEW u \in Users, NEW c \in Convs,
             StartMarkUnread(r, u, c)
      PROVE  SendsSigned'
  BY <1>4, <1>9 DEF StartMarkUnread, SendSteps
<1>10. ASSUME UNCHANGED req
       PROVE  SendsSigned'
  BY <1>10 DEF SendsSigned
<1>11. ASSUME NEW u \in Users, NEW c \in Convs, Leave(u, c) \/ Join(u, c)
       PROVE  SendsSigned'
  BY <1>10, <1>11 DEF Leave, Join
<1>12. CASE UNCHANGED vars
  BY <1>10, <1>12 DEF vars
<1>. QED
  BY <1>1, <1>2, <1>5, <1>6, <1>7, <1>8, <1>9, <1>11, <1>12 DEF Next, Step

(* The log of a conversation holds, at every position, the message that    *)
(* has that position.                                                      *)
Entry(m) == [author |-> m.sender, id |-> m.id]
AllEntries == [author : Authors, id : Ids]

LEMMA EntryOfRow ==
  ASSUME TypeOK, Inv, NEW m \in rows
  PROVE  EntryAt(m.conv, m.seq) = Entry(m)
<1>. DEFINE At(x) == x \in rows /\ x.conv = m.conv /\ x.seq = m.seq
            pick == CHOOSE x \in rows : x.conv = m.conv /\ x.seq = m.seq
<1>1. pick \in rows /\ pick.conv = m.conv /\ pick.seq = m.seq
  OBVIOUS
<1>2. pick = m
  BY <1>1 DEF Inv, TableInv, PlacesSingle
<1>. QED
  BY <1>2 DEF EntryAt, Entry

LEMMA LogIsSeq ==
  ASSUME TypeOK, Inv, NEW c \in Convs
  PROVE  /\ Logs[c] \in Seq(AllEntries)
         /\ Len(Logs[c]) = lastSeq[c]
         /\ \A i \in 1..lastSeq[c] : Logs[c][i] = EntryAt(c, i)
<1>1. lastSeq[c] \in Nat
  BY DEF TypeOK
<1>2. ASSUME NEW i \in 1..lastSeq[c]
      PROVE  EntryAt(c, i) \in AllEntries
  <2>1. PICK m \in rows : m.conv = c /\ m.seq = i
    BY DEF Inv, TableInv, PlacesFilled
  <2>2. EntryAt(c, i) = Entry(m)
    BY <2>1, EntryOfRow
  <2>3. m.sender \in Authors /\ m.id \in Ids
    BY DEF TypeOK, Rows
  <2>. QED
    BY <2>2, <2>3 DEF Entry, AllEntries
<1>3. Logs[c] = [i \in 1..lastSeq[c] |-> EntryAt(c, i)]
  BY DEF Logs
<1>4. Logs[c] \in [1..lastSeq[c] -> AllEntries]
  BY <1>2, <1>3
<1>5. Logs[c] \in Seq(AllEntries)
  BY <1>1, <1>4, SeqDef
<1>6. Len(Logs[c]) = lastSeq[c]
  BY <1>1, <1>4, <1>5, LenProperties
<1>. QED
  BY <1>3, <1>5, <1>6

(* The same two facts after a step.                                        *)
LEMMA EntryOfRowNow == TypeOK /\ Inv =>
  \A m \in rows : EntryAt(m.conv, m.seq) = Entry(m)
BY EntryOfRow

LEMMA EntryOfRowNext == TypeOK' /\ Inv' =>
  (\A m \in rows : EntryAt(m.conv, m.seq) = Entry(m))'
BY EntryOfRowNow, PTL

LEMMA LogIsSeqNow == TypeOK /\ Inv =>
  \A c \in Convs :
    /\ Logs[c] \in Seq(AllEntries)
    /\ Len(Logs[c]) = lastSeq[c]
    /\ \A i \in 1..lastSeq[c] : Logs[c][i] = EntryAt(c, i)
BY LogIsSeq

LEMMA LogIsSeqNext == TypeOK' /\ Inv' =>
  (\A c \in Convs :
     /\ Logs[c] \in Seq(AllEntries)
     /\ Len(Logs[c]) = lastSeq[c]
     /\ \A i \in 1..lastSeq[c] : Logs[c][i] = EntryAt(c, i))'
BY LogIsSeqNow, PTL

(* A commit appends its message to the log of its conversation ...         *)
LEMMA CommitAppends ==
  ASSUME TypeOK, Inv, SendsSigned, TypeOK', Inv', NEW r \in Requests, Commit(r)
  PROVE  \E c \in Convs, e \in Abstract!Entries : Abstract!AppendEntry(c, e)
<1>. DEFINE line == NewRow(r)
            e == Entry(line)
<1>a. ReqOK
  BY DEF TypeOK, ReqOK
<1>0. InTx(r) /\ req[r].at = "commit" /\ req[r].seq = lastSeq[req[r].conv] + 1
  BY DEF Commit, InTx, Inv, ReqInv
<1>p. PICK c \in Convs, n \in Nat : c = req[r].conv /\ n = lastSeq[c] + 1
  BY <1>a, <1>0, Running DEF TypeOK
<1>b. InTx(r) /\ req[r].at = "commit" /\ req[r].seq = n
  BY <1>0, <1>p
<1>c. lastSeq[c] \in Nat
  BY DEF TypeOK
<1>d. lastSeq' = [lastSeq EXCEPT ![c] = n] /\ rows' = rows \cup {line}
  BY <1>b, <1>p DEF Commit
<1>e. /\ line.conv = c /\ line.seq = n
      /\ line.sender = req[r].user /\ line.id = req[r].id
  BY <1>b, <1>p DEF NewRow
<1>f. Signed(req[r].user, req[r].id)
  BY <1>b DEF SendsSigned, SendSteps
<1>g. e \in Abstract!Entries /\ e \in AllEntries
  BY <1>e, <1>f DEF Entry, Abstract!Entries, Signed, AllEntries, Authors, Ids
<1>1. ASSUME NEW d \in Convs, NEW i \in 1..lastSeq[d]
      PROVE  i \in 1..lastSeq'[d] /\ EntryAt(d, i)' = EntryAt(d, i)
  <2>1. PICK m \in rows : m.conv = d /\ m.seq = i
    BY DEF Inv, TableInv, PlacesFilled
  <2>2. EntryAt(d, i) = Entry(m)
    BY <2>1, EntryOfRow
  <2>3. m \in rows'
    BY <1>d
  <2>4. EntryAt(d, i)' = Entry(m)
    BY <2>1, <2>3, EntryOfRowNext DEF Entry
  <2>5. lastSeq[d] \in Nat /\ lastSeq'[d] \in Nat /\ lastSeq[d] <= lastSeq'[d]
    BY <1>c, <1>d, <1>p DEF TypeOK
  <2>. QED
    BY <2>2, <2>4, <2>5
<1>2. EntryAt(c, n)' = e
  BY <1>d, <1>e, EntryOfRowNext DEF Entry
<1>3. Logs'[c] = Append(Logs[c], e)
  <2>1. /\ Logs[c] \in Seq(AllEntries) /\ Len(Logs[c]) = lastSeq[c]
        /\ \A i \in 1..lastSeq[c] : Logs[c][i] = EntryAt(c, i)
    BY <1>c, LogIsSeq
  <2>2. /\ Logs'[c] \in Seq(AllEntries) /\ Len(Logs'[c]) = lastSeq'[c]
        /\ \A i \in 1..lastSeq'[c] : Logs'[c][i] = EntryAt(c, i)'
    BY <1>c, LogIsSeqNext
  <2>3. lastSeq'[c] = n
    BY <1>c, <1>d, <1>p DEF TypeOK
  <2>4. /\ Append(Logs[c], e) \in Seq(AllEntries)
        /\ Len(Append(Logs[c], e)) = n
        /\ \A i \in 1..lastSeq[c] : Append(Logs[c], e)[i] = Logs[c][i]
        /\ Append(Logs[c], e)[n] = e
    BY <1>g, <1>p, <2>1, AppendProperties
  <2>5. ASSUME NEW i \in 1..n
        PROVE  Logs'[c][i] = Append(Logs[c], e)[i]
    <3>1. CASE i = n
      BY <1>2, <2>2, <2>3, <2>4, <3>1
    <3>2. CASE i # n
      <4>1. i \in 1..lastSeq[c]
        BY <1>c, <1>p, <3>2
      <4>. QED
        BY <1>1, <1>c, <2>1, <2>2, <2>3, <2>4, <4>1
    <3>. QED
      BY <3>1, <3>2
  <2>. QED
    BY <2>2, <2>3, <2>4, <2>5, SeqEqual
<1>4. ASSUME NEW d \in Convs, d # c
      PROVE  Logs'[d] = Logs[d]
  <2>1. lastSeq'[d] = lastSeq[d]
    BY <1>d, <1>4 DEF TypeOK
  <2>2. /\ Logs[d] = [i \in 1..lastSeq[d] |-> EntryAt(d, i)]
        /\ Logs'[d] = [i \in 1..lastSeq'[d] |-> EntryAt(d, i)']
    BY DEF Logs
  <2>. QED
    BY <1>1, <2>1, <2>2
<1>5. Logs' = [Logs EXCEPT ![c] = Append(Logs[c], e)]
  <2>1. DOMAIN Logs = Convs /\ DOMAIN Logs' = Convs
    BY DEF Logs
  <2>2. Logs = [d \in Convs |-> Logs[d]] /\ Logs' = [d \in Convs |-> Logs'[d]]
    BY DEF Logs
  <2>. QED
    BY <1>3, <1>4, <1>c, <2>1, <2>2
<1>6. ~Abstract!IsLogged(e)
  <2>. SUFFICES ASSUME e.author # NoUser, NEW d \in Convs,
                       NEW i \in 1..Len(Logs[d]), Logs[d][i] = e
                PROVE  FALSE
    BY DEF Abstract!IsLogged
  <2>1. i \in 1..lastSeq[d] /\ EntryAt(d, i) = e
    BY LogIsSeq
  <2>2. PICK m \in rows : m.conv = d /\ m.seq = i
    BY <2>1 DEF Inv, TableInv, PlacesFilled
  <2>3. Entry(m) = e
    BY <2>1, <2>2, EntryOfRow
  <2>4. m.sender = req[r].user /\ m.id = req[r].id /\ req[r].user # NoUser
    BY <1>e, <2>3 DEF Entry
  <2>5. SentAs(req[r].user, req[r].id) = {}
    BY <1>b, <2>4 DEF Inv, ReqInv
  <2>. QED
    BY <2>4, <2>5 DEF SentAs
<1>. QED
  BY <1>5, <1>6, <1>c, <1>g DEF Abstract!AppendEntry

(* ... and every other step leaves the logs as they are.                   *)
LEMMA OnlyCommitWrites ==
  ASSUME [Next]_vars, \A r \in Requests : ~Commit(r)
  PROVE  UNCHANGED <<lastSeq, rows>>
<1>1. CASE UNCHANGED vars
  BY <1>1 DEF vars
<1>2. ASSUME NEW r \in Requests, Step(r)
      PROVE  UNCHANGED <<lastSeq, rows>>
  BY <1>2 DEF Step, Dedupe, LockConversation, CheckMember, InsertRow,
     InsertRefused, Publish, Finish, MarkRead, MarkUnread, Tables
<1>3. ASSUME NEW r \in Requests, AttachmentGone(r) \/ Crash(r)
      PROVE  UNCHANGED <<lastSeq, rows>>
  BY <1>3 DEF AttachmentGone, Crash, Tables
<1>4. ASSUME NEW r \in Requests, NEW c \in Convs, StartSystem(r, c)
      PROVE  UNCHANGED <<lastSeq, rows>>
  BY <1>4 DEF StartSystem, Tables
<1>5. ASSUME NEW r \in Requests, NEW u \in Users, NEW c \in Convs,
             \/ \E k \in MsgIds : StartSend(r, u, c, k)
             \/ \E n \in Positions : StartMarkRead(r, u, c, n)
             \/ StartMarkUnread(r, u, c)
      PROVE  UNCHANGED <<lastSeq, rows>>
  BY <1>5 DEF StartSend, StartMarkRead, StartMarkUnread, Tables
<1>6. ASSUME NEW u \in Users, NEW c \in Convs, Leave(u, c) \/ Join(u, c)
      PROVE  UNCHANGED <<lastSeq, rows>>
  BY <1>6 DEF Leave, Join
<1>. QED
  BY <1>1, <1>2, <1>3, <1>4, <1>5, <1>6 DEF Next

LEMMA LogInit == Init => Abstract!Init
<1>. SUFFICES ASSUME Init
              PROVE  Logs = [c \in Convs |-> <<>>]
  BY DEF Abstract!Init
<1>1. ASSUME NEW c \in Convs
      PROVE  [i \in 1..lastSeq[c] |-> EntryAt(c, i)] = <<>>
  <2>1. lastSeq[c] = 0
    BY DEF Init
  <2>. QED
    BY <2>1
<1>. QED
  BY <1>1 DEF Logs

LEMMA LogStep ==
  TypeOK /\ Inv /\ SendsSigned /\ TypeOK' /\ Inv' /\ [Next]_vars
    => [Abstract!Next]_Logs
<1>. SUFFICES ASSUME TypeOK, Inv, SendsSigned, TypeOK', Inv', [Next]_vars
              PROVE  [Abstract!Next]_Logs
  OBVIOUS
<1>1. CASE \E r \in Requests : Commit(r)
  BY <1>1, CommitAppends DEF Abstract!Next
<1>2. CASE \A r \in Requests : ~Commit(r)
  <2>1. lastSeq' = lastSeq /\ rows' = rows
    BY <1>2, OnlyCommitWrites
  <2>2. Logs' = Logs
    BY <2>1 DEF Logs, EntryAt
  <2>. QED
    BY <2>2
<1>. QED
  BY <1>1, <1>2

(* The transaction, with its locks, roll-backs and crashes, implements the *)
(* append-only logs: a message that is in a log is never moved, replaced   *)
(* or removed, and the next one follows it.                                *)
THEOREM LogCorrect == Spec => ImplementsLog
<1>. USE DEF ImplementsLog, Abstract!Spec
<1>. QED
  BY TypeInit, TypeStep, InvInit, InvStep, SignedInit, SignedStep,
     LogInit, LogStep, PTL DEF Spec

-----------------------------------------------------------------------------
(* Read positions go back on request only.                                 *)

ReadForwardStep ==
  \A c \in Convs, u \in Users :
    lastRead'[c][u] < lastRead[c][u]
      => \E r \in Requests : /\ req[r].at = "markUnread"
                            /\ req[r].user = u
                            /\ req[r].conv = c
                            /\ req'[r].at = "idle"

LEMMA OnlyMarksRead ==
  ASSUME [Next]_vars,
         \A r \in Requests : ~Commit(r) /\ ~MarkRead(r) /\ ~MarkUnread(r)
  PROVE  lastRead' = lastRead
<1>1. CASE UNCHANGED vars
  BY <1>1 DEF vars
<1>2. ASSUME NEW r \in Requests, Step(r)
      PROVE  lastRead' = lastRead
  BY <1>2 DEF Step, Dedupe, LockConversation, CheckMember, InsertRow,
     InsertRefused, Publish, Finish, Tables
<1>3. ASSUME NEW r \in Requests, AttachmentGone(r) \/ Crash(r)
      PROVE  lastRead' = lastRead
  BY <1>3 DEF AttachmentGone, Crash, Tables
<1>4. ASSUME NEW r \in Requests, NEW c \in Convs, StartSystem(r, c)
      PROVE  lastRead' = lastRead
  BY <1>4 DEF StartSystem, Tables
<1>5. ASSUME NEW r \in Requests, NEW u \in Users, NEW c \in Convs,
             \/ \E k \in MsgIds : StartSend(r, u, c, k)
             \/ \E n \in Positions : StartMarkRead(r, u, c, n)
             \/ StartMarkUnread(r, u, c)
      PROVE  lastRead' = lastRead
  BY <1>5 DEF StartSend, StartMarkRead, StartMarkUnread, Tables
<1>6. ASSUME NEW u \in Users, NEW c \in Convs, Leave(u, c) \/ Join(u, c)
      PROVE  lastRead' = lastRead
  BY <1>6 DEF Leave, Join
<1>. QED
  BY <1>1, <1>2, <1>3, <1>4, <1>5, <1>6 DEF Next

LEMMA ReadStep == TypeOK /\ [Next]_vars => ReadForwardStep
<1>. SUFFICES ASSUME TypeOK, [Next]_vars, NEW c \in Convs, NEW u \in Users,
                     lastRead'[c][u] < lastRead[c][u]
              PROVE  \E r \in Requests : /\ req[r].at = "markUnread"
                                         /\ req[r].user = u
                                         /\ req[r].conv = c
                                         /\ req'[r].at = "idle"
  BY DEF ReadForwardStep
<1>a. ReqOK /\ lastRead[c][u] \in Nat
  BY DEF TypeOK, ReqOK
<1>1. ASSUME NEW r \in Requests, Commit(r)
      PROVE  FALSE
  <2>1. req[r].seq \in Nat
    BY <1>a, <1>1, Running DEF Commit
  <2>2. \/ lastRead'[c][u] = lastRead[c][u]
        \/ lastRead'[c][u] = req[r].seq /\ lastRead[c][u] < req[r].seq
    BY <1>1 DEF Commit
  <2>. QED
    BY <1>a, <2>1, <2>2
<1>2. ASSUME NEW r \in Requests, MarkRead(r)
      PROVE  FALSE
  <2>1. req[r].seq \in Nat
    BY <1>a, <1>2, Running DEF MarkRead
  <2>2. \/ lastRead'[c][u] = lastRead[c][u]
        \/ lastRead'[c][u] = req[r].seq /\ lastRead[c][u] < req[r].seq
    BY <1>2 DEF MarkRead, TypeOK
  <2>. QED
    BY <1>a, <2>1, <2>2
<1>3. ASSUME NEW r \in Requests, MarkUnread(r)
      PROVE  /\ req[r].at = "markUnread" /\ req[r].user = u
             /\ req[r].conv = c /\ req'[r].at = "idle"
  <2>1. lastRead'[c][u] # lastRead[c][u]
    BY <1>a
  <2>2. req[r].user = u /\ req[r].conv = c
    BY <1>3, <2>1 DEF MarkUnread, TypeOK
  <2>3. req'[r].at = "idle"
    BY <1>3, IdleType DEF MarkUnread, TypeOK
  <2>. QED
    BY <1>3, <2>2, <2>3 DEF MarkUnread
<1>4. lastRead' # lastRead
  BY <1>a
<1>. QED
  BY <1>1, <1>2, <1>3, <1>4, OnlyMarksRead

(* No late markRead and no send racing it un-reads anything.               *)
THEOREM ReadForwardCorrect == Spec => ReadGoesForward
<1>1. Spec => [][ReadForwardStep]_vars
  BY TypeInit, TypeStep, ReadStep, PTL DEF Spec
<1>. QED
  BY <1>1 DEF ReadGoesForward, ReadForwardStep

-----------------------------------------------------------------------------
(* A file on its way into a message (Attachments), for any number of slots *)
(* and sends.                                                              *)

\* The upload job: it has a slot once it needs one, and keeps it.
JobSound ==
  /\ step \in {"put", "send", "sending"} \/ uploaded => slot \in Slots
  /\ step \in {"slot", "put"} => ~uploaded

\* A send at work has a slot; between storing the file and marking the row the
\* file is there, unless the row was removed meanwhile.
ServesSound ==
  \A s \in Sends :
    /\ File!Running(s) => sends[s].slot \in Slots
    /\ sends[s].at = "mark" =>
         "original" \in stored[sends[s].slot] \/ row[sends[s].slot] = "gone"

\* A row that says its file was processed has the file.
RowsSound == \A a \in Slots : row[a] \in {"processed", "linked"} => "original" \in stored[a]

\* The sweep cleans up after rows that are gone, the deletion after the message.
CleaningSound ==
  \A c \in cleaning :
    /\ c.by = "sweep" => row[c.slot] = "gone"
    /\ c.by = "delete" => message = "deleted"

MessageLinked == message \in Slots => row[message] = "linked"

FileInv == File!TypeOK /\ JobSound /\ ServesSound /\ RowsSound /\ CleaningSound /\ MessageLinked

-----------------------------------------------------------------------------
(* One lemma for each action.                                                *)

LEMMA RequestUploadKeeps ==
  ASSUME FileInv, NEW a \in Slots, File!RequestUpload(a)
  PROVE  FileInv'
<1>1. File!TypeOK'
  BY FileAssumption DEF FileInv, File!TypeOK, File!RequestUpload, File!Again
<1>2. JobSound'
  BY DEF FileInv, JobSound, File!RequestUpload, File!Again
<1>3. ServesSound'
  BY DEF FileInv, ServesSound, File!Running, File!Answered, File!RequestUpload
<1>4. RowsSound'
  BY DEF FileInv, RowsSound, File!RequestUpload
<1>5. CleaningSound'
  BY DEF FileInv, CleaningSound, File!RequestUpload
<1>6. MessageLinked'
  BY DEF FileInv, MessageLinked, File!RequestUpload
<1> QED BY <1>1, <1>2, <1>3, <1>4, <1>5, <1>6 DEF FileInv

LEMMA PutKeeps ==
  ASSUME FileInv, File!Put
  PROVE  FileInv'
<1>1. File!TypeOK'
  <2>1. step' \in {"send", "pause", "failed"} /\ attempt' \in 1..MaxAttempts
    BY FileAssumption DEF FileInv, File!TypeOK, File!Put, File!Again
  <2>2. slot' \in Slots \cup {None} /\ uploaded' \in BOOLEAN
    BY DEF FileInv, File!TypeOK, File!Put
  <2>3. stored' \in [Slots -> SUBSET {"upload", "original"}]
    BY DEF FileInv, File!TypeOK, File!Put
  <2> QED BY <2>1 DEF FileInv, File!TypeOK, File!Put
<1>2. JobSound'
  BY DEF FileInv, JobSound, File!Put, File!Again
<1>3. ServesSound'
  BY DEF FileInv, File!TypeOK, ServesSound, File!Running, File!Answered, File!Put
<1>4. RowsSound'
  BY DEF FileInv, File!TypeOK, RowsSound, File!Put
<1>5. CleaningSound'
  BY DEF FileInv, CleaningSound, File!Put
<1>6. MessageLinked'
  BY DEF FileInv, MessageLinked, File!Put
<1> QED BY <1>1, <1>2, <1>3, <1>4, <1>5, <1>6 DEF FileInv

LEMMA SendKeeps ==
  ASSUME FileInv, NEW s \in Sends, File!Send(s)
  PROVE  FileInv'
<1>1. File!TypeOK'
  BY DEF FileInv, File!TypeOK, File!Send, File!progress, File!store
<1>2. JobSound'
  BY DEF FileInv, JobSound, File!Send, File!progress
<1>3. ServesSound'
  BY DEF FileInv, JobSound, ServesSound, File!Running, File!Answered, File!Send, File!store
<1>4. RowsSound'
  BY DEF FileInv, RowsSound, File!Send, File!store
<1>5. CleaningSound'
  BY DEF FileInv, CleaningSound, File!Send, File!store
<1>6. MessageLinked'
  BY DEF FileInv, MessageLinked, File!Send, File!store
<1> QED BY <1>1, <1>2, <1>3, <1>4, <1>5, <1>6 DEF FileInv

LEMMA AnswerKeeps ==
  ASSUME FileInv, NEW s \in Sends, File!Answer(s)
  PROVE  FileInv'
<1>1. File!TypeOK'
  BY FileAssumption DEF FileInv, File!TypeOK, File!Answer, File!Again, File!Idle, File!progress, File!store
<1>2. JobSound'
  BY DEF FileInv, JobSound, File!Answer, File!Again, File!progress
<1>3. ServesSound'
  BY DEF FileInv, ServesSound, File!Running, File!Answer, File!Answered, File!Idle, File!store
<1>4. RowsSound'
  BY DEF FileInv, RowsSound, File!Answer, File!store
<1>5. CleaningSound'
  BY DEF FileInv, CleaningSound, File!Answer, File!store
<1>6. MessageLinked'
  BY DEF FileInv, MessageLinked, File!Answer, File!store
<1> QED BY <1>1, <1>2, <1>3, <1>4, <1>5, <1>6 DEF FileInv

LEMMA LoseKeeps ==
  ASSUME FileInv, File!Lose
  PROVE  FileInv'
<1>1. File!TypeOK'
  BY FileAssumption DEF FileInv, File!TypeOK, File!Lose, File!Again, File!progress, File!store
<1>2. JobSound'
  BY DEF FileInv, JobSound, File!Lose, File!Again, File!progress
<1>3. ServesSound'
  BY DEF FileInv, ServesSound, File!Running, File!Answered, File!Lose, File!store
<1>4. RowsSound'
  BY DEF FileInv, RowsSound, File!Lose, File!store
<1>5. CleaningSound'
  BY DEF FileInv, CleaningSound, File!Lose, File!store
<1>6. MessageLinked'
  BY DEF FileInv, MessageLinked, File!Lose, File!store
<1> QED BY <1>1, <1>2, <1>3, <1>4, <1>5, <1>6 DEF FileInv

LEMMA DropKeeps ==
  ASSUME FileInv, NEW s \in Sends, File!Drop(s)
  PROVE  FileInv'
<1>1. File!TypeOK'
  BY DEF FileInv, File!TypeOK, File!Drop, File!Idle, File!job, File!store
<1>2. JobSound'
  BY DEF FileInv, JobSound, File!Drop, File!job
<1>3. ServesSound'
  BY DEF FileInv, ServesSound, File!Running, File!Drop, File!Answered, File!Idle, File!store
<1>4. RowsSound'
  BY DEF FileInv, RowsSound, File!Drop, File!store
<1>5. CleaningSound'
  BY DEF FileInv, CleaningSound, File!Drop, File!store
<1>6. MessageLinked'
  BY DEF FileInv, MessageLinked, File!Drop, File!store
<1> QED BY <1>1, <1>2, <1>3, <1>4, <1>5, <1>6 DEF FileInv

LEMMA WakeKeeps ==
  ASSUME FileInv, File!Wake
  PROVE  FileInv'
<1>1. File!TypeOK'
  BY DEF FileInv, File!TypeOK, File!Wake, File!Resume, File!progress, File!store
<1>2. JobSound'
  BY DEF FileInv, File!TypeOK, JobSound, File!Wake, File!Resume, File!progress
<1>3. ServesSound'
  BY DEF FileInv, ServesSound, File!Running, File!Answered, File!Wake, File!store
<1>4. RowsSound'
  BY DEF FileInv, RowsSound, File!Wake, File!store
<1>5. CleaningSound'
  BY DEF FileInv, CleaningSound, File!Wake, File!store
<1>6. MessageLinked'
  BY DEF FileInv, MessageLinked, File!Wake, File!store
<1> QED BY <1>1, <1>2, <1>3, <1>4, <1>5, <1>6 DEF FileInv

LEMMA RetryKeeps ==
  ASSUME FileInv, File!Retry
  PROVE  FileInv'
<1>1. File!TypeOK'
  BY FileAssumption DEF FileInv, File!TypeOK, File!Retry, File!Resume, File!progress, File!store
<1>2. JobSound'
  BY DEF FileInv, File!TypeOK, JobSound, File!Retry, File!Resume, File!progress
<1>3. ServesSound'
  BY DEF FileInv, ServesSound, File!Running, File!Answered, File!Retry, File!store
<1>4. RowsSound'
  BY DEF FileInv, RowsSound, File!Retry, File!store
<1>5. CleaningSound'
  BY DEF FileInv, CleaningSound, File!Retry, File!store
<1>6. MessageLinked'
  BY DEF FileInv, MessageLinked, File!Retry, File!store
<1> QED BY <1>1, <1>2, <1>3, <1>4, <1>5, <1>6 DEF FileInv

LEMMA CancelKeeps ==
  ASSUME FileInv, File!Cancel
  PROVE  FileInv'
<1>1. File!TypeOK'
  BY DEF FileInv, File!TypeOK, File!Cancel, File!progress, File!store
<1>2. JobSound'
  BY DEF FileInv, JobSound, File!Cancel, File!progress
<1>3. ServesSound'
  BY DEF FileInv, ServesSound, File!Running, File!Answered, File!Cancel, File!store
<1>4. RowsSound'
  BY DEF FileInv, RowsSound, File!Cancel, File!store
<1>5. CleaningSound'
  BY DEF FileInv, CleaningSound, File!Cancel, File!store
<1>6. MessageLinked'
  BY DEF FileInv, MessageLinked, File!Cancel, File!store
<1> QED BY <1>1, <1>2, <1>3, <1>4, <1>5, <1>6 DEF FileInv

LEMMA FindKeeps ==
  ASSUME FileInv, NEW s \in Sends, File!Find(s)
  PROVE  FileInv'
<1>1. File!TypeOK'
  BY DEF FileInv, File!TypeOK, File!Find, File!To, File!job, File!store
<1>2. JobSound'
  BY DEF FileInv, JobSound, File!Find, File!job
<1>3. ServesSound'
  BY DEF FileInv, ServesSound, File!Running, File!Answered, File!Find, File!To, File!store
<1>4. RowsSound'
  BY DEF FileInv, RowsSound, File!Find, File!store
<1>5. CleaningSound'
  BY DEF FileInv, CleaningSound, File!Find, File!store
<1>6. MessageLinked'
  BY DEF FileInv, MessageLinked, File!Find, File!store
<1> QED BY <1>1, <1>2, <1>3, <1>4, <1>5, <1>6 DEF FileInv

LEMMA HeadKeeps ==
  ASSUME FileInv, NEW s \in Sends, File!Head(s)
  PROVE  FileInv'
<1>1. File!TypeOK'
  BY DEF FileInv, File!TypeOK, File!Head, File!To, File!job, File!store
<1>2. JobSound'
  BY DEF FileInv, JobSound, File!Head, File!job
<1>3. ServesSound'
  BY DEF FileInv, ServesSound, File!Running, File!Answered, File!Head, File!To, File!store
<1>4. RowsSound'
  BY DEF FileInv, RowsSound, File!Head, File!store
<1>5. CleaningSound'
  BY DEF FileInv, CleaningSound, File!Head, File!store
<1>6. MessageLinked'
  BY DEF FileInv, MessageLinked, File!Head, File!store
<1> QED BY <1>1, <1>2, <1>3, <1>4, <1>5, <1>6 DEF FileInv

LEMMA StoreKeeps ==
  ASSUME FileInv, NEW s \in Sends, File!Store(s)
  PROVE  FileInv'
<1>1. File!TypeOK'
  BY DEF FileInv, File!TypeOK, File!Store, File!To, File!job
<1>2. JobSound'
  BY DEF FileInv, JobSound, File!Store, File!job
<1>3. ServesSound'
  BY DEF FileInv, File!TypeOK, ServesSound, File!Running, File!Answered, File!Store, File!To
<1>4. RowsSound'
  BY DEF FileInv, File!TypeOK, RowsSound, File!Store
<1>5. CleaningSound'
  BY DEF FileInv, CleaningSound, File!Store
<1>6. MessageLinked'
  BY DEF FileInv, MessageLinked, File!Store
<1> QED BY <1>1, <1>2, <1>3, <1>4, <1>5, <1>6 DEF FileInv

LEMMA MarkKeeps ==
  ASSUME FileInv, NEW s \in Sends, File!Mark(s)
  PROVE  FileInv'
<1>a. row' \in [Slots -> {"none", "new", "processed", "linked", "gone"}]
  BY DEF FileInv, File!TypeOK, File!Mark
<1>b. sends' \in [Sends -> [at : {"idle", "find", "head", "store", "mark", "unstage", "append",
                                "ok", "refused", "error"}, slot : Slots \cup {None}]]
  BY DEF FileInv, File!TypeOK, File!Mark, File!To
<1>c. UNCHANGED <<step, slot, uploaded, attempt, retries, stored, message, cleaning, crashes>>
  BY DEF File!Mark, File!job
<1>1. File!TypeOK'
  BY <1>a, <1>b, <1>c DEF FileInv, File!TypeOK
<1>2. JobSound'
  BY DEF FileInv, JobSound, File!Mark, File!job
<1>3. ServesSound'
  BY DEF FileInv, ServesSound, File!Running, File!Answered, File!Mark, File!To
<1>4. RowsSound'
  BY DEF FileInv, RowsSound, ServesSound, File!Mark
<1>5. CleaningSound'
  BY DEF FileInv, CleaningSound, File!Mark
<1>6. MessageLinked'
  BY DEF FileInv, MessageLinked, File!Mark
<1> QED BY <1>1, <1>2, <1>3, <1>4, <1>5, <1>6 DEF FileInv

LEMMA UnstageKeeps ==
  ASSUME FileInv, NEW s \in Sends, File!Unstage(s)
  PROVE  FileInv'
<1>1. File!TypeOK'
  BY DEF FileInv, File!TypeOK, File!Unstage, File!To, File!job
<1>2. JobSound'
  BY DEF FileInv, JobSound, File!Unstage, File!job
<1>3. ServesSound'
  BY DEF FileInv, ServesSound, File!Running, File!Answered, File!Unstage, File!To
<1>4. RowsSound'
  BY DEF FileInv, RowsSound, File!Unstage
<1>5. CleaningSound'
  BY DEF FileInv, CleaningSound, File!Unstage
<1>6. MessageLinked'
  BY DEF FileInv, MessageLinked, File!Unstage
<1> QED BY <1>1, <1>2, <1>3, <1>4, <1>5, <1>6 DEF FileInv

LEMMA AppendKeeps ==
  ASSUME FileInv, NEW s \in Sends, File!Append(s)
  PROVE  FileInv'
<1>1. File!TypeOK'
  BY DEF FileInv, File!TypeOK, File!Append, File!To, File!job
<1>2. JobSound'
  BY DEF FileInv, JobSound, File!Append, File!job
<1>3. ServesSound'
  BY DEF FileInv, File!TypeOK, ServesSound, File!Running, File!Answered, File!Append, File!To
<1>4. RowsSound'
  BY DEF FileInv, File!TypeOK, RowsSound, File!Append
<1>5. CleaningSound'
  <2>1. message = "deleted" => message # None
    BY FileAssumption
  <2>2. \A a \in Slots : row[a] = "gone" => row'[a] = "gone"
    BY DEF FileInv, File!TypeOK, File!Append
  <2>3. cleaning' = cleaning /\ (message # None => message' = message)
    BY DEF File!Append
  <2> QED BY <2>1, <2>2, <2>3 DEF FileInv, File!TypeOK, CleaningSound
<1>6. MessageLinked'
  BY DEF FileInv, File!TypeOK, MessageLinked, File!Append
<1> QED BY <1>1, <1>2, <1>3, <1>4, <1>5, <1>6 DEF FileInv

LEMMA SweepKeeps ==
  ASSUME FileInv, NEW a \in Slots, File!Sweep(a)
  PROVE  FileInv'
<1>1. File!TypeOK'
  BY DEF FileInv, File!TypeOK, File!Sweep, File!job
<1>2. JobSound'
  BY DEF FileInv, JobSound, File!Sweep, File!job
<1>3. ServesSound'
  BY DEF FileInv, ServesSound, File!Running, File!Answered, File!Sweep
<1>4. RowsSound'
  BY DEF FileInv, RowsSound, File!Sweep
<1>5. CleaningSound'
  BY DEF FileInv, File!TypeOK, CleaningSound, File!Sweep
<1>6. MessageLinked'
  BY DEF FileInv, MessageLinked, File!Sweep
<1> QED BY <1>1, <1>2, <1>3, <1>4, <1>5, <1>6 DEF FileInv

LEMMA DeleteMessageKeeps ==
  ASSUME FileInv, File!DeleteMessage
  PROVE  FileInv'
<1>1. File!TypeOK'
  BY DEF FileInv, File!TypeOK, File!DeleteMessage, File!job
<1>2. JobSound'
  BY DEF FileInv, JobSound, File!DeleteMessage, File!job
<1>3. ServesSound'
  BY DEF FileInv, ServesSound, File!Running, File!Answered, File!DeleteMessage
<1>4. RowsSound'
  BY DEF FileInv, RowsSound, File!DeleteMessage
<1>5. CleaningSound'
  BY DEF FileInv, CleaningSound, File!DeleteMessage
<1>6. MessageLinked'
  BY FileAssumption DEF MessageLinked, File!DeleteMessage
<1> QED BY <1>1, <1>2, <1>3, <1>4, <1>5, <1>6 DEF FileInv

LEMMA CleanKeeps ==
  ASSUME FileInv, NEW c \in cleaning, File!Clean(c)
  PROVE  FileInv'
<1>1. File!TypeOK'
  BY DEF FileInv, File!TypeOK, File!Clean, File!job
<1>2. JobSound'
  BY DEF FileInv, JobSound, File!Clean, File!job
<1>3. ServesSound'
  BY DEF FileInv, File!TypeOK, ServesSound, File!Running, File!Answered, File!Clean
<1>4. RowsSound'
  BY DEF FileInv, File!TypeOK, RowsSound, File!Clean
<1>5. CleaningSound'
  BY DEF FileInv, CleaningSound, File!Clean
<1>6. MessageLinked'
  BY FileAssumption DEF FileInv, File!TypeOK, CleaningSound, MessageLinked, File!Clean
<1> QED BY <1>1, <1>2, <1>3, <1>4, <1>5, <1>6 DEF FileInv

LEMMA CrashKeeps ==
  ASSUME FileInv, File!Crash
  PROVE  FileInv'
<1>1. File!TypeOK'
  BY FileAssumption DEF FileInv, File!TypeOK, File!Crash, File!Again, File!Idle, File!progress
<1>2. JobSound'
  BY DEF FileInv, JobSound, File!Crash, File!Again, File!progress
<1>3. ServesSound'
  BY DEF ServesSound, File!Running, File!Crash, File!Idle
<1>4. RowsSound'
  BY DEF FileInv, RowsSound, File!Crash
<1>5. CleaningSound'
  BY DEF CleaningSound, File!Crash
<1>6. MessageLinked'
  BY DEF FileInv, MessageLinked, File!Crash
<1> QED BY <1>1, <1>2, <1>3, <1>4, <1>5, <1>6 DEF FileInv

LEMMA FileInitHolds ==
  ASSUME File!Init
  PROVE  FileInv
<1>1. File!TypeOK
  <2>1. 1 \in 1..MaxAttempts /\ 0 \in 0..MaxRetries /\ 0 \in 0..MaxCrashes
    BY FileAssumption
  <2>2. /\ row \in [Slots -> {"none", "new", "processed", "linked", "gone"}]
        /\ stored \in [Slots -> SUBSET {"upload", "original"}]
    BY DEF File!Init
  <2>3. /\ sends \in [Sends -> [at : {"idle", "find", "head", "store", "mark", "unstage", "append",
                                     "ok", "refused", "error"}, slot : Slots \cup {None}]]
    BY DEF File!Init, File!Idle
  <2> QED BY <2>1, <2>3 DEF File!Init, File!TypeOK
<1>2. JobSound /\ ServesSound /\ RowsSound
  BY DEF File!Init, JobSound, ServesSound, RowsSound, File!Running, File!Idle
<1>3. CleaningSound /\ MessageLinked
  BY FileAssumption DEF File!Init, CleaningSound, MessageLinked
<1> QED BY <1>1, <1>2, <1>3 DEF FileInv

LEMMA FileNextKeeps ==
  ASSUME FileInv, [File!Next]_(File!vars)
  PROVE  FileInv'
<1>1. CASE File!Put \/ File!Lose \/ File!Wake \/ File!Retry \/ File!Cancel \/ File!DeleteMessage \/ File!Crash
  BY <1>1, PutKeeps, LoseKeeps, WakeKeeps, RetryKeeps, CancelKeeps, DeleteMessageKeeps,
     CrashKeeps
<1>2. CASE \E a \in Slots : File!RequestUpload(a) \/ File!Sweep(a)
  BY <1>2, RequestUploadKeeps, SweepKeeps
<1>3. CASE \E s \in Sends : File!Send(s) \/ File!Answer(s) \/ File!Drop(s)
  BY <1>3, SendKeeps, AnswerKeeps, DropKeeps
<1>4. CASE \E s \in Sends : File!Serve(s)
  BY <1>4, FindKeeps, HeadKeeps, StoreKeeps, MarkKeeps, UnstageKeeps, AppendKeeps DEF File!Serve
<1>5. CASE \E c \in cleaning : File!Clean(c)
  BY <1>5, CleanKeeps
<1>6. CASE UNCHANGED File!vars
  <2>1. File!TypeOK' /\ JobSound'
    BY <1>6 DEF FileInv, File!TypeOK, JobSound, File!vars
  <2>2. ServesSound' /\ RowsSound'
    BY <1>6 DEF FileInv, ServesSound, RowsSound, File!Running, File!Answered, File!vars
  <2>3. CleaningSound' /\ MessageLinked'
    BY <1>6 DEF FileInv, CleaningSound, MessageLinked, File!vars
  <2> QED BY <2>1, <2>2, <2>3 DEF FileInv
<1> QED BY <1>1, <1>2, <1>3, <1>4, <1>5, <1>6 DEF File!Next

-----------------------------------------------------------------------------
\* The inductive invariant: a row that says "processed" has its file, and
\* whoever removes files has removed the row, or the message, first.
THEOREM FileInvariant == File!Spec => []FileInv
<1>1. File!Init => FileInv
  BY FileInitHolds
<1>2. FileInv /\ [File!Next]_(File!vars) => FileInv'
  BY FileNextKeeps
<1> QED BY <1>1, <1>2, PTL DEF File!Spec

\* Rows, objects and requests are what their schemas say.
THEOREM FileTypesHold == File!Spec => []File!TypeOK
BY FileInvariant, PTL DEF FileInv

\* What a message carries can be downloaded, whatever the sweep, retried sends
\* and restarts do.
THEOREM SentCanBeDownloaded == File!Spec => []File!StoredWhileSent
<1>1. FileInv => File!StoredWhileSent
  BY DEF FileInv, RowsSound, MessageLinked, File!StoredWhileSent
<1> QED BY <1>1, FileInvariant, PTL

-----------------------------------------------------------------------------
(* The store among the tab and the files of the run (MCMessages).          *)

LEMMA OneMoves ==
  [MessagesNext]_<<focus, vars, viewVars, fileVars, keyVars>> =>
    [Next]_vars /\ [File!Next]_(File!vars) /\ [Keys!Next]_(Keys!vars)
<1>1. UNCHANGED fileVars => UNCHANGED File!vars
  BY DEF fileVars, File!vars
<1>2. UNCHANGED keyVars => UNCHANGED Keys!vars
  BY DEF keyVars, Keys!vars, Keys!directory, Keys!browsers
<1>. QED
  BY <1>1, <1>2 DEF MessagesNext

(* The store keeps its promises among them, and a file that a sent message *)
(* carries can be downloaded (db/attachments.ts:65).                       *)
THEOREM MessagesSound ==
  MessagesSpec =>
    /\ [](GaplessLog /\ SentOnce /\ SentIsLoggedAndAnnounced /\ ReadWithinLog
          /\ TransactionsOrdered /\ StoredWhileSent)
    /\ ReadGoesForward /\ ImplementsLog
<1>1. MessagesInit => Init /\ File!Init
  BY DEF MessagesInit
<1>2. MessagesSpec => Spec
  BY <1>1, OneMoves, PTL DEF MessagesSpec, Spec
<1>3. MessagesSpec => File!Spec
  BY <1>1, OneMoves, PTL DEF MessagesSpec, File!Spec
<1>4. File!StoredWhileSent => StoredWhileSent
  BY DEF StoredWhileSent
<1>. QED
  BY <1>2, <1>3, <1>4, SentCanBeDownloaded, GaplessCorrect, SentOnceCorrect, SentCorrect, ReadCorrect,
     OrderCorrect, ReadForwardCorrect, LogCorrect, PTL

(* And no message key encrypts twice, who holds a group for the chat holds  *)
(* the recorded one, and a key others may claim can be used (client.ts:293). *)
THEOREM KeysSound == MessagesSpec => []ChatKeysSound
<1>1. MessagesInit => Keys!Init
  BY DEF MessagesInit
<1>2. MessagesSpec => Keys!Spec
  BY <1>1, OneMoves, PTL DEF MessagesSpec, Keys!Spec
<1>3. Keys!E2eeAssumption
  BY KeysAssumption
<1>4. Keys!Spec => []Keys!KeysUsedOnce
  BY <1>3, Keys!NoKeyTwice
<1>5. Keys!Spec => []Keys!OneGroup
  BY <1>3, Keys!TheRecordedGroup
<1>6. Keys!Spec => []Keys!Usable
  BY <1>3, Keys!KeysStayUsable
<1>7. Keys!KeysUsedOnce /\ Keys!OneGroup /\ Keys!Usable => ChatKeysSound
  BY DEF ChatKeysSound
<1> QED BY <1>2, <1>4, <1>5, <1>6, <1>7, PTL
=============================================================================
