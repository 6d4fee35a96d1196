------------------------------ MODULE MessageLog ------------------------------
(***************************************************************************)
(* The message store: the transaction that appends a message, one SQL      *)
(* statement per step, against every other request that touches the same   *)
(* conversation.                                                           *)
(*                                                                         *)
(*   - POST .../messages runs MessagesService.send: a membership check on  *)
(*     its own, then appendMessageWithStatus in one transaction, then the  *)
(*     live event, then the answer to the client;                          *)
(*   - a system message ("Anna added Ben") takes the same transaction      *)
(*     without the steps for its sender;                                   *)
(*   - POST .../read and .../unread read the conversation's last position  *)
(*     in one statement and update the membership in another;              *)
(*   - people join and leave while all of that is running.                 *)
(*                                                                         *)
(* PostgreSQL runs at READ COMMITTED: a statement sees what is committed   *)
(* when it starts.  The variables hold committed rows only; what a running *)
(* transaction wrote is in its request until Commit.  The locks that order *)
(* transactions are derived from where each request stands.                *)
(***************************************************************************)
EXTENDS Integers, FiniteSets

CONSTANTS
  Users,      \* people
  Convs,      \* conversations
  MsgIds,     \* clientMsgId values, each chosen by its sender
  Requests,   \* the requests the API serves at one time
  NoConv,     \* the conversation of an idle request
  MaxSystem,  \* bound: system messages written to one conversation
  NoUser,     \* senderId of a system message
  NoId        \* clientMsgId of a system message

ASSUME LogAssumption ==
  /\ NoUser \notin Users
  /\ NoId \notin MsgIds
  /\ NoConv \notin Convs
  /\ MaxSystem \in Nat

VARIABLES
  lastSeq,    \* conversations.last_seq
  rows,       \* the messages table
  members,    \* the active memberships of each conversation
  lastRead,   \* memberships.last_read_seq
  published,  \* messages announced with message.new
  req         \* what each request is doing

vars == <<lastSeq, rows, members, lastRead, published, req>>

-----------------------------------------------------------------------------
Authors == Users \cup {NoUser}
Ids == MsgIds \cup {NoId}

Rows == [conv : Convs, seq : Nat, sender : Authors, id : Ids]

(* The steps of a send are its statements, in order; a mark is the second  *)
(* statement of markRead or markUnread.                                    *)
SendSteps == {"dedupe", "lock", "member", "insert", "commit", "publish"}
MarkSteps == {"markRead", "markUnread"}
Steps == SendSteps \cup MarkSteps \cup {"idle", "answered"}
Outcomes ==
  {"none", "sent", "notMember", "idConflict", "uniqueViolation", "attachmentGone"}

(* A request: where it stands, for whom, in which conversation, under      *)
(* which id, the position it was given or is to write, and how it ended.   *)
RequestStates ==
  [at : Steps, conv : Convs \cup {NoConv}, user : Authors, id : Ids,
   seq : Nat, outcome : Outcomes]

Request(step, c, u, k, n) ==
  [at |-> step, conv |-> c, user |-> u, id |-> k, seq |-> n,
   outcome |-> "none"]

Idle == Request("idle", NoConv, NoUser, NoId, 0)

TypeOK ==
  /\ lastSeq \in [Convs -> Nat]
  /\ rows \subseteq Rows
  /\ members \in [Convs -> SUBSET Users]
  /\ lastRead \in [Convs -> [Users -> Nat]]
  /\ published \subseteq Rows
  /\ req \in [Requests -> RequestStates]
  /\ \A r \in Requests : req[r].at # "idle" => req[r].conv \in Convs

-----------------------------------------------------------------------------
(* Locks.                                                                  *)

(* Between its UPDATE of the conversation and its commit a transaction     *)
(* holds the row lock of the conversation.                                 *)
InTx(r) == req[r].at \in {"member", "insert", "commit"}
HoldsLock(r, c) == InTx(r) /\ req[r].conv = c

(* Between its INSERT and its commit it holds the key (sender,             *)
(* clientMsgId) in the unique index: another INSERT of that key waits.     *)
HoldsKey(r, u, k) == req[r].at = "commit" /\ req[r].user = u /\ req[r].id = k

(* The committed message a sender already has under an id.                 *)
SentAs(u, k) == {m \in rows : m.sender = u /\ m.id = k}

(* The row a transaction inserts.                                          *)
NewRow(r) == [conv |-> req[r].conv, seq |-> req[r].seq,
              sender |-> req[r].user, id |-> req[r].id]

Goto(r, step) == req' = [req EXCEPT ![r].at = step]

Answer(r, outcome) ==
  req' = [req EXCEPT ![r].at = "answered", ![r].outcome = outcome]

Tables == <<lastSeq, rows, members, lastRead>>

-----------------------------------------------------------------------------
(* Mutants: what a bug in one statement would look like.  No action uses   *)
(* them; each breaks a property below.                                     *)

(* "Mark as unread" of an empty conversation goes below zero.              *)
StartMarkUnreadEmpty(r, u, c) ==
  /\ req[r].at = "idle"
  /\ u \in members[c]
  /\ req' = [req EXCEPT ![r] =
               Request("markUnread", c, u, NoId, lastSeq[c] - 1)]
  /\ UNCHANGED <<Tables, published>>

(* The position is read without taking the row lock.                       *)
LockConversationUnlocked(r) ==
  /\ req[r].at = "lock"
  /\ req' = [req EXCEPT ![r].seq = lastSeq[req[r].conv] + 1,
                        ![r].at = IF req[r].user = NoUser THEN "insert"
                                                          ELSE "member"]
  /\ UNCHANGED <<Tables, published>>

(* No unique index behind the look-up of the client id.                    *)
InsertRowUnindexed(r) ==
  /\ req[r].at = "insert"
  /\ Goto(r, "commit")
  /\ UNCHANGED <<Tables, published>>

(* The event is published from inside the transaction.                     *)
InsertRowAnnounced(r) ==
  /\ req[r].at = "insert"
  /\ \/ req[r].user = NoUser
     \/ /\ SentAs(req[r].user, req[r].id) = {}
        /\ \A q \in Requests : ~HoldsKey(q, req[r].user, req[r].id)
  /\ Goto(r, "commit")
  /\ published' = published \cup {NewRow(r)}
  /\ UNCHANGED Tables

(* A retry is recognised by its id alone, in whichever conversation.       *)
DedupeAnywhere(r) ==
  /\ req[r].at = "dedupe"
  /\ LET sent == SentAs(req[r].user, req[r].id)
     IN  \/ sent = {} /\ Goto(r, "lock")
         \/ \E m \in sent :
              req' = [req EXCEPT ![r].at = "publish", ![r].seq = m.seq]
  /\ UNCHANGED <<Tables, published>>

(* The position to mark as read is taken from the client as it is.         *)
StartMarkReadUnclamped(r, u, c, n) ==
  /\ req[r].at = "idle"
  /\ u \in members[c]
  /\ req' = [req EXCEPT ![r] = Request("markRead", c, u, NoId, n)]
  /\ UNCHANGED <<Tables, published>>

(* The read position is assigned, not raised.                              *)
MarkReadAssigned(r) ==
  /\ req[r].at = "markRead"
  /\ lastRead' = IF req[r].user \in members[req[r].conv]
                 THEN [lastRead EXCEPT ![req[r].conv][req[r].user] = req[r].seq]
                 ELSE lastRead
  /\ req' = [req EXCEPT ![r] = Idle]
  /\ UNCHANGED <<lastSeq, rows, members, published>>

(* The position is counted from the messages, the column left behind.      *)
CommitUncounted(r) ==
  /\ req[r].at = "commit"
  /\ rows' = rows \cup {NewRow(r)}
  /\ Goto(r, "publish")
  /\ UNCHANGED <<lastSeq, lastRead, members, published>>

(* A sender who left keeps the transaction waiting instead of failing it.  *)
CheckMemberPatient(r) ==
  /\ req[r].at = "member"
  /\ req[r].user \in members[req[r].conv]
  /\ Goto(r, "insert")
  /\ UNCHANGED <<Tables, published>>

-----------------------------------------------------------------------------
Init ==
  /\ lastSeq = [c \in Convs |-> 0]
  /\ rows = {}
  /\ members = [c \in Convs |-> Users]
  /\ lastRead = [c \in Convs |-> [u \in Users |-> 0]]
  /\ published = {}
  /\ req = [r \in Requests |-> Idle]

(* MessagesService.send, up to the transaction.  The block, reply-target   *)
(* and attachment checks that follow only refuse: they write nothing.      *)
StartSend(r, u, c, k) ==
  /\ req[r].at = "idle"
  /\ u \in members[c]
  /\ req' = [req EXCEPT ![r] = Request("dedupe", c, u, k, 0)]
  /\ UNCHANGED <<Tables, published>>

(* ConversationsService.postSystemMessage: no sender, no id, so the        *)
(* transaction begins with the conversation's UPDATE.                      *)
SystemWork(c) ==
  {m \in rows : m.conv = c /\ m.sender = NoUser}
SystemPending(c) ==
  {r \in Requests : /\ req[r].at \in SendSteps \ {"publish"}
                    /\ req[r].conv = c
                    /\ req[r].user = NoUser}

StartSystem(r, c) ==
  /\ req[r].at = "idle"
  /\ Cardinality(SystemWork(c)) + Cardinality(SystemPending(c)) < MaxSystem
  /\ req' = [req EXCEPT ![r] = Request("lock", c, NoUser, NoId, 0)]
  /\ UNCHANGED <<Tables, published>>

(* findByClientMsgId: nothing yet, the message itself (a retry), or a      *)
(* message of another conversation.                                        *)
Dedupe(r) ==
  /\ req[r].at = "dedupe"
  /\ LET sent == SentAs(req[r].user, req[r].id)
     IN  \/ sent = {} /\ Goto(r, "lock")
         \/ \E m \in sent :
              /\ m.conv = req[r].conv
              /\ req' = [req EXCEPT ![r].at = "publish", ![r].seq = m.seq]
         \/ \E m \in sent : m.conv # req[r].conv /\ Answer(r, "idConflict")
  /\ UNCHANGED <<Tables, published>>

(* UPDATE conversations SET last_seq = last_seq + 1 ... RETURNING: waits   *)
(* for the row lock, then reads the latest committed position.             *)
LockConversation(r) ==
  /\ req[r].at = "lock"
  /\ \A q \in Requests : ~HoldsLock(q, req[r].conv)
  /\ req' = [req EXCEPT ![r].seq = lastSeq[req[r].conv] + 1,
                        ![r].at = IF req[r].user = NoUser THEN "insert"
                                                          ELSE "member"]
  /\ UNCHANGED <<Tables, published>>

(* The membership check inside the transaction; a failure rolls back.      *)
CheckMember(r) ==
  /\ req[r].at = "member"
  /\ IF req[r].user \in members[req[r].conv]
     THEN Goto(r, "insert")
     ELSE Answer(r, "notMember")
  /\ UNCHANGED <<Tables, published>>

(* INSERT INTO messages.  A key another transaction is inserting makes it  *)
(* wait; a key that is committed by then fails it, and the transaction is  *)
(* rolled back.  No caller catches that failure: the client is answered    *)
(* with a server error.                                                    *)
InsertRow(r) ==
  /\ req[r].at = "insert"
  /\ \/ req[r].user = NoUser
     \/ /\ SentAs(req[r].user, req[r].id) = {}
        /\ \A q \in Requests : ~HoldsKey(q, req[r].user, req[r].id)
  /\ Goto(r, "commit")
  /\ UNCHANGED <<Tables, published>>

InsertRefused(r) ==
  /\ req[r].at = "insert"
  /\ req[r].user # NoUser
  /\ SentAs(req[r].user, req[r].id) # {}
  /\ Answer(r, "uniqueViolation")
  /\ UNCHANGED <<Tables, published>>

(* linkAttachmentToMessage found the attachment taken or swept: the INSERT *)
(* is rolled back.                                                         *)
AttachmentGone(r) ==
  /\ req[r].at = "commit"
  /\ req[r].user # NoUser
  /\ Answer(r, "attachmentGone")
  /\ UNCHANGED <<Tables, published>>

(* The sender's own read position, then COMMIT.  The UPDATE of the         *)
(* membership does not ask whether the member has left.                    *)
Commit(r) ==
  /\ req[r].at = "commit"
  /\ LET c == req[r].conv
         u == req[r].user
         n == req[r].seq
     IN  /\ lastSeq' = [lastSeq EXCEPT ![c] = n]
         /\ rows' = rows \cup {NewRow(r)}
         /\ lastRead' = [d \in Convs |-> [v \in Users |->
              IF d = c /\ v = u /\ lastRead[d][v] < n THEN n
                                                      ELSE lastRead[d][v]]]
  /\ Goto(r, "publish")
  /\ UNCHANGED <<members, published>>

(* message.new, for a new message and for a retried one alike, and then    *)
(* the answer.                                                             *)
Publish(r) ==
  /\ req[r].at = "publish"
  /\ published' = published \cup {NewRow(r)}
  /\ Answer(r, "sent")
  /\ UNCHANGED Tables

(* The response reaches the client, or the connection is gone: either way  *)
(* the request is over.                                                    *)
Finish(r) ==
  /\ req[r].at = "answered"
  /\ req' = [req EXCEPT ![r] = Idle]
  /\ UNCHANGED <<Tables, published>>

(* The node stops or loses its database connection.  PostgreSQL rolls back *)
(* what was not committed; what was committed stays, unannounced.          *)
Crash(r) ==
  /\ req[r].at \in SendSteps \cup MarkSteps
  /\ req' = [req EXCEPT ![r] = Idle]
  /\ UNCHANGED <<Tables, published>>

-----------------------------------------------------------------------------
(* ConversationsService.markRead and markUnread: the clamp is computed     *)
(* from the position read first, the UPDATE applied to the row as it is.   *)

StartMarkRead(r, u, c, n) ==
  /\ req[r].at = "idle"
  /\ u \in members[c]
  /\ LET clamped == IF n < lastSeq[c] THEN n ELSE lastSeq[c]
     IN  req' = [req EXCEPT ![r] = Request("markRead", c, u, NoId, clamped)]
  /\ UNCHANGED <<Tables, published>>

StartMarkUnread(r, u, c) ==
  /\ req[r].at = "idle"
  /\ u \in members[c]
  /\ lastSeq[c] # 0
  /\ req' = [req EXCEPT ![r] =
               Request("markUnread", c, u, NoId, lastSeq[c] - 1)]
  /\ UNCHANGED <<Tables, published>>

(* markConversationRead: GREATEST, of an active membership only.           *)
MarkRead(r) ==
  /\ req[r].at = "markRead"
  /\ lastRead' = IF /\ req[r].user \in members[req[r].conv]
                    /\ lastRead[req[r].conv][req[r].user] < req[r].seq
                 THEN [lastRead EXCEPT ![req[r].conv][req[r].user] = req[r].seq]
                 ELSE lastRead
  /\ req' = [req EXCEPT ![r] = Idle]
  /\ UNCHANGED <<lastSeq, rows, members, published>>

(* markConversationUnread: LEAST, of an active membership only.            *)
MarkUnread(r) ==
  /\ req[r].at = "markUnread"
  /\ lastRead' = IF /\ req[r].user \in members[req[r].conv]
                    /\ lastRead[req[r].conv][req[r].user] > req[r].seq
                 THEN [lastRead EXCEPT ![req[r].conv][req[r].user] = req[r].seq]
                 ELSE lastRead
  /\ req' = [req EXCEPT ![r] = Idle]
  /\ UNCHANGED <<lastSeq, rows, members, published>>

-----------------------------------------------------------------------------
(* Membership, as GroupMembership models it: here only its effect.         *)

Leave(u, c) ==
  /\ u \in members[c]
  /\ members' = [members EXCEPT ![c] = @ \ {u}]
  /\ UNCHANGED <<lastSeq, rows, lastRead, published, req>>

(* A returning member finds the read position they left with.              *)
Join(u, c) ==
  /\ u \notin members[c]
  /\ members' = [members EXCEPT ![c] = @ \cup {u}]
  /\ UNCHANGED <<lastSeq, rows, lastRead, published, req>>

-----------------------------------------------------------------------------
Step(r) ==
  \/ Dedupe(r) \/ LockConversation(r) \/ CheckMember(r)
  \/ InsertRow(r) \/ InsertRefused(r) \/ Commit(r)
  \/ Publish(r) \/ Finish(r)
  \/ MarkRead(r) \/ MarkUnread(r)

Positions == 0..(Cardinality(Users) * Cardinality(MsgIds) + MaxSystem + 1)

Next ==
  \/ \E r \in Requests :
       \/ Step(r) \/ AttachmentGone(r) \/ Crash(r)
       \/ \E c \in Convs : StartSystem(r, c)
       \/ \E u \in Users, c \in Convs :
            \/ \E k \in MsgIds : StartSend(r, u, c, k)
            \/ \E n \in Positions : StartMarkRead(r, u, c, n)
            \/ StartMarkUnread(r, u, c)
  \/ \E u \in Users, c \in Convs : Leave(u, c) \/ Join(u, c)

Spec == Init /\ [][Next]_vars

(* A running request goes on by itself.  PostgreSQL serves a row lock to   *)
(* its waiters in turn, and a key of a unique index likewise, so a         *)
(* transaction that finds it free again and again gets it: strong fairness.*)
Fairness ==
  \A r \in Requests :
    WF_vars(Step(r)) /\ SF_vars(LockConversation(r) \/ InsertRow(r))

FairSpec == Spec /\ Fairness

-----------------------------------------------------------------------------
(* Properties.                                                             *)

(* Positions of a conversation are 1, 2, ... lastSeq without a gap and     *)
(* without a second message at one position, whatever transactions ran     *)
(* together, rolled back or died: "the row lock serialises appends".       *)
(* listMessagesAfter and every unread count rely on it.                    *)
GaplessLog ==
  /\ \A c \in Convs : {m.seq : m \in {n \in rows : n.conv = c}} = 1..lastSeq[c]
  /\ \A m, n \in rows : m.conv = n.conv /\ m.seq = n.seq => m = n

(* A client id is used up by one message: however often a send is retried, *)
(* and in whichever conversation, its sender has one message under it.     *)
SentOnce ==
  \A m, n \in rows :
    m.sender # NoUser /\ m.sender = n.sender /\ m.id = n.id => m = n

(* Nobody hears of a message a rolled-back transaction took away again.    *)
AnnouncedIsCommitted == published \subseteq rows

(* The client that is told "sent" can rely on it: that very message, under *)
(* its id and in the conversation it was sent to, is committed and has     *)
(* been announced, also when the answer is to a retry after a crash.       *)
SentIsLoggedAndAnnounced ==
  \A r \in Requests :
    req[r].at = "answered" /\ req[r].outcome = "sent"
      => NewRow(r) \in rows \cap published

(* Nobody has read further than the conversation goes, although the clamp  *)
(* of markRead and the positions of sends are computed before the UPDATE   *)
(* that writes them, and roll-backs give positions back.                   *)
ReadWithinLog ==
  \A c \in Convs, u \in Users : lastRead[c][u] <= lastSeq[c]

(* A read position goes back only when its owner asks for "mark as         *)
(* unread": a late markRead and a send racing it never un-read anything.   *)
ReadGoesForward ==
  [][\A c \in Convs, u \in Users :
       lastRead'[c][u] < lastRead[c][u]
         => \E r \in Requests : /\ req[r].at = "markUnread"
                               /\ req[r].user = u
                               /\ req[r].conv = c
                               /\ req'[r].at = "idle"]_vars

(* No request waits for ever, for the row lock, for the key of the unique  *)
(* index or for another request that waits for it.                         *)
EveryRequestEnds ==
  \A r \in Requests : []<>(req[r].at = "idle")

(* What orders the transactions, and what the proofs rest on: a            *)
(* transaction that has its position is alone in its conversation and      *)
(* holds the next one; one that holds its key has no rival for it,         *)
(* committed or not; a request about to announce a message, or done with   *)
(* it, has it in the table; a mark was clamped to a position that exists.  *)
LocksHeld ==
  \A r \in Requests : InTx(r) =>
    /\ req[r].seq = lastSeq[req[r].conv] + 1
    /\ \A q \in Requests : HoldsLock(q, req[r].conv) => q = r

KeysHeld ==
  \A r \in Requests : req[r].at = "commit" /\ req[r].user # NoUser =>
    /\ SentAs(req[r].user, req[r].id) = {}
    /\ \A q \in Requests : HoldsKey(q, req[r].user, req[r].id) => q = r

AnnouncesItsRow ==
  \A r \in Requests : req[r].at = "publish" => NewRow(r) \in rows

MarksWithinLog ==
  \A r \in Requests :
    req[r].at = "markRead" => req[r].seq <= lastSeq[req[r].conv]

TransactionsOrdered ==
  LocksHeld /\ KeysHeld /\ AnnouncesItsRow /\ MarksWithinLog

(* The tables as the logs they promise to be.                              *)
EntryAt(c, i) ==
  LET m == CHOOSE m \in rows : m.conv = c /\ m.seq = i
  IN  [author |-> m.sender, id |-> m.id]

Logs == [c \in Convs |-> [i \in 1..lastSeq[c] |-> EntryAt(c, i)]]

Abstract == INSTANCE ConversationLog
  WITH log <- Logs, Authors <- Users, NoAuthor <- NoUser, NoMsgId <- NoId

(* The transaction implements the append-only log: a committed message is  *)
(* never moved, replaced or removed, and a new one is the next one.        *)
ImplementsLog == Abstract!Spec

-----------------------------------------------------------------------------
(* A statement of the comments that the code does not keep.                *)

(* "Idempotent on (senderId, clientMsgId): a retry returns the original    *)
(* message instead of a duplicate."                                        *)
RetryFindsOriginal ==
  \A r \in Requests :
    /\ req[r].at = "answered"
    /\ \E m \in SentAs(req[r].user, req[r].id) : m.conv = req[r].conv
    => req[r].outcome # "uniqueViolation"
=============================================================================
