--------------------------- MODULE AccountDeletion ---------------------------
(* Deleting an account while others start chats with it and add it to groups, *)
(* and while it still sends and edits its profile: transactions that meet at  *)
(* the row of that person, locked for share by whoever makes a member of it   *)
(* and exclusively by the deletion.                                           *)
(* apps/api/src: users/account.service.ts, db/{account,live-users,users}.ts,  *)
(* conversations.service.ts, findOrCreateDirectConversation,                  *)
(* createGroupConversation and addGroupMembers of db/conversations.ts.        *)
(*                                                                            *)
(* One person, another one who is never deleted, one direct chat and one      *)
(* group of theirs.  A statement runs on what is committed (READ COMMITTED).  *)
EXTENDS Integers, FiniteSets

CONSTANTS Requests, MaxCrashes

VARIABLES
  deleted,   \* the person's row: deletedAt
  profile,   \* their name, email and picture, or the husk's
  sharing,   \* requests that lock the row for share (a foreign key's check too)
  exclusive, \* requests that lock it for update: at most one
  chat,      \* the direct chat: "none", committed as "made", or being inserted
  inserting, \* requests whose insert of the direct chat is not committed
  group,     \* the group exists
  active,    \* conversations the person is an active member of
  texts,     \* their messages that are not erased
  req,       \* req[r]: what r does, where it is, and what it has read
  begun,     \* requests of the person not finished when the deletion committed
  got,       \* starts of the direct chat answered with it
  crashes

vars == <<deleted, profile, sharing, exclusive, chat, inserting, group, active, texts, req, begun,
          got, crashes>>
locks == <<sharing, exclusive>>
rows == <<deleted, profile, chat, group, active, texts>>

Convs == {"chat", "group"}
Theirs == {"start", "create", "add"}           \* of the other person
Own == {"start-own", "send", "edit", "delete"} \* of the person itself
Joining == {"start", "start-own", "create", "add"}
Idle == [do |-> "none", at |-> "done", list |-> {}]

TypeOK ==
  /\ deleted \in BOOLEAN /\ profile \in {"own", "husk"} /\ group \in BOOLEAN
  /\ sharing \subseteq Requests /\ exclusive \subseteq Requests /\ inserting \subseteq Requests
  /\ chat \in {"none", "made"} /\ active \subseteq Convs /\ texts \subseteq Convs
  /\ req \in [Requests -> [do : Theirs \cup Own \cup {"none"}, list : SUBSET Convs,
                           at : {"begun", "checked", "locked", "inserted", "erased", "done"}]]
  /\ begun \subseteq Requests /\ got \subseteq Requests /\ crashes \in 0..MaxCrashes

\* The group is one the person is in, was never in, or is still to be made.
Init ==
  /\ deleted = FALSE /\ profile = "own" /\ sharing = {} /\ exclusive = {}
  /\ chat = "none" /\ inserting = {} /\ group \in BOOLEAN
  /\ active \in (IF group THEN {{}, {"group"}} ELSE {{}}) /\ texts = active
  /\ req = [r \in Requests |-> Idle] /\ begun = {} /\ got = {} /\ crashes = 0

At(r, do, at) == req[r].do \in do /\ req[r].at = at
Go(r, at) == req' = [req EXCEPT ![r].at = at]
End(r) == Go(r, "done") /\ sharing' = sharing \ {r} /\ exclusive' = exclusive \ {r}

\* Each request is checked as it begins: the person's own by their token, the
\* other's by reading the row.
BeginUnchecked(r, do) ==
  /\ req[r] = Idle /\ req' = [req EXCEPT ![r] = [do |-> do, at |-> "begun", list |-> {}]]
  /\ UNCHANGED <<rows, locks, inserting, begun, got, crashes>>
Begin(r, do) == ~deleted /\ BeginUnchecked(r, do)

(*************************** Becoming a member ****************************)

\* findOrCreateDirectConversation finds the chat.
FindChat(r) ==
  /\ At(r, {"start", "start-own"}, "begun")
  /\ IF chat = "made" THEN Go(r, "done") /\ got' = got \cup {r} ELSE Go(r, "checked") /\ got' = got
  /\ UNCHANGED <<rows, locks, inserting, begun, crashes>>

\* addGroupMembers finds them in the group; a new group has nobody.
FindMember(r) ==
  /\ At(r, {"create", "add"}, "begun")
  /\ Go(r, IF req[r].do = "add" /\ (~group \/ "group" \in active) THEN "done" ELSE "checked")
  /\ UNCHANGED <<rows, locks, inserting, begun, got, crashes>>

\* lockLiveUsers waits for a deletion, and then sees it.
LockBlindly(r) ==
  /\ At(r, Joining, "checked") /\ Go(r, "locked")
  /\ UNCHANGED <<rows, locks, inserting, begun, got, crashes>>
LockLiveUsers(r) ==
  /\ At(r, Joining, "checked") /\ exclusive = {}
  /\ IF deleted THEN End(r)
     ELSE Go(r, "locked") /\ sharing' = sharing \cup {r} /\ UNCHANGED exclusive
  /\ UNCHANGED <<rows, inserting, begun, got, crashes>>

\* The insert of a second chat of the two waits for the first, fails on the
\* unique key, and the first is read instead.
InsertChat(r) ==
  /\ At(r, {"start", "start-own"}, "locked") /\ inserting = {}
  /\ IF chat = "none"
       THEN inserting' = {r} /\ Go(r, "inserted") /\ UNCHANGED <<locks, got>>
       ELSE End(r) /\ got' = got \cup {r} /\ UNCHANGED inserting
  /\ UNCHANGED <<rows, begun, crashes>>
CommitChat(r) ==
  /\ At(r, {"start", "start-own"}, "inserted") /\ End(r) /\ inserting' = inserting \ {r}
  /\ chat' = "made" /\ active' = active \cup {"chat"} /\ got' = got \cup {r}
  /\ UNCHANGED <<deleted, profile, group, texts, begun, crashes>>

JoinGroup(r, do) ==
  /\ At(r, {do}, "locked") /\ End(r)
  /\ group' = TRUE /\ active' = active \cup {"group"}
  /\ UNCHANGED <<deleted, profile, chat, texts, inserting, begun, got, crashes>>
CreateGroup(r) == JoinGroup(r, "create")
AddMembers(r) == JoinGroup(r, "add")

(**************************** The person's own ****************************)

\* send: the member is checked under the conversation's lock; the insert waits
\* for the row of its sender, which it refers to.
CheckMember(r, c) ==
  /\ At(r, {"send"}, "begun")
  /\ IF c \in active THEN req' = [req EXCEPT ![r].at = "checked", ![r].list = {c}] ELSE Go(r, "done")
  /\ UNCHANGED <<rows, locks, inserting, begun, got, crashes>>
InsertMessage(r) ==
  /\ At(r, {"send"}, "checked") /\ exclusive = {} /\ Go(r, "inserted") /\ sharing' = sharing \cup {r}
  /\ UNCHANGED <<rows, exclusive, inserting, begun, got, crashes>>
CommitMessage(r) ==
  /\ At(r, {"send"}, "inserted") /\ End(r) /\ texts' = texts \cup req[r].list
  /\ UNCHANGED <<deleted, profile, chat, group, active, inserting, begun, got, crashes>>

\* updateProfile, setAvatarKey: one statement, not conditional on deletedAt.
Edit(r) ==
  /\ At(r, {"edit"}, "begun") /\ exclusive = {} /\ {q \in sharing : req[q].do # "send"} = {}
  /\ Go(r, "done") /\ profile' = "own"
  /\ UNCHANGED <<deleted, chat, group, active, texts, locks, inserting, begun, got, crashes>>

(******************************* Deletion *********************************)

\* lockUserForDeletion waits for whoever shares the row.
LockForDeletion(r) ==
  /\ At(r, {"delete"}, "begun") /\ sharing = {} /\ exclusive = {}
  /\ Go(r, "locked") /\ exclusive' = {r}
  /\ UNCHANGED <<rows, sharing, inserting, begun, got, crashes>>

\* listActiveConversationIds, and leaving each.
ListConversations(r) ==
  /\ At(r, {"delete"}, "locked")
  /\ req' = [req EXCEPT ![r].at = "erased", ![r].list = active]
  /\ UNCHANGED <<rows, locks, inserting, begun, got, crashes>>

\* eraseAccount, and the commit.
Erase(r) ==
  /\ At(r, {"delete"}, "erased") /\ End(r)
  /\ active' = active \ req[r].list /\ deleted' = TRUE /\ profile' = "husk" /\ texts' = {}
  /\ begun' = IF deleted THEN begun
              ELSE {q \in Requests \ {r} : req[q].do \in Own /\ req[q].at # "done"}
  /\ UNCHANGED <<chat, group, inserting, got, crashes>>

\* A node dies, or a transaction fails: it is rolled back.
Crash(r) ==
  /\ crashes < MaxCrashes /\ crashes' = crashes + 1 /\ req[r].at # "done" /\ End(r)
  /\ inserting' = inserting \ {r}
  /\ UNCHANGED <<rows, begun, got>>

Next ==
  \E r \in Requests :
    \/ \E do \in Theirs \cup Own : Begin(r, do)
    \/ FindChat(r) \/ FindMember(r) \/ LockLiveUsers(r) \/ InsertChat(r) \/ CommitChat(r)
    \/ CreateGroup(r) \/ AddMembers(r)
    \/ \E c \in Convs : CheckMember(r, c)
    \/ InsertMessage(r) \/ CommitMessage(r) \/ Edit(r)
    \/ LockForDeletion(r) \/ ListConversations(r) \/ Erase(r) \/ Crash(r)

Spec == Init /\ [][Next]_vars

(****************************** Properties ********************************)

\* "A membership can't slip in while the account is being erased"
\* (live-users.ts:17): a deleted account is an active member of nothing.
NoWayBackIn == deleted => active = {}

\* Whoever starts the chat, both at once too, is answered with it as it stands
\* (conversations.ts:89), and both were made its members.
ChatAsAnswered == got # {} => chat = "made" /\ (deleted \/ "chat" \in active)

\* What is erased stays erased (account.ts:57), but for the requests of that
\* person that were at work when it was.
StaysErased == deleted /\ begun = {} => profile = "husk" /\ texts = {}
=============================================================================
