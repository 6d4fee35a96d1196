--------------------------- MODULE GroupMembership ---------------------------
(***************************************************************************)
(* The people of one group: adding, removing and leaving, with the hand-   *)
(* over of the admin role, one SQL statement per step, and the sockets     *)
(* that hear the group's messages.                                         *)
(*                                                                         *)
(* PostgreSQL runs at READ COMMITTED: the variables hold committed rows,   *)
(* what a running transaction changed is in its request until its commit.  *)
(* An UPDATE locks the row it changes until then, and waits for such a     *)
(* lock of another transaction.  The system messages that follow a change  *)
(* are StartSystem of MessageLog.                                          *)
(***************************************************************************)
EXTENDS Naturals, FiniteSets

CONSTANTS
  Users,      \* people
  Founders,   \* the people the group is created with
  Creator,    \* the one who creates it, and its first admin
  Requests,   \* the requests the API serves at one time
  Online,     \* bound: the people who open a socket
  Nodes,      \* API nodes
  ServedBy,   \* the node of each request
  SocketNode, \* the node each person's socket is connected to
  MaxMembers, \* LIMITS.groupMaxMembers
  MaxAdds,    \* bound: transactions that add people
  NoUser

ASSUME GroupAssumption ==
  /\ Founders \subseteq Users
  /\ Creator \in Founders
  /\ Online \subseteq Users
  /\ ServedBy \in [Requests -> Nodes]
  /\ SocketNode \in [Users -> Nodes]
  /\ IsFiniteSet(Users)
  /\ MaxMembers \in Nat
  /\ Cardinality(Founders) <= MaxMembers  \* createGroup refuses more
  /\ MaxAdds \in Nat
  /\ NoUser \notin Users

VARIABLES
  active,  \* the memberships whose left_at is not set
  role,    \* the role column, which outlives the membership
  joined,  \* joined_at: the number of the transaction that set it
  clock,   \* how many adding transactions have begun
  serial,  \* history: no two operations were under way at once so far
  req,     \* what each request is doing
  socket,  \* each person's realtime connection
  hears    \* the people whose socket is registered for the group

rowvars == <<active, role, joined, clock, serial>>
netvars == <<socket, hears>>
vars == <<rowvars, req, netvars>>

-----------------------------------------------------------------------------
AddSteps == {"count", "select", "upsert", "hear"}
LeaveSteps == {"update", "otherAdmin", "oldest", "promote", "commit", "unhear"}
Steps == AddSteps \cup LeaveSteps \cup {"idle"}

(* A request: its next statement, the person who leaves and whether they   *)
(* are made to, the one promoted in their place; the people to add, and    *)
(* when that transaction began.                                            *)
RequestStates ==
  [at : Steps, target : Users \cup {NoUser}, removed : BOOLEAN,
   promoted : Users \cup {NoUser}, people : SUBSET Users, time : Nat]

Request(step, u, removed, S) ==
  [at |-> step, target |-> u, removed |-> removed, promoted |-> NoUser,
   people |-> S, time |-> 0]

Idle == Request("idle", NoUser, FALSE, {})

(* A connection that has loaded its conversations before it is registered  *)
(* may have seen the group or not.                                         *)
SocketStates == {"none", "loadedWith", "loadedWithout", "open"}

TypeOK ==
  /\ active \subseteq Users
  /\ role \in [Users -> {"admin", "member"}]
  /\ joined \in [Users -> Nat]
  /\ clock \in Nat
  /\ serial \in BOOLEAN
  /\ req \in [Requests -> RequestStates]
  /\ \A r \in Requests : req[r].at \in LeaveSteps => req[r].target \in Users
  /\ socket \in [Users -> SocketStates]
  /\ hears \subseteq {u \in Users : socket[u] = "open"}

-----------------------------------------------------------------------------
IsAdmin(u) == u \in active /\ role[u] = "admin"

(* The membership rows a transaction has locked: the one it ended, and the *)
(* one it promoted.                                                        *)
Locked(r) ==
  CASE req[r].at \in {"otherAdmin", "oldest", "promote"} -> {req[r].target}
    [] req[r].at = "commit" -> {req[r].target, req[r].promoted} \ {NoUser}
    [] OTHER -> {}

Free(r, S) == \A q \in Requests \ {r} : Locked(q) \cap S = {}

Goto(r, step) == req' = [req EXCEPT ![r].at = step]
Done(r) == req' = [req EXCEPT ![r] = Idle]

Begin(r, request) ==
  /\ req[r] = Idle
  /\ req' = [req EXCEPT ![r] = request]
  /\ serial' = (serial /\ \A q \in Requests : req[q] = Idle)
  /\ UNCHANGED <<active, role, joined, clock, netvars>>

-----------------------------------------------------------------------------
(* Mutants: what a bug in one statement would look like.  No action uses   *)
(* them; each breaks a property below.                                     *)

(* A leaving admin is not looked at any closer than anybody else.          *)
MarkLeftPlainly(r) ==
  LET u == req[r].target
  IN  /\ req[r].at = "update"
      /\ Free(r, {u})
      /\ active' = active \ {u}
      /\ IF u \notin active /\ req[r].removed THEN Done(r) ELSE Goto(r, "unhear")
      /\ UNCHANGED <<role, joined, clock, serial, netvars>>

(* The oldest row is taken for granted.                                    *)
FindOldestUnchecked(r) ==
  /\ req[r].at = "oldest"
  /\ \E v \in active \ {req[r].target} :
       /\ \A w \in active \ {req[r].target} : joined[v] <= joined[w]
       /\ req' = [req EXCEPT ![r].at = "promote", ![r].promoted = v]
  /\ UNCHANGED <<rowvars, netvars>>

(* ORDER BY joined_at DESC.                                                *)
OldestLast(S) == {v \in S : \A w \in S : joined[v] >= joined[w]}

(* The people to add are not counted.                                      *)
CountMembersPresent(r) ==
  /\ req[r].at = "count"
  /\ IF Cardinality(active) >= MaxMembers THEN Done(r) ELSE Goto(r, "select")
  /\ UNCHANGED <<rowvars, netvars>>

(* A returning member's row keeps its role.                                *)
UpsertAsBefore(r) ==
  LET S == req[r].people
  IN  /\ req[r].at = "upsert"
      /\ Free(r, S)
      /\ active' = active \cup S
      /\ joined' = [u \in Users |-> IF u \in S THEN req[r].time ELSE joined[u]]
      /\ Goto(r, "hear")
      /\ UNCHANGED <<role, clock, serial, netvars>>

(* A closed socket stays in the registry of the conversation.              *)
UnregisterPartly(u) ==
  /\ socket[u] # "none"
  /\ socket' = [socket EXCEPT ![u] = "none"]
  /\ UNCHANGED <<rowvars, req, hears>>

-----------------------------------------------------------------------------
(* createGroup: everybody joins at the same instant.                       *)
Init ==
  /\ active = Founders
  /\ role = [u \in Users |-> IF u = Creator THEN "admin" ELSE "member"]
  /\ joined = [u \in Users |-> 0]
  /\ clock = 0
  /\ serial = TRUE
  /\ req = [r \in Requests |-> Idle]
  /\ socket = [u \in Users |-> "none"]
  /\ hears = {}

(* leave: the membership is looked up before the transaction.              *)
StartLeave(r, u) ==
  /\ u \in active
  /\ Begin(r, Request("update", u, FALSE, {}))

(* removeMember: an admin removes somebody else.                           *)
StartRemove(r, a, u) ==
  /\ IsAdmin(a)
  /\ u # a
  /\ Begin(r, Request("update", u, TRUE, {}))

(* addMembers: an admin adds people.                                       *)
Adding == {r \in Requests : req[r].at \in {"count", "select"}}

StartAdd(r, a, S) ==
  /\ clock + Cardinality(Adding) < MaxAdds
  /\ IsAdmin(a)
  /\ S # {}
  /\ Begin(r, Request("count", NoUser, FALSE, S))

-----------------------------------------------------------------------------
(* leaveConversation.                                                      *)

(* UPDATE ... SET left_at WHERE left_at IS NULL RETURNING: who is gone     *)
(* already does not leave again (removeMember answers 404, leave goes on   *)
(* to the sockets all the same), who is no admin needs no successor.       *)
MarkLeft(r) ==
  LET u == req[r].target
  IN  /\ req[r].at = "update"
      /\ Free(r, {u})
      /\ active' = IF IsAdmin(u) THEN active ELSE active \ {u}
      /\ CASE IsAdmin(u) -> Goto(r, "otherAdmin")
           [] u \notin active /\ req[r].removed -> Done(r)
           [] OTHER -> Goto(r, "unhear")
      /\ UNCHANGED <<role, joined, clock, serial, netvars>>

FindAdmin(r) ==
  /\ req[r].at = "otherAdmin"
  /\ Goto(r, IF \E v \in active \ {req[r].target} : role[v] = "admin"
             THEN "commit" ELSE "oldest")
  /\ UNCHANGED <<rowvars, netvars>>

(* ORDER BY joined_at LIMIT 1, which leaves a tie open.                    *)
Oldest(S) == {v \in S : \A w \in S : joined[v] <= joined[w]}

FindOldest(r) ==
  LET rest == active \ {req[r].target}
  IN  /\ req[r].at = "oldest"
      /\ IF rest = {}
         THEN Goto(r, "commit")
         ELSE \E v \in Oldest(rest) :
                req' = [req EXCEPT ![r].at = "promote", ![r].promoted = v]
      /\ UNCHANGED <<rowvars, netvars>>

(* UPDATE ... SET role = 'admin': of that row, active or not.              *)
Promote(r) ==
  /\ req[r].at = "promote"
  /\ Free(r, {req[r].promoted})
  /\ Goto(r, "commit")
  /\ UNCHANGED <<rowvars, netvars>>

CommitLeave(r) ==
  /\ req[r].at = "commit"
  /\ active' = active \ {req[r].target}
  /\ role' = [u \in Users |-> IF u = req[r].promoted THEN "admin" ELSE role[u]]
  /\ Goto(r, "unhear")
  /\ UNCHANGED <<joined, clock, serial, netvars>>

(* removeConversationForUser: the sockets of this node only.               *)
Unhear(r) ==
  LET u == req[r].target
  IN  /\ req[r].at = "unhear"
      /\ hears' = IF SocketNode[u] = ServedBy[r] THEN hears \ {u} ELSE hears
      /\ Done(r)
      /\ UNCHANGED <<rowvars, socket>>

-----------------------------------------------------------------------------
(* addMembers.                                                             *)

CountMembers(r) ==
  /\ req[r].at = "count"
  /\ IF Cardinality(active) + Cardinality(req[r].people) > MaxMembers
     THEN Done(r)
     ELSE Goto(r, "select")
  /\ UNCHANGED <<rowvars, netvars>>

(* addGroupMembers begins: now() is the time of this statement.            *)
SelectNew(r) ==
  LET toAdd == req[r].people \ active
  IN  /\ req[r].at = "select"
      /\ clock' = clock + 1
      /\ IF toAdd = {}
         THEN Done(r)
         ELSE req' = [req EXCEPT ![r].at = "upsert", ![r].people = toAdd,
                                 ![r].time = clock + 1]
      /\ UNCHANGED <<active, role, joined, serial, netvars>>

(* INSERT ... ON CONFLICT DO UPDATE SET left_at = NULL, role = 'member',   *)
(* joined_at = now(), whatever the rows say by then, and COMMIT.           *)
Upsert(r) ==
  LET S == req[r].people
  IN  /\ req[r].at = "upsert"
      /\ Free(r, S)
      /\ active' = active \cup S
      /\ role' = [u \in Users |-> IF u \in S THEN "member" ELSE role[u]]
      /\ joined' = [u \in Users |-> IF u \in S THEN req[r].time ELSE joined[u]]
      /\ Goto(r, "hear")
      /\ UNCHANGED <<clock, serial, netvars>>

(* addConversationForUser: the open sockets of this node only.             *)
Hear(r) ==
  /\ req[r].at = "hear"
  /\ hears' = hears \cup {u \in req[r].people :
                             socket[u] = "open" /\ SocketNode[u] = ServedBy[r]}
  /\ Done(r)
  /\ UNCHANGED <<rowvars, socket>>

(* The request fails or its node loses the database: roll-back.            *)
Abort(r) ==
  /\ req[r].at \notin {"idle", "hear", "unhear"}
  /\ Done(r)
  /\ UNCHANGED <<rowvars, netvars>>

-----------------------------------------------------------------------------
(* handleConnection: the conversations are loaded, then the socket is      *)
(* registered for them.                                                    *)

LoadConversations(u) ==
  /\ u \in Online
  /\ socket[u] = "none"
  /\ socket' = [socket EXCEPT ![u] =
                  IF u \in active THEN "loadedWith" ELSE "loadedWithout"]
  /\ UNCHANGED <<rowvars, req, hears>>

Register(u) ==
  /\ socket[u] \in {"loadedWith", "loadedWithout"}
  /\ socket' = [socket EXCEPT ![u] = "open"]
  /\ hears' = IF socket[u] = "loadedWith" THEN hears \cup {u} ELSE hears
  /\ UNCHANGED <<rowvars, req>>

Unregister(u) ==
  /\ socket[u] # "none"
  /\ socket' = [socket EXCEPT ![u] = "none"]
  /\ hears' = hears \ {u}
  /\ UNCHANGED <<rowvars, req>>

-----------------------------------------------------------------------------
Step(r) ==
  \/ MarkLeft(r) \/ FindAdmin(r) \/ FindOldest(r) \/ Promote(r)
  \/ CommitLeave(r) \/ Unhear(r)
  \/ CountMembers(r) \/ SelectNew(r) \/ Upsert(r) \/ Hear(r)

Next ==
  \/ \E r \in Requests :
       \/ Step(r) \/ Abort(r)
       \/ \E u \in Users : StartLeave(r, u)
       \/ \E a, u \in Users : StartRemove(r, a, u)
       \/ \E a \in Users, S \in SUBSET Users : StartAdd(r, a, S)
  \/ \E u \in Users : LoadConversations(u) \/ Register(u) \/ Unregister(u)

Spec == Init /\ [][Next]_vars

(* A request goes on by itself, and the row locks it waits for are served  *)
(* in turn.                                                                *)
Fairness ==
  \A r \in Requests :
    WF_vars(Step(r)) /\ SF_vars(MarkLeft(r) \/ Promote(r) \/ Upsert(r))

FairSpec == Spec /\ Fairness

-----------------------------------------------------------------------------
(* Properties.                                                             *)

Admins == {u \in Users : IsAdmin(u)}

(* The admin role is handed on, never copied: however many leave, return   *)
(* and are removed at once, nobody is promoted beside an admin who stays,  *)
(* and nobody comes back with the role they left with.                     *)
AtMostOneAdmin == Cardinality(Admins) <= 1

(* No operation waits for ever: the row locks of those who leave and of    *)
(* those they promote never form a circle.                                 *)
EveryOperationEnds ==
  \A r \in Requests : []<>(req[r].at = "idle")

(* "a concurrent leave/remove can never observe (or produce) a group with  *)
(* active members but no admin at all".  It holds as long as operations    *)
(* run one at a time.                                                      *)
AlwaysAnAdmin == active # {} => Admins # {}

(* "A group can have at most" MaxMembers "members": likewise.              *)
WithinLimit == Cardinality(active) <= MaxMembers

(* While operations run one at a time both hold, and whoever is promoted   *)
(* has been in the group longer than anybody who stays                     *)
(* (conversations.ts:521).                                                 *)
OldestPromoted ==
  \A u \in Users : role[u] # "admin" /\ role'[u] = "admin"
    => \A v \in active' : joined'[u] <= joined'[v]

GroupSound ==
  /\ [](serial => AlwaysAnAdmin /\ WithinLimit)
  /\ [][serial' => OldestPromoted]_vars

(* "removed members stop receiving messages immediately": once nobody is   *)
(* about to unregister it, the socket of someone who left does not hear    *)
(* the group any more.                                                     *)
RemovedHearNothing ==
  \A u \in hears \ active :
    \E r \in Requests : req[r].at = "unhear" /\ req[r].target = u
=============================================================================
