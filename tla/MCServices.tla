------------------------------ MODULE MCServices ------------------------------
(* Services of the API and the phone's message list, which do not touch each *)
(* other's state: each behaviour chooses a focus and moves that alone.  The   *)
(* initial states leave every fair action disabled, so that fairness asks    *)
(* nothing of the components out of focus.                                   *)
EXTENDS GroupMembership

CONSTANTS u1, u2, u3, r1, r2, n1, n2, c1, c2, k1, NoId, NoConv

VARIABLES
  focus,
  gMembers, gStarted, gEnded, gRooms, gInside, gTokens, gJoin, gRemoving, gHooks,
  gSweep, gFails, gCut,
  mLastSeq, mRows, mMembers, mLastRead, mPublished, mReq,
  tLast, tComing, tMine, tSocket, tScreen, tShown, tHasMore, tStored, tQuery, tLate,
  tOlder, tStale

groupCallVars == <<gMembers, gStarted, gEnded, gRooms, gInside, gTokens, gJoin, gRemoving,
                   gHooks, gSweep, gFails, gCut>>
logVars == <<mLastSeq, mRows, mMembers, mLastRead, mPublished, mReq>>
listVars == <<tLast, tComing, tMine, tSocket, tScreen, tShown, tHasMore, tStored, tQuery,
              tLate, tOlder, tStale>>

AllOnOne == [r \in Requests |-> n1]
SocketsOnOne == [u \in Users |-> n1]
HereAndThere == [u \in Users |-> IF u = u2 THEN n2 ELSE n1]

\* One person, two calls.
GroupCall == INSTANCE GroupCalls WITH
  People <- {u1}, Nodes <- {n1}, MaxCalls <- 2, MaxFails <- 1,
  members <- gMembers, started <- gStarted, ended <- gEnded, rooms <- gRooms,
  inside <- gInside, tokens <- gTokens, join <- gJoin, removing <- gRemoving,
  hooks <- gHooks, sweep <- gSweep, fails <- gFails, cut <- gCut

\* Two requests of one person in two conversations.
Log == INSTANCE MessageLog WITH
  Users <- {u1}, Convs <- {c1, c2}, MsgIds <- {k1}, MaxSystem <- 0,
  lastSeq <- mLastSeq, rows <- mRows, members <- mMembers, lastRead <- mLastRead,
  published <- mPublished, req <- mReq

\* Two messages in pages of one.
List == INSTANCE MobileTimeline WITH
  MaxSeq <- 2, PageSize <- 1, Cap <- 2, Hydrated <- 1,
  last <- tLast, coming <- tComing, mine <- tMine, socket <- tSocket, screen <- tScreen,
  shown <- tShown, hasMore <- tHasMore, stored <- tStored, query <- tQuery, late <- tLate,
  older <- tOlder, stale <- tStale

ServicesInit ==
  /\ focus \in {"members", "groupCall", "log", "list"}
  /\ Init /\ GroupCall!Init /\ Log!Init /\ List!Init

ServicesNext ==
  /\ UNCHANGED focus
  /\ \/ focus = "members" /\ Next /\ UNCHANGED <<groupCallVars, logVars, listVars>>
     \/ focus = "groupCall" /\ GroupCall!Next /\ UNCHANGED <<vars, logVars, listVars>>
     \/ focus = "log" /\ Log!Next /\ UNCHANGED <<vars, groupCallVars, listVars>>
     \/ focus = "list" /\ List!Next /\ UNCHANGED <<vars, groupCallVars, logVars>>

ServicesSpec ==
  /\ ServicesInit /\ [][ServicesNext]_<<focus, vars, groupCallVars, logVars, listVars>>
  /\ Fairness /\ GroupCall!Fairness /\ Log!Fairness /\ List!Fairness

\* The group alone, without fairness.
MembersSpec ==
  ServicesInit /\ focus = "members" /\ [][ServicesNext]_<<focus, vars, groupCallVars, logVars, listVars>>

-----------------------------------------------------------------------------
\* Group calls: nobody stays in a dead call's room (group-calls.service.ts:131)
\* or, removed from the group, in its call (:247).
GroupCallSettles == GroupCall!SplitHeals /\ GroupCall!OutsidersLeave

\* Every operation on a group and every request to the message store is
\* answered: none waits for ever for a row lock (conversations.ts:529) or an
\* index key (messages.ts:77).
NobodyWaitsForEver == EveryOperationEnds /\ Log!EveryRequestEnds

\* A list left on screen comes to show the newest message (data/hooks.ts:98).
TailShows == List!TailShows
=============================================================================
