------------------------------ MODULE GroupCalls ------------------------------
(* The calls of one group: the API hands out tokens, the SFU has the rooms,  *)
(* and sweeps, removals and webhooks keep the two in line.                   *)
(* apps/api/src/group-calls/group-calls.service.ts; db/group-calls.ts.       *)
(* Of the SFU: a room closes some time after the last person left, and is    *)
(* made again by whoever connects with a token for it.                       *)
EXTENDS Naturals, FiniteSets

CONSTANTS
  People,
  Nodes,     \* API processes, each with its sweep
  MaxCalls,  \* bound on the calls started
  MaxFails   \* bound on failing SFU calls and crashed sweeps

VARIABLES
  members,  \* listCallableMemberIds
  started,  \* calls 1..started exist
  ended,    \* those with endedAt
  rooms,    \* the SFU's rooms
  inside,   \* the room each person is connected to, 0: none
  tokens,   \* the call each person's token is for, 0: none
  join,     \* the join request of each person
  removing, \* removeFromCall under way
  hooks,    \* whose participant_joined webhook is still to come
  sweep,    \* the sweep of each node
  fails,
  cut       \* a failure left a room with nobody to close it

vars == <<members, started, ended, rooms, inside, tokens, join, removing, hooks,
          sweep, fails, cut>>

Calls == 1..MaxCalls
NoJoin == [at |-> "idle", call |-> 0, new |-> FALSE]
NoSweep == [at |-> "idle", seen |-> {}, doomed |-> {}]

TypeOK ==
  /\ members \subseteq People /\ started \in 0..MaxCalls
  /\ ended \subseteq Calls /\ rooms \subseteq Calls
  /\ inside \in [People -> 0..MaxCalls] /\ tokens \in [People -> 0..MaxCalls]
  /\ join \in [People -> [at : {"idle", "start", "room", "check"}, call : 0..MaxCalls, new : BOOLEAN]]
  /\ removing \subseteq People /\ hooks \subseteq People
  /\ sweep \in [Nodes -> [at : {"idle", "again", "end", "close", "outsiders"},
                          seen : SUBSET Calls, doomed : SUBSET Calls]]
  /\ fails \in 0..MaxFails /\ cut \in BOOLEAN

Init ==
  /\ members = People /\ started = 0 /\ ended = {}
  /\ rooms = {} /\ inside = [p \in People |-> 0] /\ tokens = [p \in People |-> 0]
  /\ join = [p \in People |-> NoJoin] /\ removing = {} /\ hooks = {}
  /\ sweep = [n \in Nodes |-> NoSweep] /\ fails = 0 /\ cut = FALSE

calls == <<started, ended>>
sfu == <<rooms, inside>>
work == <<removing, hooks>>
Running == (1..started) \ ended
PeopleIn(c) == {p \in People : inside[p] = c}
Outside(p, c) == inside[p] = c /\ p \notin members
\* Connected to a room that no running call points at.
Astray(p, c) == inside[p] = c /\ c \notin Running
Fail == fails < MaxFails /\ fails' = fails + 1

(********************************** Joining *******************************)

\* One device each.
Join(p) ==
  /\ join[p].at = "idle" /\ p \in members /\ inside[p] = 0
  /\ join' = [join EXCEPT ![p].at = "start"]
  /\ UNCHANGED <<members, calls, sfu, tokens, work, sweep, fails, cut>>

\* startOrGetGroupCall: the unique index lets one call run.
StartOrGet(p) ==
  /\ join[p].at = "start"
  /\ \/ /\ Running = {} /\ started < MaxCalls /\ started' = started + 1
        /\ join' = [join EXCEPT ![p] = [at |-> "room", call |-> started + 1, new |-> TRUE]]
     \/ \E c \in Running :
          /\ join' = [join EXCEPT ![p] = [at |-> "room", call |-> c, new |-> FALSE]]
          /\ UNCHANGED started
     \/ /\ Running = {} /\ started = MaxCalls   \* the bound
        /\ join' = [join EXCEPT ![p] = NoJoin] /\ UNCHANGED started
  /\ UNCHANGED <<members, ended, sfu, tokens, work, sweep, fails, cut>>

\* sfu.createRoom; when it fails a call this request made is taken back.
CreateRoom(p) ==
  /\ join[p].at = "room"
  /\ \/ /\ rooms' = rooms \cup {join[p].call} /\ join' = [join EXCEPT ![p].at = "check"]
        /\ UNCHANGED <<ended, fails, cut>>
     \/ /\ Fail /\ join' = [join EXCEPT ![p] = NoJoin] /\ UNCHANGED rooms
        /\ IF join[p].new /\ join[p].call \notin ended
           THEN /\ ended' = ended \cup {join[p].call} /\ cut' = (cut \/ PeopleIn(join[p].call) # {})
           ELSE UNCHANGED <<ended, cut>>
  /\ UNCHANGED <<members, started, inside, tokens, work, sweep>>

\* A call that ended meanwhile starts the loop over; otherwise a token.
CheckAndToken(p) ==
  /\ join[p].at = "check"
  /\ IF join[p].call \in ended
     THEN join' = [join EXCEPT ![p].at = "start"] /\ UNCHANGED tokens
     ELSE join' = [join EXCEPT ![p] = NoJoin] /\ tokens' = [tokens EXCEPT ![p] = join[p].call]
  /\ UNCHANGED <<members, calls, sfu, work, sweep, fails, cut>>

(********************************** The SFU *******************************)

Connect(p, c) ==
  /\ tokens[p] = c /\ inside[p] = 0 /\ join[p].at = "idle"
  /\ rooms' = rooms \cup {c} /\ inside' = [inside EXCEPT ![p] = c]
  /\ hooks' = hooks \cup {p}
  /\ UNCHANGED <<members, calls, tokens, join, removing, sweep, fails, cut>>
\* Hung up: the token is not used again; its identity is of this connection only.
HangUp(p, c) ==
  /\ inside[p] = c /\ inside' = [inside EXCEPT ![p] = 0]
  /\ tokens' = [tokens EXCEPT ![p] = 0] /\ hooks' = hooks \ {p}
  /\ UNCHANGED <<members, calls, rooms, join, removing, sweep, fails, cut>>
RoomCloses(c) ==
  /\ c \in rooms /\ PeopleIn(c) = {} /\ rooms' = rooms \ {c}
  /\ UNCHANGED <<members, calls, inside, tokens, join, work, sweep, fails, cut>>

Out(kicked) == inside' = [p \in People |-> IF kicked[p] THEN 0 ELSE inside[p]]

\* onParticipantJoined: out, unless a member of a running call.
OnParticipantJoined(p) ==
  /\ p \in hooks /\ hooks' = hooks \ {p}
  /\ IF inside[p] \in Running /\ p \in members THEN UNCHANGED inside ELSE Out([q \in People |-> q = p])
  /\ UNCHANGED <<members, calls, rooms, tokens, join, removing, sweep, fails, cut>>

\* Leaving or being removed, then removeFromCall, which only warns.
Leave(p) ==
  /\ p \in members /\ members' = members \ {p} /\ removing' = removing \cup {p}
  /\ UNCHANGED <<calls, sfu, tokens, join, hooks, sweep, fails, cut>>
RemoveFromCall(p) ==
  /\ p \in removing /\ removing' = removing \ {p}
  /\ \/ Out([q \in People |-> q = p /\ inside[p] \in Running]) /\ UNCHANGED fails
     \/ Fail /\ UNCHANGED inside
  /\ UNCHANGED <<members, calls, rooms, tokens, join, hooks, sweep, cut>>

(********************************** Sweeping ******************************)

To(n, s) == sweep' = [sweep EXCEPT ![n] = s]

\* The running calls, the rooms there are, and the calls without one (any call
\* may be older than GROUP_CALL_START_GRACE_MS).
List(n) ==
  /\ sweep[n].at = "idle" /\ Running # {}
  /\ To(n, [at |-> "again", seen |-> {c \in Running \cap rooms : PeopleIn(c) # {}},
            doomed |-> Running \ rooms])
  /\ UNCHANGED <<members, calls, sfu, tokens, join, work, fails, cut>>
ListAgain(n) ==
  /\ sweep[n].at = "again"
  /\ To(n, [sweep[n] EXCEPT !.at = "end", !.doomed = @ \ rooms])
  /\ UNCHANGED <<members, calls, sfu, tokens, join, work, fails, cut>>
\* endGroupCalls: of two sweeps one ends a call.
End(n) ==
  /\ sweep[n].at = "end"
  /\ LET won == sweep[n].doomed \ ended IN
     /\ ended' = ended \cup won
     /\ To(n, [sweep[n] EXCEPT !.at = "close", !.doomed = won])
  /\ UNCHANGED <<members, started, sfu, tokens, join, work, fails, cut>>
\* The bug of not closing the room of a call that was ended.
LeaveOpen(n) ==
  /\ sweep[n].at = "close" /\ To(n, [sweep[n] EXCEPT !.at = "outsiders", !.doomed = {}])
  /\ UNCHANGED <<members, calls, sfu, tokens, join, work, fails, cut>>
\* deleteRoom of each, which disconnects whoever is in; a failure is logged.
CloseRooms(n) ==
  /\ sweep[n].at = "close" /\ To(n, [sweep[n] EXCEPT !.at = "outsiders", !.doomed = {}])
  /\ \/ /\ rooms' = rooms \ sweep[n].doomed
        /\ Out([p \in People |-> inside[p] \in sweep[n].doomed])
        /\ UNCHANGED <<fails, cut>>
     \/ /\ sweep[n].doomed # {} /\ Fail /\ UNCHANGED sfu
        /\ cut' = (cut \/ \E c \in sweep[n].doomed : PeopleIn(c) # {})
  /\ UNCHANGED <<members, calls, tokens, join, work>>
\* The bug of looking only where the count says nobody is.
KeepOutsiders(n) ==
  /\ sweep[n].at = "outsiders" /\ To(n, NoSweep)
  /\ UNCHANGED <<members, calls, sfu, tokens, join, work, fails, cut>>
\* removeOutsiders of the rooms that had somebody in, which only warns; the
\* counts are left out.
RemoveOutsiders(n) ==
  /\ sweep[n].at = "outsiders" /\ To(n, NoSweep)
  /\ \/ /\ Out([p \in People |-> inside[p] \in sweep[n].seen /\ p \notin members])
        /\ UNCHANGED fails
     \/ Fail /\ UNCHANGED inside
  /\ UNCHANGED <<members, calls, rooms, tokens, join, work, cut>>
\* The process dies, or a list of the SFU's cannot be had.
Crash(n) ==
  /\ sweep[n].at # "idle" /\ Fail /\ To(n, NoSweep)
  /\ cut' = (cut \/ sweep[n].at = "close")
  /\ UNCHANGED <<members, calls, sfu, tokens, join, work>>

Sweeping(n) == List(n) \/ ListAgain(n) \/ End(n) \/ CloseRooms(n) \/ RemoveOutsiders(n)
Asking(p) == StartOrGet(p) \/ CreateRoom(p) \/ CheckAndToken(p)
Next ==
  \/ \E p \in People : Join(p) \/ Asking(p) \/ Leave(p) \/ RemoveFromCall(p) \/ OnParticipantJoined(p)
  \/ \E p \in People, c \in Calls : Connect(p, c) \/ HangUp(p, c)
  \/ \E c \in Calls : RoomCloses(c)
  \/ \E n \in Nodes : Sweeping(n) \/ Crash(n)

Spec == Init /\ [][Next]_vars
\* Sweeps tick, requests, removals and webhooks are carried out.
Fairness ==
  /\ \A n \in Nodes : WF_vars(Sweeping(n))
  /\ \A p \in People : WF_vars(RemoveFromCall(p)) /\ WF_vars(OnParticipantJoined(p))
FairSpec == Spec /\ Fairness

(****************************** Properties ********************************)

\* "so the group never splits across two rooms" (group-calls.service.ts:131):
\* whoever is in the room of a call that ended is put out of it.
NeverSplitForGood == \A p \in People, c \in Calls : []<>~Astray(p, c)
\* The same unless closing the room failed.
SplitHeals == \A p \in People, c \in Calls : []<>(Astray(p, c) => cut)

\* "a kept token or a join racing a removal is cut off within a sweep or two"
\* (group-calls.service.ts:247).
OutsidersLeave == \A p \in People, c \in Calls : []<>(Outside(p, c) => c \in ended)
=============================================================================
