------------------------------- MODULE Presence -------------------------------
(* Who is online: the sockets of one person, the entries Redis keeps for them, *)
(* and what a contact is told.                                                 *)
(* apps/api/src/realtime: presence.service.ts, realtime.gateway.ts and the     *)
(* registry of realtime.service.ts; db/presence.ts.                            *)
(*                                                                             *)
(* A script or MULTI of Redis is one step; every announcement reads whom it    *)
(* may tell, and then publishes.  Heartbeats keep the entries of a running     *)
(* node alive (25 s against 60 s), so only those of a dead one lapse.          *)
EXTENDS Integers, FiniteSets

CONSTANTS Conns, Nodes, NodeOf, MaxCrashes, MaxSettings

VARIABLES
  socket,   \* socket[c]: one connection of the person
  ready,    \* ready[c]: presenceReady of that connection
  entries,  \* presence:conns, those not lapsed
  online,   \* the person is in presence:online
  job,      \* job[j]: an announcement at work
  visible,  \* the person lets the contact see
  told,     \* what the contact was last told: online?
  up,       \* running nodes
  settings, \* changes of the setting so far
  adrift    \* an announcement met a change of the setting, or died with its node

vars == <<socket, ready, entries, online, job, visible, told, up, settings, adrift>>
keys == <<entries, online>>

Jobs == Conns \cup {"sweep", "setting"}
Idle == [at |-> "idle", say |-> FALSE, sees |-> FALSE, again |-> FALSE]
Busy(j) == job[j] # Idle
Open == {c \in Conns : socket[c] = "open"}

TypeOK ==
  /\ socket \in [Conns -> {"none", "loading", "open", "closed", "released", "dead"}]
  /\ ready \in [Conns -> {"none", "pending", "telling", "done"}]
  /\ entries \subseteq Conns /\ online \in BOOLEAN /\ visible \in BOOLEAN /\ told \in BOOLEAN
  /\ job \in [Jobs -> [at : {"idle", "read", "publish", "recheck"}, say : BOOLEAN, sees : BOOLEAN,
                       again : BOOLEAN]]
  /\ up \subseteq Nodes /\ settings \in 0..MaxSettings /\ adrift \in BOOLEAN

Init ==
  /\ socket = [c \in Conns |-> "none"] /\ ready = [c \in Conns |-> "none"]
  /\ entries = {} /\ online = FALSE /\ job = [j \in Jobs |-> Idle]
  /\ visible = TRUE /\ told = FALSE /\ up = Nodes /\ settings = 0 /\ adrift = FALSE

\* An announcement: of being online, or offline and then looking again.
Start(j, say) == job' = [job EXCEPT ![j] = [Idle EXCEPT !.at = "read", !.say = say, !.again = ~say]]
Meets == adrift' = (adrift \/ Busy("setting"))

(******************************* The sockets ******************************)

\* handleConnection, while it loads.
Connect(c) ==
  /\ socket[c] = "none" /\ NodeOf[c] \in up /\ socket' = [socket EXCEPT ![c] = "loading"]
  /\ UNCHANGED <<ready, keys, job, visible, told, up, settings, adrift>>

\* register, and connected is on its way to Redis; not for one closed since.
Register(c) ==
  /\ socket[c] = "loading" /\ socket' = [socket EXCEPT ![c] = "open"]
  /\ ready' = [ready EXCEPT ![c] = "pending"]
  /\ UNCHANGED <<keys, job, visible, told, up, settings, adrift>>

\* connected: a person without a live connection before is announced.
Connected(c) ==
  /\ ready[c] = "pending" /\ entries' = entries \cup {c} /\ online' = TRUE
  /\ IF entries = {}
       THEN ready' = [ready EXCEPT ![c] = "telling"] /\ Start(c, TRUE) /\ Meets
       ELSE ready' = [ready EXCEPT ![c] = "done"] /\ UNCHANGED <<job, adrift>>
  /\ UNCHANGED <<socket, visible, told, up, settings>>

\* The client closes it, or the heartbeat does: handleDisconnect.
Close(c) ==
  /\ socket[c] \in {"loading", "open"} /\ socket' = [socket EXCEPT ![c] =
                                             IF @ = "loading" THEN "released" ELSE "closed"]
  /\ UNCHANGED <<ready, keys, job, visible, told, up, settings, adrift>>

\* disconnected, after presenceReady: RELEASE_SCRIPT.
ReleaseAtOnce(c) ==
  /\ socket[c] = "closed" /\ ~Busy(c) /\ socket' = [socket EXCEPT ![c] = "released"]
  /\ entries' = entries \ {c}
  /\ IF entries \ {c} = {} /\ online
       THEN online' = FALSE /\ Start(c, FALSE) /\ Meets ELSE UNCHANGED <<online, job, adrift>>
  /\ UNCHANGED <<ready, visible, told, up, settings>>
Release(c) == ready[c] = "done" /\ ReleaseAtOnce(c)

(***************************** Announcements ******************************)

\* announce, visibilityChanged: the contact and the settings as they are now.
Read(j) ==
  /\ job[j].at = "read"
  /\ job' = [job EXCEPT ![j].at = "publish", ![j].sees = visible,
                        ![j].say = IF j = "setting" THEN visible /\ entries # {} ELSE @]
  /\ UNCHANGED <<socket, ready, keys, visible, told, up, settings, adrift>>

Done(j) ==
  ready' = IF j \in Conns /\ ready[j] = "telling" THEN [ready EXCEPT ![j] = "done"] ELSE ready
Publish(j) ==
  /\ job[j].at = "publish"
  /\ told' = IF job[j].sees \/ j = "setting" THEN job[j].say ELSE told
  /\ IF job[j].again THEN job' = [job EXCEPT ![j].at = "recheck"] /\ UNCHANGED ready
     ELSE job' = [job EXCEPT ![j] = Idle] /\ Done(j)
  /\ UNCHANGED <<socket, keys, visible, up, settings, adrift>>

\* announceOffline looks again, and tells of whoever is back.
RecheckNever(j) ==
  /\ job[j].at = "recheck" /\ job' = [job EXCEPT ![j] = Idle]
  /\ UNCHANGED <<socket, ready, keys, visible, told, up, settings, adrift>>
Recheck(j) ==
  /\ job[j].at = "recheck"
  /\ IF entries # {} THEN Start(j, TRUE) ELSE job' = [job EXCEPT ![j] = Idle]
  /\ UNCHANGED <<socket, ready, keys, visible, told, up, settings, adrift>>

\* The setting changes, and visibilityChanged tells.
ChangeSetting ==
  /\ settings < MaxSettings /\ settings' = settings + 1 /\ ~Busy("setting") /\ visible' = ~visible
  /\ Start("setting", FALSE) /\ adrift' = (adrift \/ \E j \in Jobs : Busy(j))
  /\ UNCHANGED <<socket, ready, keys, told, up>>

(********************************* Crashes ********************************)

\* A node dies with its sockets, and with its announcements at work.
Crash(n) ==
  /\ n \in up /\ Cardinality(Nodes \ up) < MaxCrashes /\ up' = up \ {n}
  /\ LET gone == {c \in Conns : NodeOf[c] = n /\ socket[c] \in {"loading", "open", "closed"}} IN
     /\ socket' = [c \in Conns |-> IF c \in gone THEN "dead" ELSE socket[c]]
     /\ ready' = [c \in Conns |-> IF c \in gone THEN "none" ELSE ready[c]]
     /\ job' = [j \in Jobs |-> IF j \in Conns /\ NodeOf[j] = n THEN Idle ELSE job[j]]
     /\ adrift' = (adrift \/ \E c \in Conns : NodeOf[c] = n /\ Busy(c))
  /\ UNCHANGED <<keys, visible, told, settings>>

Lapse(c) ==
  /\ socket[c] = "dead" /\ c \in entries /\ entries' = entries \ {c}
  /\ UNCHANGED <<socket, ready, online, job, visible, told, up, settings, adrift>>

\* SWEEP_SCRIPT, of the first node to get there.
SweepBlindly ==
  /\ online /\ up # {} /\ ~Busy("sweep") /\ online' = FALSE /\ Start("sweep", FALSE) /\ Meets
  /\ UNCHANGED <<socket, ready, entries, visible, told, up, settings>>
Sweep == entries = {} /\ SweepBlindly

Next ==
  \/ \E c \in Conns : Connect(c) \/ Register(c) \/ Connected(c) \/ Close(c) \/ Release(c) \/ Lapse(c)
  \/ \E j \in Jobs : Read(j) \/ Publish(j) \/ Recheck(j)
  \/ ChangeSetting \/ (\E n \in Nodes : Crash(n)) \/ Sweep

Spec == Init /\ [][Next]_vars

(******************************* Properties *******************************)

Quiet ==
  /\ \A j \in Jobs : ~Busy(j)
  /\ \A c \in Conns : socket[c] # "closed" /\ ready[c] \in {"none", "done"}

\* "leave a ghost 'online' connection" (realtime.service.ts:29): once nothing
\* is on its way, the entries are the open sockets and what a dead node left.
NoGhosts ==
  Quiet => /\ Open \subseteq entries /\ entries \subseteq Open \cup {c \in Conns : socket[c] = "dead"}
           /\ Open # {} => online

\* "the last word a contact gets is always the current state"
\* (presence.service.ts:95): for a person who is online, and "a hidden person"
\* (:219) looks offline.
LastWord == Quiet /\ ~adrift => (visible /\ Open # {} => told) /\ (~visible => ~told)
=============================================================================
