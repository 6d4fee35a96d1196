----------------------------- MODULE PeopleProofs -----------------------------
(* Proofs about the people and their accounts: GroupMembership (its types,     *)
(* that the admin role is never held twice whatever runs at the same time, and *)
(* that a group keeps an admin and its limit as long as operations run one at  *)
(* a time); SignIn, AccountDeletion, Moderation, Presence, PushDevices, and the *)
(* session and the outbox of a phone (MobileSession, MobileOutbox), each with   *)
(* state of its own.                                                           *)
EXTENDS GroupMembership, Integers, Sequences, FiniteSetTheorems, SequenceTheorems, TLAPS

CONSTANTS
  Entrants, Emails, MaxFailures, Threshold, PerWindow, MaxAttempts, NoEmail, \* SignIn
  Handlers, MaxCrashes,                                                      \* AccountDeletion
  Moderators, Reports, Logins, MaxFilings, MaxTime, Days,                    \* Moderation
  Conns, Hosts, NodeOf, MaxDeaths, MaxSettings,                              \* Presence
  Accounts, MaxLogins, MaxPushes, None,                                      \* PushDevices
  Callers, MaxSignIns, MaxRotations,                                         \* MobileSession
  MaxMessages, MaxGeneration, MaxUnauthorized, MaxKills                      \* MobileOutbox

VARIABLES
  link, code, verifyToken, verified, attempts, delayed, codeFailures, task,
  deleted, profile, sharing, exclusive, chat, inserting, group, inside, texts, ask, begun, got,
  crashes,
  now, report, filings, person, verdicts, page, console, session, excused,
  stream, ready, entries, online, job, visible, told, up, settings, adrift,
  owner, live, row, phone, known, leaving, reg, unreg, ending, push, pushes,
  head, ended, logins, generation, family, access, keystore, queue, refresh, calls, restored,
  revoking, straying, reused, mishap,
  epoch, prepared, outbox, typed, logged, refused, gone, run, again, counts, post, lost,
  rejected, kills

Door == INSTANCE SignIn WITH Requests <- Entrants
Deletion == INSTANCE AccountDeletion WITH Requests <- Handlers, active <- inside, req <- ask
Desk == INSTANCE Moderation WITH Sessions <- Logins
Status == INSTANCE Presence WITH Nodes <- Hosts, MaxCrashes <- MaxDeaths, socket <- stream
Push == INSTANCE PushDevices
Phone == INSTANCE MobileSession WITH
  Requests <- Callers, MaxLogins <- MaxSignIns, request <- calls, adrift <- straying
Outbox == INSTANCE MobileOutbox WITH generation <- epoch, ready <- prepared, adrift <- lost

(***************************** The people of a group ************************)

\* A transaction that hands the role on holds the lock of the admin who leaves.
Handing == {"otherAdmin", "oldest", "promote", "commit"}

OneAdmin == \A u, v \in Users : IsAdmin(u) /\ IsAdmin(v) => u = v

\* Whatever runs at the same time: no row is locked twice, who is leaving as
\* an admin is one until the commit.
Orderly ==
  /\ OneAdmin
  /\ \A r \in Requests :
       /\ req[r].at = "idle" => req[r] = Idle
       /\ req[r].at \in {"update", "otherAdmin", "oldest"} => req[r].promoted = NoUser
       /\ req[r].at \in Handing => IsAdmin(req[r].target)
       /\ \A q \in Requests \ {r} : Locked(q) \cap Locked(r) = {}

\* What the one operation that runs alone knows.
Rest(r) == active \ {req[r].target}

Informed(r) ==
  /\ req[r].at = "promote" => req[r].promoted \in Oldest(Rest(r))
  /\ req[r].at = "commit" =>
       \/ req[r].promoted = NoUser /\ Rest(r) = {}
       \/ req[r].promoted \in Oldest(Rest(r))
  /\ req[r].at \in {"count", "select", "upsert"} => active # {}
  /\ req[r].at \in {"select", "upsert"} =>
       Cardinality(active) + Cardinality(req[r].people) <= MaxMembers
  /\ req[r].at = "upsert" => req[r].people \cap active = {}

Alone ==
  /\ \A q, r \in Requests : req[q] # Idle /\ req[r] # Idle => q = r
  /\ active # {} => \E u \in active : role[u] = "admin"
  /\ Cardinality(active) <= MaxMembers
  /\ \A r \in Requests : Informed(r)

IInv == TypeOK /\ Orderly /\ (serial => Alone)

-----------------------------------------------------------------------------
(* What the steps do to a request.                                           *)

LEMMA IdleType == Idle \in RequestStates /\ Idle.at = "idle"
BY DEF Idle, Request, RequestStates, Steps

LEMMA GotoType ==
  ASSUME TypeOK, NEW r \in Requests, NEW step \in Steps, Goto(r, step),
         step \in LeaveSteps => req[r].target \in Users
  PROVE  /\ req' \in [Requests -> RequestStates]
         /\ req'[r] = [req[r] EXCEPT !.at = step]
         /\ req'[r].at = step
         /\ req'[r].target = req[r].target /\ req'[r].promoted = req[r].promoted
         /\ req'[r].people = req[r].people /\ req'[r].time = req[r].time
         /\ \A s \in Requests \ {r} : req'[s] = req[s]
         /\ \A s \in Requests : req'[s].at \in LeaveSteps => req'[s].target \in Users
BY DEF TypeOK, Goto, RequestStates

LEMMA DoneType ==
  ASSUME TypeOK, NEW r \in Requests, Done(r)
  PROVE  /\ req' \in [Requests -> RequestStates]
         /\ req'[r] = Idle /\ req'[r].at = "idle"
         /\ \A s \in Requests \ {r} : req'[s] = req[s]
         /\ \A s \in Requests : req'[s].at \in LeaveSteps => req'[s].target \in Users
BY IdleType DEF TypeOK, Done, LeaveSteps

\* A step of r that leaves the memberships alone and takes no lock another
\* holds.
LEMMA OrderlyKept ==
  ASSUME Orderly, NEW r \in Requests, UNCHANGED <<active, role>>,
         \A s \in Requests \ {r} : req'[s] = req[s],
         req'[r].at = "idle" => req'[r] = Idle,
         req'[r].at \in {"update", "otherAdmin", "oldest"} => req'[r].promoted = NoUser,
         req'[r].at \in Handing => IsAdmin(req'[r].target),
         \A q \in Requests \ {r} : Locked(q) \cap Locked(r)' = {}
  PROVE  Orderly'
<1>1. OneAdmin' BY DEF Orderly, OneAdmin, IsAdmin
<1>2. ASSUME NEW s \in Requests \ {r}
      PROVE  /\ req'[s].at = "idle" => req'[s] = Idle
             /\ req'[s].at \in {"update", "otherAdmin", "oldest"} => req'[s].promoted = NoUser
             /\ req'[s].at \in Handing => IsAdmin(req[s].target)'
             /\ Locked(s)' = Locked(s)
  BY <1>2 DEF Orderly, IsAdmin, Locked
<1>3. (req'[r].at \in Handing => IsAdmin(req[r].target)')
  BY DEF IsAdmin
<1>4. \A q, s \in Requests : q # s => Locked(q)' \cap Locked(s)' = {}
  <2> TAKE q, s \in Requests
  <2> HAVE q # s
  <2>1. CASE q = r BY <1>2, <2>1
  <2>2. CASE s = r BY <1>2, <2>2
  <2>3. CASE q # r /\ s # r BY <1>2, <2>3 DEF Orderly
  <2> QED BY <2>1, <2>2, <2>3
<1> QED BY <1>1, <1>2, <1>3, <1>4 DEF Orderly, IsAdmin

\* While operations run one at a time the others rest.
LEMMA OthersRest ==
  ASSUME Alone, NEW r \in Requests, req[r] # Idle,
         \A s \in Requests \ {r} : req'[s] = req[s]
  PROVE  \A s \in Requests \ {r} : req'[s] = Idle
BY DEF Alone

LEMMA AloneKept ==
  ASSUME NEW r \in Requests,
         \A s \in Requests \ {r} : req'[s] = Idle,
         active' # {} => \E u \in active' : role'[u] = "admin",
         Cardinality(active') <= MaxMembers, Informed(r)'
  PROVE  Alone'
<1>1. \A s \in Requests \ {r} : Informed(s)' BY IdleType DEF Informed
<1> QED BY <1>1 DEF Alone

-----------------------------------------------------------------------------
(* One lemma for each action.                                                *)

\* A request begins.
LEMMA BeginKeeps ==
  ASSUME IInv, NEW r \in Requests, NEW step \in {"update", "count"},
         NEW u \in Users \cup {NoUser}, NEW removed \in BOOLEAN, NEW S \in SUBSET Users,
         Begin(r, Request(step, u, removed, S)),
         step = "update" => u \in Users, step = "count" => active # {}
  PROVE  IInv'
<1> DEFINE new == Request(step, u, removed, S)
<1>0. TypeOK BY DEF IInv
<1>1. /\ new \in RequestStates /\ new.at = step /\ new.target = u
      /\ new.promoted = NoUser /\ new.people = S
  BY DEF Request, RequestStates, Steps, AddSteps, LeaveSteps
<1>2. /\ req' \in [Requests -> RequestStates] /\ req'[r] = new
      /\ \A s \in Requests \ {r} : req'[s] = req[s]
  BY <1>0, <1>1 DEF TypeOK, Begin
<1> HIDE DEF new
<1>3. UNCHANGED <<active, role, joined, clock, socket, hears>>
      /\ serial' = (serial /\ \A q \in Requests : req[q] = Idle)
  BY DEF Begin, netvars
<1>4. TypeOK' BY <1>0, <1>1, <1>2, <1>3 DEF TypeOK, LeaveSteps
<1>5. Orderly'
  <2>1. Locked(r)' = {} BY <1>1, <1>2 DEF Locked
  <2> QED BY <1>1, <1>2, <1>3, <2>1, OrderlyKept DEF IInv, Handing
<1>6. ASSUME serial' PROVE Alone'
  <2>1. serial /\ \A q \in Requests : req[q] = Idle BY <1>3, <1>6
  <2>2. Informed(r)' BY <1>1, <1>2, <1>3 DEF Informed
  <2> QED BY <1>2, <1>3, <2>1, <2>2, AloneKept DEF IInv, Alone
<1> QED BY <1>4, <1>5, <1>6 DEF IInv

\* A request goes on without changing a membership or taking a lock.
LEMMA GotoKeeps ==
  ASSUME IInv, NEW r \in Requests, NEW step \in Steps \ {"idle"},
         Goto(r, step), ~(req[r].at = "idle"),
         UNCHANGED <<active, role, joined, socket, hears, serial>>, clock' \in Nat,
         step \in LeaveSteps => req[r].target \in Users,
         step \in Handing => req[r].at \in Handing,
         step \in {"update", "otherAdmin", "oldest"} => req[r].promoted = NoUser,
         \A q \in Requests \ {r} : Locked(q) \cap Locked(r)' = {},
         serial => Informed(r)'
  PROVE  IInv'
<1>0. TypeOK /\ Orderly BY DEF IInv
<1>1. /\ req' \in [Requests -> RequestStates]
      /\ req'[r].at = step /\ req'[r].target = req[r].target
      /\ \A s \in Requests \ {r} : req'[s] = req[s]
      /\ \A s \in Requests : req'[s].at \in LeaveSteps => req'[s].target \in Users
  BY <1>0, GotoType
<1>2. TypeOK' BY <1>0, <1>1 DEF TypeOK
<1>3. Orderly'
  <2>1. req'[r].at \in Handing => IsAdmin(req'[r].target) BY <1>0, <1>1 DEF Orderly
  <2>2. req'[r].promoted = req[r].promoted BY <1>0, GotoType
  <2> QED BY <1>0, <1>1, <2>1, <2>2, OrderlyKept
<1>4. ASSUME serial' PROVE Alone'
  <2>1. serial /\ Alone BY <1>4 DEF IInv
  <2>2. req[r] # Idle BY IdleType
  <2> QED BY <1>1, <2>1, <2>2, OthersRest, AloneKept DEF Alone
<1> QED BY <1>2, <1>3, <1>4 DEF IInv

\* A request ends without changing a membership.
LEMMA DoneKeeps ==
  ASSUME IInv, NEW r \in Requests, Done(r), req[r].at # "idle",
         UNCHANGED <<active, role, joined, socket, serial>>, clock' \in Nat,
         hears' \subseteq {u \in Users : socket[u] = "open"}
  PROVE  IInv'
<1>0. TypeOK /\ Orderly BY DEF IInv
<1>1. /\ req' \in [Requests -> RequestStates]
      /\ req'[r] = Idle /\ req'[r].at = "idle"
      /\ \A s \in Requests \ {r} : req'[s] = req[s]
      /\ \A s \in Requests : req'[s].at \in LeaveSteps => req'[s].target \in Users
  BY <1>0, DoneType
<1>2. TypeOK' BY <1>0, <1>1 DEF TypeOK
<1>3. Orderly'
  <2>1. Locked(r)' = {} BY <1>1 DEF Locked
  <2> QED BY <1>0, <1>1, <2>1, OrderlyKept DEF Handing
<1>4. ASSUME serial' PROVE Alone'
  <2>1. serial /\ Alone BY <1>4 DEF IInv
  <2>2. req[r] # Idle BY IdleType
  <2>3. Informed(r)' BY <1>1 DEF Informed
  <2> QED BY <1>1, <2>1, <2>2, <2>3, OthersRest, AloneKept DEF Alone
<1> QED BY <1>2, <1>3, <1>4 DEF IInv

LEMMA FindAdminKeeps ==
  ASSUME IInv, NEW r \in Requests, FindAdmin(r) PROVE IInv'
<1> DEFINE u == req[r].target
           step == IF \E v \in active \ {u} : role[v] = "admin" THEN "commit" ELSE "oldest"
<1>0. TypeOK /\ Orderly BY DEF IInv
<1>1. req[r].at = "otherAdmin" /\ Goto(r, step) /\ UNCHANGED <<rowvars, netvars>>
  BY DEF FindAdmin
<1>2. u \in Users /\ req[r].promoted = NoUser /\ IsAdmin(u)
  BY <1>0, <1>1 DEF TypeOK, Orderly, Handing, LeaveSteps
<1>3. step = "oldest"
  BY <1>0, <1>2 DEF Orderly, OneAdmin, IsAdmin, TypeOK
<1> HIDE DEF step
<1>4. "oldest" \in Steps /\ "oldest" # "idle" BY DEF Steps, LeaveSteps
<1>5. /\ req'[r].at = "oldest" /\ req'[r].target = u
      /\ \A s \in Requests \ {r} : req'[s] = req[s]
  BY <1>0, <1>1, <1>2, <1>3, <1>4, GotoType
<1>6. \A q \in Requests \ {r} : Locked(q) \cap Locked(r)' = {}
  BY <1>0, <1>1, <1>5 DEF Orderly, Locked
<1>7. Informed(r)' BY <1>5 DEF Informed
<1> QED
  BY <1>0, <1>1, <1>2, <1>3, <1>4, <1>6, <1>7, GotoKeeps
  DEF Handing, rowvars, netvars, TypeOK

LEMMA FindOldestKeeps ==
  ASSUME IInv, NEW r \in Requests, FindOldest(r) PROVE IInv'
<1> DEFINE u == req[r].target
<1>0. TypeOK /\ Orderly BY DEF IInv
<1>1. req[r].at = "oldest" /\ UNCHANGED <<rowvars, netvars>> BY DEF FindOldest
<1>2. u \in Users /\ req[r].promoted = NoUser /\ IsAdmin(u)
  BY <1>0, <1>1 DEF TypeOK, Orderly, Handing, LeaveSteps
<1>3. CASE Rest(r) = {}
  <2>1. Goto(r, "commit") BY <1>3 DEF FindOldest, Rest
  <2>2. "commit" \in Steps BY DEF Steps, LeaveSteps
  <2>3. /\ req'[r].at = "commit" /\ req'[r].target = u /\ req'[r].promoted = NoUser
        /\ \A s \in Requests \ {r} : req'[s] = req[s]
    BY <1>0, <1>2, <2>1, <2>2, GotoType
  <2>4. \A q \in Requests \ {r} : Locked(q) \cap Locked(r)' = {}
    BY <1>0, <1>1, <2>3 DEF Orderly, Locked
  <2>5. Informed(r)' BY <1>1, <1>3, <2>3 DEF Informed, Rest, rowvars
  <2> QED
    BY <1>0, <1>1, <1>2, <2>1, <2>2, <2>4, <2>5, GotoKeeps
    DEF Handing, rowvars, netvars, TypeOK
<1>4. CASE Rest(r) # {}
  <2>1. PICK v \in Oldest(Rest(r)) :
          req' = [req EXCEPT ![r].at = "promote", ![r].promoted = v]
    BY <1>4 DEF FindOldest, Rest
  <2>2. v \in Users BY <1>0 DEF TypeOK, Oldest, Rest
  <2>3. /\ req' \in [Requests -> RequestStates]
        /\ req'[r].at = "promote" /\ req'[r].target = u /\ req'[r].promoted = v
        /\ \A s \in Requests \ {r} : req'[s] = req[s]
    <3> DEFINE p == [req[r] EXCEPT !.at = "promote", !.promoted = v]
    <3>1. p \in RequestStates /\ p.at = "promote" /\ p.target = u /\ p.promoted = v
      BY <1>0, <2>2 DEF TypeOK, RequestStates, Steps, LeaveSteps
    <3>2. req' = [req EXCEPT ![r] = p]
      BY <2>1
    <3> HIDE DEF p
    <3> QED
      BY <1>0, <3>1, <3>2 DEF TypeOK
  <2>4. TypeOK' BY <1>0, <1>1, <1>2, <2>3 DEF TypeOK, rowvars, netvars
  <2>5. \A q \in Requests \ {r} : Locked(q) \cap Locked(r)' = {}
    BY <1>0, <1>1, <2>3 DEF Orderly, Locked
  <2>6. Orderly' BY <1>0, <1>1, <1>2, <2>3, <2>5, OrderlyKept DEF rowvars
  <2>7. Informed(r)' BY <1>1, <2>1, <2>3 DEF Informed, Rest, Oldest, rowvars
  <2>8. ASSUME serial' PROVE Alone'
    <3>1. serial /\ Alone BY <1>1, <2>8 DEF IInv, rowvars
    <3>2. req[r] # Idle BY <1>1, IdleType
    <3> QED BY <1>1, <2>3, <2>7, <3>1, <3>2, OthersRest, AloneKept DEF Alone, rowvars
  <2> QED BY <2>4, <2>6, <2>8 DEF IInv
<1> QED BY <1>3, <1>4

LEMMA PromoteKeeps ==
  ASSUME IInv, NEW r \in Requests, Promote(r) PROVE IInv'
<1>0. TypeOK /\ Orderly BY DEF IInv
<1>1. /\ req[r].at = "promote" /\ Free(r, {req[r].promoted})
      /\ Goto(r, "commit") /\ UNCHANGED <<rowvars, netvars>>
  BY DEF Promote
<1>2. req[r].target \in Users BY <1>0, <1>1 DEF TypeOK, LeaveSteps
<1>3. "commit" \in Steps BY DEF Steps, LeaveSteps
<1>4. /\ req'[r].at = "commit"
      /\ req'[r].target = req[r].target /\ req'[r].promoted = req[r].promoted
      /\ \A s \in Requests \ {r} : req'[s] = req[s]
  BY <1>0, <1>1, <1>2, <1>3, GotoType
<1>5. \A q \in Requests \ {r} : Locked(q) \cap Locked(r)' = {}
  <2> TAKE q \in Requests \ {r}
  <2>1. Locked(q) \cap {req[r].target} = {} BY <1>0, <1>1 DEF Orderly, Locked
  <2>2. Locked(q) \cap {req[r].promoted} = {} BY <1>1 DEF Free
  <2>3. Locked(r)' \subseteq {req[r].target, req[r].promoted} BY <1>4 DEF Locked
  <2> QED BY <2>1, <2>2, <2>3
<1>6. serial => Informed(r)'
  BY <1>1, <1>4 DEF IInv, Alone, Informed, Rest, Oldest, rowvars
<1> QED
  BY <1>0, <1>1, <1>2, <1>3, <1>5, <1>6, GotoKeeps
  DEF Handing, rowvars, netvars, TypeOK

\* Two hand-overs would lock the same admin.
LEMMA OneHandsOver ==
  ASSUME TypeOK, Orderly, NEW q \in Requests, NEW r \in Requests,
         req[q].at \in Handing, req[r].at \in Handing
  PROVE  q = r
<1>1. IsAdmin(req[q].target) /\ IsAdmin(req[r].target) BY DEF Orderly
<1>2. req[q].target \in Users /\ req[r].target \in Users BY DEF TypeOK, Handing, LeaveSteps
<1>3. req[q].target = req[r].target BY <1>1, <1>2 DEF Orderly, OneAdmin
<1>4. req[q].target \in Locked(q) /\ req[r].target \in Locked(r)
  BY <1>2, GroupAssumption DEF Locked, Handing
<1> QED BY <1>3, <1>4 DEF Orderly

LEMMA OthersHoldNothing ==
  ASSUME TypeOK, Orderly, NEW q \in Requests, NEW r \in Requests, q # r,
         req[r].at \in Handing
  PROVE  req[q].at \notin Handing /\ Locked(q) = {}
<1>1. req[q].at \notin Handing BY OneHandsOver
<1> QED BY <1>1 DEF Locked, Handing

LEMMA CommitLeaveKeeps ==
  ASSUME IInv, NEW r \in Requests, CommitLeave(r) PROVE IInv'
<1> DEFINE u == req[r].target
           v == req[r].promoted
<1>0. TypeOK /\ Orderly BY DEF IInv
<1>1. /\ req[r].at = "commit" /\ active' = active \ {u}
      /\ role' = [w \in Users |-> IF w = v THEN "admin" ELSE role[w]]
      /\ Goto(r, "unhear") /\ UNCHANGED <<joined, clock, serial, netvars>>
  BY DEF CommitLeave
<1>2. u \in Users /\ IsAdmin(u) /\ "unhear" \in Steps
  BY <1>0, <1>1 DEF TypeOK, Orderly, Handing, LeaveSteps, Steps
<1>3. /\ req' \in [Requests -> RequestStates] /\ req'[r].at = "unhear"
      /\ \A s \in Requests \ {r} : req'[s] = req[s]
      /\ \A s \in Requests : req'[s].at \in LeaveSteps => req'[s].target \in Users
  BY <1>0, <1>1, <1>2, GotoType
<1>4. TypeOK' BY <1>0, <1>1, <1>3 DEF TypeOK, netvars
<1>5. Orderly'
  <2>1. OneAdmin'
    <3>1. ASSUME NEW w \in Users, IsAdmin(w)' PROVE w = v
      BY <1>0, <1>1, <1>2, <3>1 DEF Orderly, OneAdmin, IsAdmin
    <3> QED BY <3>1 DEF OneAdmin
  <2>2. ASSUME NEW s \in Requests \ {r}
        PROVE  req'[s] = req[s] /\ req[s].at \notin Handing /\ Locked(s)' = {}
    <3>1. req'[s] = req[s] BY <1>3
    <3>2. req[s].at \notin Handing BY <1>0, <1>1, OthersHoldNothing DEF Handing
    <3> QED BY <3>1, <3>2 DEF Locked, Handing
  <2>3. Locked(r)' = {} BY <1>3 DEF Locked
  <2> QED BY <1>0, <1>3, <2>1, <2>2, <2>3 DEF Orderly, Handing
<1>6. ASSUME serial' PROVE Alone'
  <2>1. serial /\ Alone BY <1>1, <1>6 DEF IInv
  <2>2. req[r] # Idle BY <1>1, IdleType
  <2>3. active' # {} => \E w \in active' : role'[w] = "admin"
    <3>1. Informed(r) BY <2>1 DEF Alone
    <3>2. active' # {} => v \in active' BY <1>1, <3>1 DEF Informed, Rest, Oldest
    <3> QED BY <1>0, <1>1, <3>2 DEF TypeOK
  <2>4. Cardinality(active') <= MaxMembers
    <3>1. IsFiniteSet(active) BY <1>0, GroupAssumption, FS_Subset DEF TypeOK
    <3>2. /\ Cardinality(active') \in Nat /\ Cardinality(active) \in Nat
          /\ Cardinality(active') <= Cardinality(active)
      BY <1>1, <3>1, FS_Subset, FS_CardinalityType
    <3> QED BY <2>1, <3>2, GroupAssumption DEF Alone
  <2>5. Informed(r)' BY <1>3 DEF Informed
  <2> QED BY <1>3, <2>1, <2>2, <2>3, <2>4, <2>5, OthersRest, AloneKept
<1> QED BY <1>4, <1>5, <1>6 DEF IInv

LEMMA MarkLeftKeeps ==
  ASSUME IInv, NEW r \in Requests, MarkLeft(r) PROVE IInv'
<1> DEFINE u == req[r].target
<1>0. TypeOK /\ Orderly BY DEF IInv
<1>1. /\ req[r].at = "update" /\ Free(r, {u})
      /\ active' = (IF IsAdmin(u) THEN active ELSE active \ {u})
      /\ UNCHANGED <<role, joined, clock, serial, netvars>>
  BY DEF MarkLeft
<1>2. u \in Users /\ req[r].promoted = NoUser
  BY <1>0, <1>1 DEF TypeOK, Orderly, LeaveSteps
<1>3. CASE IsAdmin(u)
  <2>1. Goto(r, "otherAdmin") /\ UNCHANGED active BY <1>1, <1>3 DEF MarkLeft, IsAdmin
  <2>2. "otherAdmin" \in Steps BY DEF Steps, LeaveSteps
  <2>3. /\ req' \in [Requests -> RequestStates]
        /\ req'[r].at = "otherAdmin" /\ req'[r].target = u /\ req'[r].promoted = NoUser
        /\ \A s \in Requests \ {r} : req'[s] = req[s]
        /\ \A s \in Requests : req'[s].at \in LeaveSteps => req'[s].target \in Users
    BY <1>0, <1>2, <2>1, <2>2, GotoType
  <2>4. TypeOK' BY <1>0, <1>1, <2>1, <2>3 DEF TypeOK, netvars
  <2>5. \A q \in Requests \ {r} : Locked(q) \cap Locked(r)' = {}
    BY <1>1, <2>3 DEF Free, Locked
  <2>6. Orderly' BY <1>0, <1>1, <1>3, <2>1, <2>3, <2>5, OrderlyKept
  <2>7. Informed(r)' BY <2>3 DEF Informed
  <2>8. ASSUME serial' PROVE Alone'
    <3>1. serial /\ Alone BY <1>1, <2>8 DEF IInv
    <3>2. req[r] # Idle BY <1>1, IdleType
    <3> QED BY <1>1, <2>1, <2>3, <2>7, <3>1, <3>2, OthersRest, AloneKept DEF Alone
  <2> QED BY <2>4, <2>6, <2>8 DEF IInv
<1>4. CASE ~IsAdmin(u)
  <2>1. active' = active \ {u} /\ (Goto(r, "unhear") \/ Done(r)) BY <1>1, <1>4 DEF MarkLeft
  <2>2. "unhear" \in Steps BY DEF Steps, LeaveSteps
  <2>3. /\ req' \in [Requests -> RequestStates]
        /\ (req'[r].at = "idle" /\ req'[r] = Idle) \/ req'[r].at = "unhear"
        /\ \A s \in Requests \ {r} : req'[s] = req[s]
        /\ \A s \in Requests : req'[s].at \in LeaveSteps => req'[s].target \in Users
    <3>1. CASE Goto(r, "unhear") BY <1>0, <1>2, <2>2, <3>1, GotoType
    <3>2. CASE Done(r) BY <1>0, <3>2, DoneType
    <3> QED BY <2>1, <3>1, <3>2
  <2>4. TypeOK' BY <1>0, <1>1, <2>1, <2>3 DEF TypeOK, netvars
  <2>5. Orderly'
    <3>1. OneAdmin' BY <1>0, <1>1, <2>1 DEF Orderly, OneAdmin, IsAdmin
    <3>2. Locked(r)' = {} BY <2>3 DEF Locked
    <3>3. ASSUME NEW s \in Requests \ {r}
          PROVE  /\ req'[s] = req[s] /\ Locked(s)' = Locked(s)
                 /\ req[s].at \in Handing => IsAdmin(req[s].target)'
      <4>1. req'[s] = req[s] BY <2>3
      <4>2. ASSUME req[s].at \in Handing PROVE IsAdmin(req[s].target)'
        <5>1. IsAdmin(req[s].target) BY <1>0, <4>2 DEF Orderly
        <5>2. req[s].target # u BY <1>4, <5>1
        <5> QED BY <1>1, <2>1, <4>1, <5>1, <5>2 DEF IsAdmin
      <4> QED BY <4>1, <4>2 DEF Locked
    <3>4. req'[r].at \notin Handing BY <2>3 DEF Handing
    <3> QED BY <1>0, <2>3, <3>1, <3>2, <3>3, <3>4 DEF Orderly, IsAdmin
  <2>6. ASSUME serial' PROVE Alone'
    <3>1. serial /\ Alone BY <1>1, <2>6 DEF IInv
    <3>2. req[r] # Idle BY <1>1, IdleType
    <3>3. active' # {} => \E w \in active' : role'[w] = "admin"
      BY <1>1, <1>4, <2>1, <3>1 DEF Alone, IsAdmin
    <3>4. Cardinality(active') <= MaxMembers
      <4>1. IsFiniteSet(active) BY <1>0, GroupAssumption, FS_Subset DEF TypeOK
      <4>2. /\ Cardinality(active') \in Nat /\ Cardinality(active) \in Nat
            /\ Cardinality(active') <= Cardinality(active)
        BY <2>1, <4>1, FS_Subset, FS_CardinalityType
      <4> QED BY <3>1, <4>2, GroupAssumption DEF Alone
    <3>5. Informed(r)' BY <2>3 DEF Informed
    <3> QED BY <2>3, <3>1, <3>2, <3>3, <3>4, <3>5, OthersRest, AloneKept
  <2> QED BY <2>4, <2>5, <2>6 DEF IInv
<1> QED BY <1>3, <1>4

LEMMA UnhearKeeps ==
  ASSUME IInv, NEW r \in Requests, Unhear(r) PROVE IInv'
<1>1. hears' \subseteq {u \in Users : socket[u] = "open"}
  BY DEF IInv, TypeOK, Unhear
<1> QED BY <1>1, DoneKeeps DEF Unhear, rowvars, IInv, TypeOK

LEMMA HearKeeps ==
  ASSUME IInv, NEW r \in Requests, Hear(r) PROVE IInv'
<1>1. req[r].people \subseteq Users BY DEF IInv, TypeOK, RequestStates
<1>2. hears' \subseteq {u \in Users : socket[u] = "open"}
  BY <1>1 DEF IInv, TypeOK, Hear
<1> QED BY <1>2, DoneKeeps DEF Hear, rowvars, IInv, TypeOK

LEMMA AbortKeeps ==
  ASSUME IInv, NEW r \in Requests, Abort(r) PROVE IInv'
BY DoneKeeps DEF Abort, rowvars, netvars, IInv, TypeOK

LEMMA CountMembersKeeps ==
  ASSUME IInv, NEW r \in Requests, CountMembers(r) PROVE IInv'
<1>0. TypeOK /\ Orderly BY DEF IInv
<1>1. req[r].at = "count" /\ UNCHANGED <<rowvars, netvars>> BY DEF CountMembers
<1>2. CASE Cardinality(active) + Cardinality(req[r].people) > MaxMembers
  BY <1>0, <1>1, <1>2, DoneKeeps DEF CountMembers, rowvars, netvars, TypeOK
<1>3. CASE ~(Cardinality(active) + Cardinality(req[r].people) > MaxMembers)
  <2>1. Goto(r, "select") /\ "select" \in Steps
    BY <1>3 DEF CountMembers, Steps, AddSteps
  <2>2. "select" \notin LeaveSteps BY DEF LeaveSteps
  <2>3. req'[r].at = "select" /\ req'[r].people = req[r].people
    BY <1>0, <2>1, <2>2, GotoType
  <2>4. Locked(r)' = {} BY <2>3 DEF Locked
  <2>5. serial => Informed(r)'
    <3>1. Cardinality(active) + Cardinality(req[r].people) <= MaxMembers
      <4>1. IsFiniteSet(active) /\ IsFiniteSet(req[r].people)
        BY <1>0, GroupAssumption, FS_Subset DEF TypeOK, RequestStates
      <4>2. Cardinality(active) \in Nat /\ Cardinality(req[r].people) \in Nat
        BY <4>1, FS_CardinalityType
      <4> QED BY <1>3, <4>2, GroupAssumption
    <3> QED BY <1>1, <2>3, <3>1 DEF IInv, Alone, Informed, rowvars
  <2> QED
    BY <1>0, <1>1, <2>1, <2>2, <2>4, <2>5, GotoKeeps
    DEF Handing, rowvars, netvars, TypeOK
<1> QED BY <1>2, <1>3

LEMMA SelectNewKeeps ==
  ASSUME IInv, NEW r \in Requests, SelectNew(r) PROVE IInv'
<1> DEFINE toAdd == req[r].people \ active
<1>0. TypeOK /\ Orderly BY DEF IInv
<1>1. /\ req[r].at = "select" /\ clock' = clock + 1 /\ clock' \in Nat
      /\ UNCHANGED <<active, role, joined, serial, netvars>>
  BY <1>0 DEF SelectNew, TypeOK
<1>2. CASE toAdd = {}
  BY <1>0, <1>1, <1>2, DoneKeeps DEF SelectNew, netvars, TypeOK
<1>3. CASE toAdd # {}
  <2>1. req' = [req EXCEPT ![r].at = "upsert", ![r].people = toAdd, ![r].time = clock + 1]
    BY <1>3 DEF SelectNew
  <2>2. toAdd \subseteq Users BY <1>0 DEF TypeOK, RequestStates
  <2>3. /\ req' \in [Requests -> RequestStates]
        /\ req'[r].at = "upsert" /\ req'[r].people = toAdd
        /\ \A s \in Requests \ {r} : req'[s] = req[s]
    <3>1. toAdd \in SUBSET Users /\ clock + 1 \in Nat /\ "upsert" \in Steps
      BY <1>0, <2>2 DEF TypeOK, Steps, AddSteps
    <3> HIDE DEF toAdd
    <3> DEFINE new == [req[r] EXCEPT !.at = "upsert", !.people = toAdd, !.time = clock + 1]
    <3>2. req[r] \in RequestStates BY <1>0 DEF TypeOK
    <3>3. new \in RequestStates /\ new.at = "upsert" /\ new.people = toAdd
      BY <3>1, <3>2 DEF RequestStates
    <3>4. req' = [req EXCEPT ![r] = new] BY <1>0, <2>1 DEF TypeOK
    <3> HIDE DEF new
    <3> QED BY <1>0, <3>3, <3>4 DEF TypeOK
  <2>4. TypeOK' BY <1>0, <1>1, <2>3 DEF TypeOK, netvars, LeaveSteps
  <2>5. Locked(r)' = {} BY <2>3 DEF Locked
  <2>6. Orderly' BY <1>0, <1>1, <2>3, <2>5, OrderlyKept DEF Handing
  <2>7. ASSUME serial' PROVE Alone'
    <3>1. serial /\ Alone BY <1>1, <2>7 DEF IInv
    <3>2. req[r] # Idle BY <1>1, IdleType
    <3>3. Cardinality(active) + Cardinality(toAdd) <= MaxMembers
      <4>1. IsFiniteSet(active) /\ IsFiniteSet(req[r].people)
        BY <1>0, GroupAssumption, FS_Subset DEF TypeOK, RequestStates
      <4>2. IsFiniteSet(toAdd) /\ Cardinality(toAdd) <= Cardinality(req[r].people)
        BY <4>1, FS_Subset
      <4>3. /\ Cardinality(active) \in Nat /\ Cardinality(toAdd) \in Nat
            /\ Cardinality(req[r].people) \in Nat
        BY <4>1, <4>2, FS_CardinalityType
      <4>4. Cardinality(active) + Cardinality(req[r].people) <= MaxMembers
        BY <1>1, <3>1 DEF Alone, Informed
      <4> QED BY <4>2, <4>3, <4>4, GroupAssumption
    <3>4. Informed(r)' BY <1>1, <2>3, <3>1, <3>3 DEF Informed, Alone
    <3> QED BY <1>1, <2>3, <3>1, <3>2, <3>4, OthersRest, AloneKept DEF Alone
  <2> QED BY <2>4, <2>6, <2>7 DEF IInv
<1> QED BY <1>2, <1>3

LEMMA UpsertKeeps ==
  ASSUME IInv, NEW r \in Requests, Upsert(r) PROVE IInv'
<1> DEFINE S == req[r].people
<1>0. TypeOK /\ Orderly BY DEF IInv
<1>1. /\ req[r].at = "upsert" /\ Free(r, S) /\ active' = active \cup S
      /\ role' = [u \in Users |-> IF u \in S THEN "member" ELSE role[u]]
      /\ joined' = [u \in Users |-> IF u \in S THEN req[r].time ELSE joined[u]]
      /\ Goto(r, "hear") /\ UNCHANGED <<clock, serial, netvars>>
  BY DEF Upsert
<1>2. S \subseteq Users /\ req[r].time \in Nat BY <1>0 DEF TypeOK, RequestStates
<1>3. "hear" \in Steps /\ "hear" \notin LeaveSteps BY DEF Steps, AddSteps, LeaveSteps
<1>4. /\ req' \in [Requests -> RequestStates] /\ req'[r].at = "hear"
      /\ \A s \in Requests \ {r} : req'[s] = req[s]
      /\ \A s \in Requests : req'[s].at \in LeaveSteps => req'[s].target \in Users
  BY <1>0, <1>1, <1>3, GotoType
<1>5. TypeOK' BY <1>0, <1>1, <1>2, <1>4 DEF TypeOK, netvars
<1>6. Orderly'
  <2>1. OneAdmin'
    BY <1>0, <1>1 DEF Orderly, OneAdmin, IsAdmin
  <2>2. Locked(r)' = {} /\ req'[r].at \notin Handing BY <1>4 DEF Locked, Handing
  <2>3. ASSUME NEW s \in Requests \ {r}
        PROVE  /\ req'[s] = req[s] /\ Locked(s)' = Locked(s)
               /\ req[s].at \in Handing => IsAdmin(req[s].target)'
    <3>1. req'[s] = req[s] BY <1>4
    <3>2. ASSUME req[s].at \in Handing PROVE IsAdmin(req[s].target)'
      <4>1. req[s].target \in Users BY <1>0, <3>2 DEF TypeOK, Handing, LeaveSteps
      <4>2. req[s].target \in Locked(s)
        BY <3>2, <4>1, GroupAssumption DEF Handing, Locked
      <4>3. IsAdmin(req[s].target) /\ req[s].target \notin S
        BY <1>0, <1>1, <3>2, <4>2 DEF Orderly, Free
      <4> QED BY <1>1, <3>1, <4>1, <4>3 DEF IsAdmin
    <3> QED BY <3>1, <3>2 DEF Locked
  <2> QED BY <1>0, <1>4, <2>1, <2>2, <2>3 DEF Orderly, IsAdmin
<1>7. ASSUME serial' PROVE Alone'
  <2>1. serial /\ Alone /\ Informed(r) BY <1>1, <1>7 DEF IInv, Alone
  <2>2. req[r] # Idle BY <1>1, IdleType
  <2>3. \E w \in active' : role'[w] = "admin"
    <3>1. PICK w \in active : role[w] = "admin" BY <1>1, <2>1 DEF Alone, Informed
    <3>2. w \in Users /\ w \notin S BY <1>0, <1>1, <2>1, <3>1 DEF TypeOK, Informed
    <3> QED BY <1>1, <3>1, <3>2
  <2>4. Cardinality(active') <= MaxMembers
    <3>1. IsFiniteSet(active) /\ IsFiniteSet(S)
      BY <1>0, <1>2, GroupAssumption, FS_Subset DEF TypeOK
    <3>2. Cardinality(active \cup S) = Cardinality(active) + Cardinality(S) - Cardinality(active \cap S)
      BY <3>1, FS_Union
    <3>3. active \cap S = {} BY <1>1, <2>1 DEF Informed
    <3>4. Cardinality(active \cap S) = 0 BY <3>3, FS_EmptySet
    <3>5. Cardinality(active) \in Nat /\ Cardinality(S) \in Nat BY <3>1, FS_CardinalityType
    <3>6. Cardinality(active) + Cardinality(S) <= MaxMembers BY <1>1, <2>1 DEF Informed
    <3> QED BY <1>1, <3>2, <3>4, <3>5, <3>6
  <2>5. Informed(r)' BY <1>4 DEF Informed
  <2> QED BY <1>4, <2>1, <2>2, <2>3, <2>4, <2>5, OthersRest, AloneKept
<1> QED BY <1>5, <1>6, <1>7 DEF IInv

\* The sockets touch no membership.
LEMMA SocketKeeps ==
  ASSUME IInv, NEW u \in Users, LoadConversations(u) \/ Register(u) \/ Unregister(u)
  PROVE  IInv'
<1>1. UNCHANGED <<rowvars, req>> BY DEF LoadConversations, Register, Unregister
<1>2. /\ socket' \in [Users -> SocketStates]
      /\ hears' \subseteq {v \in Users : socket'[v] = "open"}
  BY DEF IInv, TypeOK, LoadConversations, Register, Unregister, SocketStates
<1>3. TypeOK' BY <1>1, <1>2 DEF IInv, TypeOK, rowvars
<1>4. Orderly' BY <1>1 DEF IInv, Orderly, OneAdmin, IsAdmin, Locked, rowvars
<1>5. serial' => Alone' BY <1>1 DEF IInv, Alone, Informed, Rest, Oldest, rowvars
<1> QED BY <1>3, <1>4, <1>5 DEF IInv

-----------------------------------------------------------------------------

LEMMA InitInv == Init => IInv
<1> SUFFICES ASSUME Init PROVE IInv OBVIOUS
<1>1. TypeOK BY IdleType, GroupAssumption DEF Init, TypeOK, LeaveSteps, SocketStates
<1>2. Orderly
  BY IdleType DEF Init, Orderly, OneAdmin, IsAdmin, Locked, Handing
<1>3. Alone
  <2>1. \A r \in Requests : Informed(r) BY IdleType DEF Init, Informed
  <2> QED BY <2>1, GroupAssumption DEF Init, Alone
<1> QED BY <1>1, <1>2, <1>3 DEF IInv

LEMMA StartKeeps ==
  ASSUME IInv, NEW r \in Requests, NEW a \in Users, NEW u \in Users, NEW S \in SUBSET Users,
         StartLeave(r, u) \/ StartRemove(r, a, u) \/ StartAdd(r, a, S)
  PROVE  IInv'
<1>0. /\ "update" \in {"update", "count"} /\ "count" \in {"update", "count"}
      /\ "update" # "count" /\ FALSE \in BOOLEAN /\ TRUE \in BOOLEAN
      /\ u \in Users \cup {NoUser} /\ NoUser \in Users \cup {NoUser}
      /\ {} \in SUBSET Users
  OBVIOUS
<1>1. CASE StartLeave(r, u)
  <2>1. Begin(r, Request("update", u, FALSE, {})) BY <1>1 DEF StartLeave
  <2> QED BY <1>0, <2>1, BeginKeeps, Zenon
<1>2. CASE StartRemove(r, a, u)
  <2>1. Begin(r, Request("update", u, TRUE, {})) BY <1>2 DEF StartRemove
  <2> QED BY <1>0, <2>1, BeginKeeps, Zenon
<1>3. CASE StartAdd(r, a, S)
  <2>1. Begin(r, Request("count", NoUser, FALSE, S)) /\ active # {}
    BY <1>3 DEF StartAdd, IsAdmin
  <2> QED BY <1>0, <2>1, BeginKeeps, Zenon
<1> QED BY <1>1, <1>2, <1>3

LEMMA NextInv == IInv /\ [Next]_vars => IInv'
<1> SUFFICES ASSUME IInv, [Next]_vars PROVE IInv' OBVIOUS
<1>1. CASE UNCHANGED vars
  BY <1>1 DEF vars, rowvars, netvars, IInv, TypeOK, Orderly, OneAdmin, IsAdmin, Locked,
              Alone, Informed, Rest, Oldest
<1>2. ASSUME NEW r \in Requests, Step(r) \/ Abort(r) PROVE IInv'
  BY <1>2, MarkLeftKeeps, FindAdminKeeps, FindOldestKeeps, PromoteKeeps, CommitLeaveKeeps,
     UnhearKeeps, CountMembersKeeps, SelectNewKeeps, UpsertKeeps, HearKeeps, AbortKeeps
  DEF Step
<1>3. ASSUME NEW r \in Requests, NEW u \in Users, StartLeave(r, u) PROVE IInv'
  BY <1>3, StartKeeps
<1>4. ASSUME NEW r \in Requests, NEW a \in Users, NEW u \in Users, StartRemove(r, a, u)
      PROVE IInv'
  BY <1>4, StartKeeps
<1>5. ASSUME NEW r \in Requests, NEW a \in Users, NEW S \in SUBSET Users, StartAdd(r, a, S)
      PROVE IInv'
  BY <1>5, StartKeeps
<1>6. ASSUME NEW u \in Users, LoadConversations(u) \/ Register(u) \/ Unregister(u)
      PROVE IInv'
  BY <1>6, SocketKeeps
<1> QED BY <1>1, <1>2, <1>3, <1>4, <1>5, <1>6 DEF Next

THEOREM Invariant == Spec => []IInv
<1>1. Init => IInv BY InitInv
<1>2. IInv /\ [Next]_vars => IInv' BY NextInv
<1> QED BY <1>1, <1>2, PTL DEF Spec

\* The variables of a group have their types.
THEOREM TypesHold == Spec => []TypeOK
<1>1. IInv => TypeOK BY DEF IInv
<1> QED BY <1>1, Invariant, PTL

\* However many leave, are removed and come back at the same time, the admin
\* role is never held twice (leaveConversation, addGroupMembers).
THEOREM RoleNeverCopied == Spec => []AtMostOneAdmin
<1>1. ASSUME IInv PROVE AtMostOneAdmin
  <2>1. CASE Admins = {} BY <2>1, FS_EmptySet DEF AtMostOneAdmin
  <2>2. CASE Admins # {}
    <3>1. PICK u \in Users : IsAdmin(u) BY <2>2 DEF Admins
    <3>2. Admins = {u} BY <1>1, <3>1 DEF IInv, Orderly, OneAdmin, Admins
    <3> QED BY <3>2, FS_Singleton DEF AtMostOneAdmin
  <2> QED BY <2>1, <2>2
<1> QED BY <1>1, Invariant, PTL

\* Only the commit of a hand-over gives the role to somebody.
LEMMA OldestStep == IInv /\ [Next]_vars => [serial' => OldestPromoted]_vars
<1> SUFFICES ASSUME IInv, Next, serial', NEW u \in Users, role[u] # "admin", role'[u] = "admin",
                    NEW v \in active'
             PROVE  joined'[u] <= joined'[v]
  BY DEF OldestPromoted
<1>0. TypeOK /\ Orderly BY DEF IInv
<1>1. PICK r \in Requests : CommitLeave(r)
  <2>1. \E r \in Requests : Step(r)
    <3>1. role' # role OBVIOUS
    <3>2. ASSUME NEW r \in Requests, Abort(r) PROVE FALSE BY <3>1, <3>2 DEF Abort, rowvars
    <3>3. ASSUME NEW r \in Requests, NEW request, Begin(r, request) PROVE FALSE
      BY <3>1, <3>3 DEF Begin
    <3>4. ASSUME NEW w, LoadConversations(w) \/ Register(w) \/ Unregister(w) PROVE FALSE
      BY <3>1, <3>4 DEF LoadConversations, Register, Unregister, rowvars
    <3> QED BY <3>2, <3>3, <3>4 DEF Next, StartLeave, StartRemove, StartAdd
  <2>2. ASSUME NEW r \in Requests, Step(r), ~CommitLeave(r) PROVE FALSE
    <3>1. CASE Upsert(r) BY <3>1 DEF Upsert
    <3>2. CASE MarkLeft(r) BY <3>2 DEF MarkLeft
    <3>3. CASE FindAdmin(r) \/ FindOldest(r) \/ Promote(r) \/ Unhear(r) \/ CountMembers(r)
               \/ SelectNew(r) \/ Hear(r)
      BY <3>3 DEF FindAdmin, FindOldest, Promote, Unhear, CountMembers, SelectNew, Hear, rowvars
    <3> QED BY <2>2, <3>1, <3>2, <3>3 DEF Step
  <2> QED BY <2>1, <2>2
<1>2. /\ req[r].at = "commit" /\ serial /\ UNCHANGED joined
      /\ active' = Rest(r) /\ u = req[r].promoted
  BY <1>1 DEF CommitLeave, Rest
<1>3. u \in Oldest(Rest(r))
  BY <1>2, GroupAssumption DEF IInv, Alone, Informed
<1> QED BY <1>2, <1>3 DEF Oldest

\* One operation at a time, a group with members has an admin, is no larger
\* than allowed, and whoever is promoted has been in it for longest.
THEOREM GroupsSound == Spec => GroupSound
<1>1. IInv => (serial => AlwaysAnAdmin /\ WithinLimit)
  BY DEF IInv, TypeOK, Alone, AlwaysAnAdmin, WithinLimit, Admins, IsAdmin
<1> QED BY <1>1, OldestStep, Invariant, PTL DEF GroupSound, Spec

\* Where a group has one request at a time, no two are ever under way at once.
LEMMA OneAtATime ==
  ASSUME \A q, r \in Requests : q = r
  PROVE  Spec => []serial
<1>1. Init => serial
  BY DEF Init
<1>2. serial /\ [Next]_vars => serial'
  <2> SUFFICES ASSUME serial, [Next]_vars PROVE serial'
    OBVIOUS
  <2>1. ASSUME NEW r \in Requests, NEW request, Begin(r, request) PROVE serial'
    BY <2>1 DEF Begin
  <2>2. CASE UNCHANGED vars
    BY <2>2 DEF vars, rowvars
  <2>3. ASSUME NEW r \in Requests, Step(r) \/ Abort(r) PROVE serial'
    BY <2>3 DEF Step, Abort, MarkLeft, FindAdmin, FindOldest, Promote, CommitLeave, Unhear,
                CountMembers, SelectNew, Upsert, Hear, rowvars
  <2>4. ASSUME NEW u \in Users, LoadConversations(u) \/ Register(u) \/ Unregister(u)
        PROVE serial'
    BY <2>4 DEF LoadConversations, Register, Unregister, rowvars
  <2> QED BY <2>1, <2>2, <2>3, <2>4 DEF Next, StartLeave, StartRemove, StartAdd
<1> QED BY <1>1, <1>2, PTL DEF Spec

(******************************** Signing in ********************************)

GuessesBounded == Door!GuessesBounded

\* Bounds are numbers, one at least, and a server serves a number of requests.
SignInAssumption ==
  /\ IsFiniteSet(Entrants)
  /\ MaxFailures \in Nat \ {0} /\ MaxAttempts \in Nat \ {0}

\* The requests that have passed the check and are not counted yet.
Guessing == {r \in Entrants : task[r].at \in {"guess", "miss"}}

\* A request that guesses takes the place of a failure to come.
Counted == codeFailures + Cardinality(Guessing) <= MaxFailures + Cardinality(Entrants) - 1

GuessInv == Door!TypeOK /\ Counted

\* What a step may do to the failures and to the requests that guess: neither
\* grows, or there are tries left, or one request less is counted once more.
Counts ==
  \/ codeFailures' <= codeFailures /\ Guessing' \subseteq Guessing
  \/ codeFailures' <= MaxFailures - 1
  \/ codeFailures' <= codeFailures + 1 /\ \E r \in Guessing : Guessing' \subseteq Guessing \ {r}

\* Such a step keeps the sum within its bound.
LEMMA CountsKeep ==
  ASSUME SignInAssumption, GuessInv, Door!TypeOK', Counts
  PROVE  Counted'
<1>1. IsFiniteSet(Guessing) /\ IsFiniteSet(Guessing')
  BY FS_Subset DEF SignInAssumption, Guessing
<1>2. /\ Cardinality(Entrants) \in Nat /\ Cardinality(Guessing) \in Nat
      /\ Cardinality(Guessing') \in Nat
  BY <1>1, FS_CardinalityType DEF SignInAssumption
<1>3. codeFailures \in Int /\ codeFailures' \in Int /\ MaxFailures \in Int
  BY DEF GuessInv, Door!TypeOK, SignInAssumption
<1>4. CASE codeFailures' <= codeFailures /\ Guessing' \subseteq Guessing
  <2>1. Cardinality(Guessing') <= Cardinality(Guessing)
    BY <1>1, <1>4, FS_Subset
  <2> QED
    BY <1>2, <1>3, <1>4, <2>1 DEF GuessInv, Counted
<1>5. CASE codeFailures' <= MaxFailures - 1
  <2>1. Guessing' \subseteq Entrants
    BY DEF Guessing
  <2>2. Cardinality(Guessing') <= Cardinality(Entrants)
    BY <2>1, FS_Subset DEF SignInAssumption
  <2> QED
    BY <1>2, <1>3, <1>5, <2>2 DEF Counted
<1>6. CASE /\ codeFailures' <= codeFailures + 1
           /\ \E r \in Guessing : Guessing' \subseteq Guessing \ {r}
  <2>1. PICK r \in Guessing : Guessing' \subseteq Guessing \ {r}
    BY <1>6
  <2>2. IsFiniteSet(Guessing \ {r}) /\ Cardinality(Guessing \ {r}) = Cardinality(Guessing) - 1
    BY <1>1, <2>1, FS_RemoveElement
  <2>3. Cardinality(Guessing') <= Cardinality(Guessing \ {r})
    BY <2>1, <2>2, FS_Subset
  <2> QED
    BY <1>2, <1>3, <1>6, <2>2, <2>3 DEF GuessInv, Counted
<1> QED
  BY <1>4, <1>5, <1>6 DEF Counts

\* Every step keeps the types.
LEMMA DoorTypes ==
  ASSUME SignInAssumption, Door!TypeOK, [Door!Next]_(Door!vars)
  PROVE  Door!TypeOK'
<1> USE DEF Door!TypeOK, Door!At, Door!Begin, Door!Goto, Door!Done, Door!Idle, Door!tokens,
            Door!account
<1>1. ASSUME NEW r \in Entrants, Door!Serve(r) PROVE Door!TypeOK'
  <2>1. CASE \E right \in BOOLEAN : Door!StartPassword(r, right)
    BY <2>1 DEF Door!StartPassword
  <2>2. CASE \E e \in Emails : Door!StartMail(r, e)
    BY <2>2 DEF Door!StartMail
  <2>3. CASE \E e \in Emails : Door!UseLink(r, e)
    BY <2>3 DEF Door!UseLink
  <2>4. CASE \E e \in Emails \cup {NoEmail} : Door!StartCode(r, e)
    BY <2>4 DEF Door!StartCode
  <2>5. CASE Door!RecordFailure(r)
    BY <2>5 DEF Door!RecordFailure, SignInAssumption
  <2>6. CASE Door!RightPassword(r)
    <3>1. delayed' \in BOOLEAN /\ verified' \in BOOLEAN
      BY <2>6, Zenon DEF Door!RightPassword, Door!ResetFailedLogins
    <3> QED
      BY <2>6, <3>1 DEF Door!RightPassword, Door!ResetFailedLogins, SignInAssumption
  <2>7. CASE Door!CreateLink(r)
    BY <2>7 DEF Door!CreateLink
  <2>8. CASE Door!CreateCode(r)
    BY <2>8 DEF Door!CreateCode
  <2>9. CASE Door!FreshTries(r)
    BY <2>9 DEF Door!FreshTries, SignInAssumption
  <2>10. CASE Door!UseCode(r)
    BY <2>10 DEF Door!UseCode
  <2>11. CASE Door!RecordCodeFailure(r)
    BY <2>11 DEF Door!RecordCodeFailure, SignInAssumption
  <2>12. CASE Door!VoidCodes(r)
    BY <2>12 DEF Door!VoidCodes, Door!Consumed
  <2>13. CASE Door!UseOtherLinks(r)
    BY <2>13 DEF Door!UseOtherLinks, Door!Consumed
  <2>14. CASE Door!UseOtherCodes(r)
    BY <2>14 DEF Door!UseOtherCodes, Door!Consumed
  <2>15. CASE Door!MarkVerified(r) \/ Door!MarkEmail(r)
    <3>1. delayed' \in BOOLEAN /\ verified' \in BOOLEAN
      BY <2>15, Zenon DEF Door!MarkVerified, Door!MarkEmail
    <3> QED
      BY <2>15, <3>1 DEF Door!MarkVerified, Door!MarkEmail
  <2>16. CASE Door!ForgetFailures(r)
    <3>1. delayed' \in BOOLEAN /\ verified' \in BOOLEAN
      BY <2>16, Zenon DEF Door!ForgetFailures, Door!ResetFailedLogins
    <3> QED
      BY <2>16, <3>1 DEF Door!ForgetFailures, Door!ResetFailedLogins, SignInAssumption
  <2>17. CASE Door!IssueSession(r) \/ Door!Drop(r)
    BY <2>17 DEF Door!IssueSession, Door!Drop
  <2>18. CASE Door!VerifyEmail(r) \/ Door!Resend(r)
    BY <2>18 DEF Door!VerifyEmail, Door!Resend
  <2> QED
    BY <1>1, <2>1, <2>2, <2>3, <2>4, <2>5, <2>6, <2>7, <2>8, <2>9, <2>10, <2>11, <2>12,
       <2>13, <2>14, <2>15, <2>16, <2>17, <2>18 DEF Door!Serve
<1>2. CASE Door!DelayOver
  BY <1>2 DEF Door!DelayOver
<1>3. CASE UNCHANGED Door!vars
  BY <1>3 DEF Door!vars
<1> QED
  BY <1>1, <1>2, <1>3 DEF Door!Next

\* Every step is of one of the shapes of Counts.
LEMMA DoorCounts ==
  ASSUME SignInAssumption, Door!TypeOK, [Door!Next]_(Door!vars)
  PROVE  Counts
<1> USE DEF Door!TypeOK, Door!At, Door!Begin, Door!Goto, Door!Done, Door!Idle, Door!tokens,
            Door!account, Guessing, Counts
<1>1. ASSUME NEW r \in Entrants, Door!Serve(r) PROVE Counts
  <2>1. CASE \/ \E right \in BOOLEAN : Door!StartPassword(r, right)
             \/ \E e \in Emails : Door!StartMail(r, e) \/ Door!UseLink(r, e)
    BY <2>1 DEF Door!StartPassword, Door!StartMail, Door!UseLink
  <2>2. CASE \E e \in Emails \cup {NoEmail} : Door!StartCode(r, e)
    BY <2>2 DEF Door!StartCode, SignInAssumption
  <2>3. CASE Door!RightPassword(r) \/ Door!FreshTries(r) \/ Door!ForgetFailures(r)
    BY <2>3 DEF Door!RightPassword, Door!FreshTries, Door!ForgetFailures,
                Door!ResetFailedLogins, SignInAssumption
  <2>4. CASE Door!UseCode(r)
    BY <2>4 DEF Door!UseCode
  <2>5. CASE Door!RecordCodeFailure(r)
    BY <2>5 DEF Door!RecordCodeFailure
  <2>6. CASE \/ Door!RecordFailure(r) \/ Door!CreateLink(r) \/ Door!CreateCode(r)
             \/ Door!VoidCodes(r) \/ Door!UseOtherLinks(r) \/ Door!UseOtherCodes(r)
    BY <2>6 DEF Door!RecordFailure, Door!CreateLink, Door!CreateCode, Door!VoidCodes,
                Door!UseOtherLinks, Door!UseOtherCodes
  <2>7. CASE \/ Door!MarkVerified(r) \/ Door!MarkEmail(r) \/ Door!IssueSession(r)
             \/ Door!VerifyEmail(r) \/ Door!Resend(r) \/ Door!Drop(r)
    BY <2>7 DEF Door!MarkVerified, Door!MarkEmail, Door!IssueSession, Door!VerifyEmail,
                Door!Resend, Door!Drop
  <2> QED
    BY <1>1, <2>1, <2>2, <2>3, <2>4, <2>5, <2>6, <2>7 DEF Door!Serve
<1>2. CASE Door!DelayOver
  BY <1>2 DEF Door!DelayOver
<1>3. CASE UNCHANGED Door!vars
  BY <1>3 DEF Door!vars
<1> QED
  BY <1>1, <1>2, <1>3 DEF Door!Next

\* However many guesses of a code run side by side, at most MaxFailures wrong
\* ones are counted between two resets, and one more for each further request
\* that had passed the check already (auth.service.ts: verifyLoginCode).
THEOREM GuessesStayBounded ==
  ASSUME SignInAssumption
  PROVE  Door!Spec => []GuessesBounded
<1>1. Door!Init => GuessInv
  <2> SUFFICES ASSUME Door!Init PROVE GuessInv
    OBVIOUS
  <2>1. Door!TypeOK
    <3>1. delayed \in BOOLEAN /\ verified \in BOOLEAN
      BY Zenon DEF Door!Init
    <3> QED
      BY <3>1 DEF Door!Init, Door!TypeOK, Door!Idle, SignInAssumption
  <2>2. Guessing = {}
    BY DEF Door!Init, Door!Idle, Guessing
  <2>3. Cardinality(Guessing) = 0 /\ Cardinality(Entrants) \in Nat
    BY <2>2, FS_EmptySet, FS_CardinalityType DEF SignInAssumption
  <2> QED
    BY <2>1, <2>3 DEF Door!Init, GuessInv, Counted, SignInAssumption
<1>2. GuessInv /\ [Door!Next]_(Door!vars) => GuessInv'
  BY DoorTypes, DoorCounts, CountsKeep DEF GuessInv
<1>3. GuessInv => GuessesBounded
  <2> SUFFICES ASSUME GuessInv PROVE GuessesBounded
    OBVIOUS
  <2>1. IsFiniteSet(Guessing)
    BY FS_Subset DEF SignInAssumption, Guessing
  <2>2. Cardinality(Entrants) \in Nat /\ Cardinality(Guessing) \in Nat
    BY <2>1, FS_CardinalityType DEF SignInAssumption
  <2>3. Door!Cardinality(Entrants) = Cardinality(Entrants)
    BY Zenon DEF Cardinality, Door!Cardinality
  <2> QED
    BY <2>2, <2>3 DEF GuessInv, Counted, Door!TypeOK, GuessesBounded, Door!GuessesBounded,
                      SignInAssumption
<1> QED
  BY <1>1, <1>2, <1>3, PTL DEF Door!Spec

(***************************** Deleted accounts *****************************)


\* Who locks the person's row, and how.
RowLocked ==
  /\ sharing = {r \in Handlers : \/ ask[r].do \in Deletion!Joining /\ ask[r].at \in {"locked", "inserted"}
                                 \/ ask[r].do = "send" /\ ask[r].at = "inserted"}
  /\ exclusive = {r \in Handlers : ask[r].do = "delete" /\ ask[r].at \in {"locked", "erased"}}
  /\ exclusive # {} => sharing = {}
  /\ \A q, r \in exclusive : q = r

\* While the deletion holds the row nobody joins, and afterwards nobody gets it.
NobodyJoins ==
  /\ \A r \in Handlers : ask[r].do = "delete" /\ ask[r].at = "erased" => inside \subseteq ask[r].list
  /\ deleted => \A r \in sharing : ask[r].do = "send"
  /\ Deletion!NoWayBackIn

ChatStands ==
  /\ got # {} => chat = "made"
  /\ chat = "made" => deleted \/ "chat" \in inside

\* What the person still has at work after the deletion began before it.
AtWork ==
  /\ deleted => \A r \in Handlers : ask[r].do \in Deletion!Own /\ ask[r].at # "done" => r \in begun
  /\ Deletion!StaysErased

DeletionInv == Deletion!TypeOK /\ RowLocked /\ NobodyJoins /\ ChatStands /\ AtWork

LEMMA DeletionTypes ==
  ASSUME MaxCrashes \in Nat, Deletion!TypeOK, [Deletion!Next]_(Deletion!vars)
  PROVE  Deletion!TypeOK'
<1> USE DEF Deletion!TypeOK, Deletion!Go, Deletion!End, Deletion!At, Deletion!Idle, Deletion!rows,
            Deletion!locks, Deletion!Convs, Deletion!Own, Deletion!Theirs, Deletion!Joining
<1>1. ASSUME NEW r \in Handlers, NEW do \in Deletion!Theirs \cup Deletion!Own, Deletion!Begin(r, do)
      PROVE  Deletion!TypeOK'
  BY <1>1 DEF Deletion!Begin, Deletion!BeginUnchecked
<1>2. ASSUME NEW r \in Handlers, Deletion!FindChat(r) PROVE Deletion!TypeOK'
  BY <1>2 DEF Deletion!FindChat
<1>2a. ASSUME NEW r \in Handlers, Deletion!FindMember(r) PROVE Deletion!TypeOK'
  BY <1>2a DEF Deletion!FindMember
<1>3. ASSUME NEW r \in Handlers, Deletion!LockLiveUsers(r) \/ Deletion!InsertChat(r) PROVE Deletion!TypeOK'
  BY <1>3 DEF Deletion!LockLiveUsers, Deletion!InsertChat
<1>4. ASSUME NEW r \in Handlers, Deletion!CommitChat(r) PROVE Deletion!TypeOK'
  BY <1>4 DEF Deletion!CommitChat
<1>5. ASSUME NEW r \in Handlers, Deletion!CreateGroup(r) \/ Deletion!AddMembers(r) PROVE Deletion!TypeOK'
  <2>1. group' \in BOOLEAN
    BY <1>5, Zenon DEF Deletion!CreateGroup, Deletion!AddMembers, Deletion!JoinGroup
  <2> QED
    BY <1>5, <2>1 DEF Deletion!CreateGroup, Deletion!AddMembers, Deletion!JoinGroup
<1>6. ASSUME NEW r \in Handlers, NEW c \in Deletion!Convs, Deletion!CheckMember(r, c)
      PROVE  Deletion!TypeOK'
  BY <1>6 DEF Deletion!CheckMember
<1>7. ASSUME NEW r \in Handlers, Deletion!InsertMessage(r) \/ Deletion!CommitMessage(r) \/ Deletion!Edit(r)
      PROVE  Deletion!TypeOK'
  BY <1>7 DEF Deletion!InsertMessage, Deletion!CommitMessage, Deletion!Edit
<1>8. ASSUME NEW r \in Handlers, Deletion!LockForDeletion(r) \/ Deletion!ListConversations(r)
      PROVE  Deletion!TypeOK'
  BY <1>8 DEF Deletion!LockForDeletion, Deletion!ListConversations
<1>9. ASSUME NEW r \in Handlers, Deletion!Erase(r) PROVE Deletion!TypeOK'
  BY <1>9 DEF Deletion!Erase
<1>10. ASSUME NEW r \in Handlers, Deletion!Crash(r) PROVE Deletion!TypeOK'
  BY <1>10 DEF Deletion!Crash
<1>11. CASE UNCHANGED Deletion!vars
  BY <1>11 DEF Deletion!vars
<1> QED
  BY <1>1, <1>2, <1>2a, <1>3, <1>4, <1>5, <1>6, <1>7, <1>8, <1>9, <1>10, <1>11 DEF Deletion!Next

LEMMA DeletionKeeps ==
  ASSUME MaxCrashes \in Nat, DeletionInv, [Deletion!Next]_(Deletion!vars)
  PROVE  DeletionInv'
<1>0. Deletion!TypeOK'
  BY DeletionTypes DEF DeletionInv
<1> USE <1>0 DEF DeletionInv, Deletion!TypeOK, RowLocked, NobodyJoins, ChatStands, AtWork,
            Deletion!Go, Deletion!End, Deletion!At, Deletion!Idle, Deletion!rows,
            Deletion!locks, Deletion!Convs, Deletion!Own, Deletion!Theirs, Deletion!Joining,
            Deletion!NoWayBackIn, Deletion!StaysErased
<1>1. ASSUME NEW r \in Handlers, NEW do \in Deletion!Theirs \cup Deletion!Own, Deletion!Begin(r, do)
      PROVE  DeletionInv'
  BY <1>1 DEF Deletion!Begin, Deletion!BeginUnchecked
<1>2. ASSUME NEW r \in Handlers, Deletion!FindChat(r) PROVE DeletionInv'
  BY <1>2 DEF Deletion!FindChat
<1>2a. ASSUME NEW r \in Handlers, Deletion!FindMember(r) PROVE DeletionInv'
  BY <1>2a DEF Deletion!FindMember
<1>3. ASSUME NEW r \in Handlers, Deletion!LockLiveUsers(r) PROVE DeletionInv'
  BY <1>3 DEF Deletion!LockLiveUsers
<1>3a. ASSUME NEW r \in Handlers, Deletion!InsertChat(r) PROVE DeletionInv'
  BY <1>3a DEF Deletion!InsertChat
<1>4. ASSUME NEW r \in Handlers, Deletion!CommitChat(r) PROVE DeletionInv'
  BY <1>4 DEF Deletion!CommitChat
<1>5. ASSUME NEW r \in Handlers, Deletion!CreateGroup(r) \/ Deletion!AddMembers(r) PROVE DeletionInv'
  BY <1>5 DEF Deletion!CreateGroup, Deletion!AddMembers, Deletion!JoinGroup
<1>6. ASSUME NEW r \in Handlers, NEW c \in Deletion!Convs, Deletion!CheckMember(r, c)
      PROVE  DeletionInv'
  <2>1. UNCHANGED <<deleted, profile, sharing, exclusive, chat, inserting, group, inside, texts, begun,
                    got>>
    BY <1>6 DEF Deletion!CheckMember
  <2>2. /\ ask[r].do = "send" /\ ask[r].at = "begun"
        /\ ask'[r].do = "send" /\ ask'[r].at \in {"checked", "done"}
        /\ \A q \in Handlers \ {r} : ask'[q] = ask[q]
    BY <1>6 DEF Deletion!CheckMember
  <2> QED
    BY <2>1, <2>2
<1>7. ASSUME NEW r \in Handlers, Deletion!InsertMessage(r) PROVE  DeletionInv'
  BY <1>7 DEF Deletion!InsertMessage
<1>7a. ASSUME NEW r \in Handlers, Deletion!CommitMessage(r) PROVE  DeletionInv'
  BY <1>7a DEF Deletion!CommitMessage
<1>7b. ASSUME NEW r \in Handlers, Deletion!Edit(r) PROVE  DeletionInv'
  BY <1>7b DEF Deletion!Edit
<1>8. ASSUME NEW r \in Handlers, Deletion!LockForDeletion(r) PROVE  DeletionInv'
  BY <1>8 DEF Deletion!LockForDeletion
<1>8a. ASSUME NEW r \in Handlers, Deletion!ListConversations(r) PROVE  DeletionInv'
  BY <1>8a DEF Deletion!ListConversations
<1>9. ASSUME NEW r \in Handlers, Deletion!Erase(r) PROVE DeletionInv'
  BY <1>9 DEF Deletion!Erase
<1>10. ASSUME NEW r \in Handlers, Deletion!Crash(r) PROVE DeletionInv'
  BY <1>10 DEF Deletion!Crash
<1>11. CASE UNCHANGED Deletion!vars
  BY <1>11 DEF Deletion!vars
<1> QED
  BY <1>1, <1>2, <1>2a, <1>3, <1>3a, <1>4, <1>5, <1>6, <1>7, <1>7a, <1>7b, <1>8, <1>8a, <1>9, <1>10,
     <1>11 DEF Deletion!Next

\* A deleted account is in no chat again (live-users.ts:17), a chat that was
\* answered stands, and nothing of the account is written after it was erased
\* (account.ts:57), whatever was under way when the deletion began.
THEOREM DeletionSound ==
  ASSUME MaxCrashes \in Nat
  PROVE  Deletion!Spec =>
           [](Deletion!NoWayBackIn /\ Deletion!ChatAsAnswered /\ Deletion!StaysErased)
<1>1. Deletion!Init => DeletionInv
  <2> SUFFICES ASSUME Deletion!Init PROVE DeletionInv
    OBVIOUS
  <2>1. Deletion!TypeOK
    <3>1. deleted \in BOOLEAN
      BY Zenon DEF Deletion!Init
    <3> QED
      BY <3>1 DEF Deletion!Init, Deletion!TypeOK, Deletion!Idle, Deletion!Convs
  <2> QED
    BY <2>1 DEF Deletion!Init, DeletionInv, Deletion!Idle, RowLocked, NobodyJoins,
       ChatStands, AtWork, Deletion!NoWayBackIn, Deletion!StaysErased, Deletion!Joining, Deletion!Own
<1>2. DeletionInv /\ [Deletion!Next]_(Deletion!vars) => DeletionInv'
  BY DeletionKeeps
<1>3. DeletionInv => Deletion!NoWayBackIn /\ Deletion!ChatAsAnswered /\ Deletion!StaysErased
  BY DEF DeletionInv, NobodyJoins, ChatStands, AtWork, Deletion!ChatAsAnswered
<1> QED
  BY <1>1, <1>2, <1>3, PTL DEF Deletion!Spec

(************************* Reports and restrictions *************************)


DeskAssumption == MaxFilings \in Nat /\ MaxTime \in Nat /\ Days \in Nat

Consoles == [do : Desk!Actions \cup {"none", "lift"}, at : {"idle", "asked", "checked", "follow"},
             report : Reports \cup {"none"}, until : 0..(MaxTime + Days)]
\* A verdict at work is about a report.
Aims(c) == c.do \in Desk!Actions /\ c.at # "idle" => c.report \in Reports

DeskTypes ==
  Desk!TypeOK /\ console \in [Moderators -> Consoles] /\ \A m \in Moderators : Aims(console[m])

\* An open report holds a filing of its own that has no verdict yet.
FilingsApart ==
  /\ \A i \in Reports :
       /\ report[i].filed <= filings
       /\ Desk!Open(i) => report[i].filed >= 1 /\ verdicts[report[i].filed] = 0
  /\ \A i, j \in Reports : report[i].filed = report[j].filed /\ Desk!Open(i) => i = j
  /\ \A n \in 1..MaxFilings : n > filings => verdicts[n] = 0
  /\ Desk!HandledOnce

\* Who is restricted has no sign-in under way but those known to get through.
NoneGetsIn ==
  /\ Desk!Restricted => \A s \in Logins : session[s] = "checked" => s \in excused
  /\ Desk!SessionsEnd

DeskInv == DeskTypes /\ FilingsApart /\ NoneGetsIn

LEMMA DeskKeepsTypes ==
  ASSUME DeskAssumption, DeskTypes, [Desk!Next]_(Desk!vars)
  PROVE  DeskTypes'
<1>0. ASSUME NEW m \in Moderators, NEW c \in Consoles, Aims(c), console' = [console EXCEPT ![m] = c]
      PROVE  /\ console' \in [Moderators -> Consoles] /\ \A n \in Moderators : Aims(console'[n])
             /\ \A n \in Moderators : console'[n].at \in {"idle", "asked", "checked", "follow"}
  BY <1>0 DEF DeskTypes, Consoles
<1>0a. Desk!Idle \in Consoles /\ Aims(Desk!Idle)
  BY DEF Consoles, Aims, Desk!Idle, Desk!Actions, DeskAssumption
<1> USE DEF DeskTypes, Desk!TypeOK, Desk!queue, Desk!signIns, Desk!Asked,
        Desk!Checked, Desk!Status, DeskAssumption
<1>1. ASSUME NEW i \in Reports, Desk!File(i) PROVE DeskTypes'
  BY <1>1 DEF Desk!File, Desk!Filed
<1>2. ASSUME NEW m \in Moderators, NEW i \in Reports, Desk!GetReport(m, i) PROVE DeskTypes'
  BY <1>2 DEF Desk!GetReport
<1>3. ASSUME NEW m \in Moderators, NEW i \in Reports, NEW do \in Desk!Actions, Desk!Resolve(m, i, do)
      PROVE  DeskTypes'
  <2> DEFINE c == [Desk!Idle EXCEPT !.do = do, !.at = "asked", !.report = i]
  <2>1. c \in Consoles
    BY <1>0a DEF Consoles
  <2>2. Aims(c)
    BY <1>0a DEF Aims, Consoles
  <2>3. console' = [console EXCEPT ![m] = c]
    BY <1>3 DEF Desk!Resolve, Desk!Ask
  <2> QED
    BY <1>0, <1>3, <2>1, <2>2, <2>3 DEF Desk!Resolve
<1>4. ASSUME NEW m \in Moderators, Desk!Lift(m) PROVE DeskTypes'
  <2> DEFINE c == [do |-> "lift", at |-> "asked", report |-> "none", until |-> 0]
  <2>1. c \in Consoles
    BY DEF Consoles
  <2>2. Aims(c) /\ console' = [console EXCEPT ![m] = c]
    BY <1>4 DEF Aims, Desk!Lift, Desk!Ask, Desk!Idle, Desk!Actions
  <2> QED
    BY <1>0, <1>4, <2>1, <2>2 DEF Desk!Lift
<1>5. ASSUME NEW m \in Moderators, Desk!Check(m) \/ Desk!CheckLift(m) \/ Desk!Conflict(m) PROVE DeskTypes'
  <2>1. PICK c : /\ console' = [console EXCEPT ![m] = c]
                 /\ \/ c = Desk!Idle
                    \/ c = [console[m] EXCEPT !.at = "checked"]
                    \/ \E n \in {now + Days, 0} : c = [console[m] EXCEPT !.at = "checked", !.until = n]
    BY <1>5 DEF Desk!Check, Desk!CheckLift, Desk!Conflict
  <2>2. console[m] \in Consoles /\ Aims(console[m]) /\ console[m].at # "idle"
    BY <1>5, <2>1 DEF Desk!Check, Desk!CheckLift, Desk!Conflict
  <2>3. now + Days \in 0..(MaxTime + Days) /\ 0 \in 0..(MaxTime + Days)
    OBVIOUS
  <2>4. c \in Consoles /\ Aims(c)
    <3>1. CASE c = Desk!Idle
      BY <1>0a, <3>1
    <3>2. CASE c = [console[m] EXCEPT !.at = "checked"]
      BY <2>2, <3>2 DEF Consoles, Aims
    <3>3. ASSUME NEW n \in {now + Days, 0}, c = [console[m] EXCEPT !.at = "checked", !.until = n]
          PROVE  c \in Consoles /\ Aims(c)
      <4>1. n \in 0..(MaxTime + Days)
        BY <2>3
      <4>2. c \in Consoles
        BY <2>2, <3>3, <4>1 DEF Consoles
      <4>3. c.do = console[m].do /\ c.report = console[m].report
        BY <2>2, <3>3 DEF Consoles
      <4> QED
        BY <2>2, <4>2, <4>3 DEF Aims
    <3> QED
      BY <2>1, <3>1, <3>2, <3>3
  <2> QED
    BY <1>0, <1>5, <2>1, <2>4 DEF Desk!Check, Desk!CheckLift, Desk!Conflict
<1>6. ASSUME NEW m \in Moderators, Desk!Apply(m) PROVE DeskTypes'
  <2>1. PICK c : /\ console' = [console EXCEPT ![m] = c]
                 /\ c = Desk!Idle \/ c = [console[m] EXCEPT !.at = "follow"]
    BY <1>6 DEF Desk!Apply, Desk!ApplyAgain
  <2>2. c \in Consoles /\ Aims(c)
    BY <1>0a, <1>6, <2>1 DEF Consoles, Aims, Desk!Apply
  <2>3. person' \in [until : 0..(MaxTime + Days), banned : BOOLEAN]
    BY <1>6 DEF Desk!Apply, Desk!ApplyAgain, Desk!Restrict, Consoles
  <2>4. console[m].report \in Reports
    BY <1>6 DEF Desk!Apply, Aims
  <2>5. /\ report' \in [Reports -> [status : Desk!Status, filed : 0..MaxFilings]]
        /\ verdicts' \in [1..MaxFilings -> Nat] /\ excused' \subseteq Logins
        /\ page' \in [Moderators -> [Reports -> Desk!Status]] /\ UNCHANGED <<now, filings, session>>
    <3>1. report' = [report EXCEPT ![console[m].report].status = "closed"]
      BY <1>6 DEF Desk!Apply, Desk!ApplyAgain
    <3>2. report' \in [Reports -> [status : Desk!Status, filed : 0..MaxFilings]]
      BY <2>4, <3>1
    <3>3. verdicts' = [verdicts EXCEPT ![report[console[m].report].filed] = @ + 1]
      BY <1>6 DEF Desk!Apply, Desk!ApplyAgain
    <3>4. verdicts' \in [1..MaxFilings -> Nat]
      <4> DEFINE n == report[console[m].report].filed
      <4>1. n \in 1..MaxFilings => verdicts[n] + 1 \in Nat
        OBVIOUS
      <4> HIDE DEF n
      <4> QED
        BY <3>3, <4>1 DEF n
    <3>5. page' = [page EXCEPT ![m][console[m].report] = "none"] /\ UNCHANGED <<now, filings, session>>
      BY <1>6 DEF Desk!Apply, Desk!ApplyAgain
    <3>6. page' \in [Moderators -> [Reports -> Desk!Status]]
      BY <2>4, <3>5
    <3>7. excused' \subseteq Logins
      BY <1>6 DEF Desk!Apply, Desk!ApplyAgain
    <3> QED
      BY <3>2, <3>4, <3>5, <3>6, <3>7
  <2> QED
    BY <1>0, <2>1, <2>2, <2>3, <2>5
<1>8. ASSUME NEW m \in Moderators, Desk!FollowUp(m) \/ Desk!FollowUpFails(m) PROVE DeskTypes'
  BY <1>0, <1>0a, <1>8 DEF Desk!FollowUp, Desk!FollowUpFails, Desk!Live
<1>9. ASSUME NEW m \in Moderators, Desk!DoLift(m) PROVE DeskTypes'
  <2>1. person' \in [until : 0..(MaxTime + Days), banned : BOOLEAN]
    BY <1>9 DEF Desk!DoLift
  <2> QED
    BY <1>0, <1>0a, <1>9, <2>1 DEF Desk!DoLift
<1>10. ASSUME NEW s \in Logins, Desk!SignIn(s) \/ Desk!Issue(s) PROVE DeskTypes'
  BY <1>10 DEF Desk!SignIn, Desk!SignInAnyway, Desk!Issue
<1>11. CASE Desk!Tick
  BY <1>11 DEF Desk!Tick
<1>12. CASE UNCHANGED Desk!vars
  BY <1>12 DEF Desk!vars
<1> HIDE DEF DeskTypes
<1> QED
  BY <1>1, <1>2, <1>3, <1>4, <1>5, <1>6, <1>8, <1>9, <1>10, <1>11, <1>12 DEF Desk!Next

LEMMA DeskKeepsFilings ==
  ASSUME DeskAssumption, DeskTypes, DeskTypes', FilingsApart, [Desk!Next]_(Desk!vars)
  PROVE  FilingsApart'
<1> USE DEF DeskTypes, Consoles, Aims, Desk!TypeOK, Desk!queue, Desk!signIns, DeskAssumption,
            FilingsApart, Desk!Open,
            Desk!HandledOnce
<1>1. ASSUME NEW i \in Reports, Desk!File(i) PROVE FilingsApart'
  BY <1>1 DEF Desk!File, Desk!Filed
<1>2. ASSUME NEW m \in Moderators, Desk!Apply(m) PROVE FilingsApart'
  BY <1>2 DEF Desk!Apply, Desk!ApplyAgain, Desk!Checked
<1>3. CASE UNCHANGED <<report, filings, verdicts>>
  BY <1>3
<1> QED
  BY <1>1, <1>2, <1>3 DEF Desk!Next, Desk!vars, Desk!GetReport, Desk!Resolve, Desk!Lift, Desk!Check,
     Desk!Conflict, Desk!FollowUp, Desk!FollowUpFails, Desk!CheckLift, Desk!DoLift, Desk!SignIn,
     Desk!SignInAnyway, Desk!Issue, Desk!Tick

LEMMA DeskKeepsOut ==
  ASSUME DeskAssumption, DeskTypes, DeskTypes', NoneGetsIn, [Desk!Next]_(Desk!vars)
  PROVE  NoneGetsIn'
<1> USE DEF DeskTypes, Desk!TypeOK, Desk!queue, Desk!signIns, DeskAssumption, NoneGetsIn,
            Desk!Restricted, Desk!SessionsEnd, Desk!Live
<1>1. ASSUME NEW m \in Moderators, Desk!Apply(m) PROVE NoneGetsIn'
  BY <1>1 DEF Desk!Apply, Desk!ApplyAgain, Desk!Checked, Desk!Restrict, Desk!Actions
<1>2. ASSUME NEW m \in Moderators, Desk!FollowUp(m) PROVE NoneGetsIn'
  BY <1>2 DEF Desk!FollowUp, Desk!Idle
<1>3. ASSUME NEW m \in Moderators, Desk!FollowUpFails(m) PROVE NoneGetsIn'
  BY <1>3 DEF Desk!FollowUpFails, Desk!Idle
<1>4. ASSUME NEW m \in Moderators, Desk!DoLift(m) PROVE NoneGetsIn'
  BY <1>4 DEF Desk!DoLift
<1>5. ASSUME NEW s \in Logins, Desk!SignIn(s) PROVE NoneGetsIn'
  BY <1>5 DEF Desk!SignIn, Desk!SignInAnyway
<1>6. ASSUME NEW s \in Logins, Desk!Issue(s) PROVE NoneGetsIn'
  BY <1>6 DEF Desk!Issue
<1>7. CASE Desk!Tick
  BY <1>7 DEF Desk!Tick
<1>8. ASSUME UNCHANGED <<now, person, session, excused>>,
             \A m \in Moderators : (console[m].at = "follow") <=> (console'[m].at = "follow")
      PROVE  NoneGetsIn'
  BY <1>8
<1>9. ASSUME NEW m \in Moderators,
             \/ \E i \in Reports : \/ Desk!GetReport(m, i)
                                   \/ \E do \in Desk!Actions : Desk!Resolve(m, i, do)
             \/ Desk!Lift(m) \/ Desk!Check(m) \/ Desk!Conflict(m) \/ Desk!CheckLift(m)
      PROVE  NoneGetsIn'
  <2>1. UNCHANGED <<now, person, session, excused>>
    BY <1>9, Zenon DEF Desk!GetReport, Desk!Resolve, Desk!Lift, Desk!Check, Desk!Conflict, Desk!CheckLift
  <2>2. \A n \in Moderators : (console[n].at = "follow") <=> (console'[n].at = "follow")
    <3>1. ASSUME NEW i \in Reports, Desk!GetReport(m, i)
          PROVE  \A n \in Moderators : (console[n].at = "follow") <=> (console'[n].at = "follow")
      BY <3>1 DEF Desk!GetReport
    <3>1a. ASSUME NEW i \in Reports, NEW do \in Desk!Actions, Desk!Resolve(m, i, do)
          PROVE  \A n \in Moderators : (console[n].at = "follow") <=> (console'[n].at = "follow")
      <4>1. console[m] = Desk!Idle
            /\ console' = [console EXCEPT ![m] = [Desk!Idle EXCEPT !.do = do, !.at = "asked", !.report = i]]
        BY <3>1a DEF Desk!Resolve, Desk!Ask
      <4>2. Desk!Idle.at = "idle"
            /\ [Desk!Idle EXCEPT !.do = do, !.at = "asked", !.report = i].at = "asked"
        BY DEF Desk!Idle
      <4> QED
        BY <4>1, <4>2
    <3>2. CASE Desk!Lift(m)
      BY <3>2 DEF Desk!Lift, Desk!Ask, Desk!Idle
    <3>3. CASE Desk!Check(m)
      BY <3>3 DEF Desk!Check, Desk!Asked, Desk!Idle
    <3>4. CASE Desk!Conflict(m)
      BY <3>4 DEF Desk!Conflict, Desk!Checked, Desk!Idle
    <3>5. CASE Desk!CheckLift(m)
      <4>1. /\ console[m].at = "asked"
            /\ \/ console' = [console EXCEPT ![m].at = "checked"]
               \/ console' = [console EXCEPT ![m] = Desk!Idle]
        BY <3>5 DEF Desk!CheckLift, Desk!Asked
      <4>2. Desk!Idle.at = "idle"
        BY DEF Desk!Idle
      <4>3. CASE console' = [console EXCEPT ![m].at = "checked"]
        BY <4>1, <4>3
      <4>4. CASE console' = [console EXCEPT ![m] = Desk!Idle]
        BY <4>1, <4>2, <4>4
      <4> QED
        BY <4>1, <4>3, <4>4
    <3> QED
      BY <1>9, <3>1, <3>1a, <3>2, <3>3, <3>4, <3>5
  <2> QED
    BY <1>8, <2>1, <2>2
<1>10. CASE UNCHANGED Desk!vars
  BY <1>8, <1>10 DEF Desk!vars
<1>11. ASSUME NEW i \in Reports, Desk!File(i) PROVE NoneGetsIn'
  BY <1>8, <1>11 DEF Desk!File
<1> QED
  BY <1>1, <1>2, <1>3, <1>4, <1>5, <1>6, <1>7, <1>9, <1>10, <1>11 DEF Desk!Next

\* A report filed gets one verdict however many moderators press at once
\* (moderation.service.ts:129), and who is restricted keeps no session (:201).
THEOREM DeskSound ==
  ASSUME DeskAssumption
  PROVE  Desk!Spec => [](Desk!HandledOnce /\ Desk!SessionsEnd)
<1>1. Desk!Init => DeskInv
  <2> SUFFICES ASSUME Desk!Init PROVE DeskInv
    OBVIOUS
  <2>1. DeskTypes
    <3>1. person \in [until : 0..(MaxTime + Days), banned : BOOLEAN]
      BY DEF DeskAssumption, Desk!Init
    <3>2. Desk!Idle \in Consoles /\ Aims(Desk!Idle) /\ Desk!Idle.at = "idle"
      BY DEF DeskAssumption, Consoles, Aims, Desk!Idle, Desk!Actions
    <3> QED
      BY <3>1, <3>2 DEF DeskAssumption, Desk!Init, DeskTypes, Desk!TypeOK, Desk!Status
  <2>2. FilingsApart
    BY DEF DeskAssumption, Desk!Init, FilingsApart, Desk!Open, Desk!HandledOnce
  <2>3. NoneGetsIn
    BY DEF DeskAssumption, Desk!Init, NoneGetsIn, Desk!Restricted, Desk!SessionsEnd, Desk!Live
  <2> QED
    BY <2>1, <2>2, <2>3 DEF DeskInv
<1>2. DeskInv /\ [Desk!Next]_(Desk!vars) => DeskInv'
  BY DeskKeepsTypes, DeskKeepsFilings, DeskKeepsOut DEF DeskInv
<1>3. DeskInv => Desk!HandledOnce /\ Desk!SessionsEnd
  BY DEF DeskInv, FilingsApart, NoneGetsIn
<1> QED
  BY <1>1, <1>2, <1>3, PTL DEF Desk!Spec

(****************************** Who is online *******************************)


OnlineAssumption == {"sweep", "setting"} \cap Conns = {} /\ MaxSettings \in Nat

\* The entries are those of the sockets that came and did not go.
Entered ==
  /\ \A c \in Conns : /\ stream[c] \in {"open", "closed"} => ready[c] # "none"
                      /\ stream[c] \in {"open", "closed"} /\ ready[c] # "pending" => c \in entries
                      /\ ready[c] \in {"pending", "telling"} => stream[c] \in {"open", "closed"}
                      /\ c \in entries => stream[c] \in {"open", "closed", "dead"}
  /\ entries # {} => online

Announcing(j) == job[j].at \in {"read", "publish", "recheck"}
Setting == job["setting"]

\* Who says offline looks again; the setting's word is not online while hidden.
Announced ==
  /\ \A j \in Status!Jobs : /\ job[j].at = "idle" => job[j] = Status!Idle
                            /\ j # "setting" /\ Announcing(j) => job[j].say \/ job[j].again
  /\ Setting.at = "publish" /\ Setting.say => visible

\* The setting's announcement is alone, and the others saw what is so.
Apart ==
  /\ \A j \in Status!Jobs \ {"setting"} : /\ job[j].at = "publish" => job[j].sees = visible
                                          /\ Announcing("setting") => ~Announcing(j)
  /\ Setting.at = "publish" /\ visible /\ entries # {} => Setting.say

\* A word that is not the current state has another one on its way.
Told ==
  /\ visible /\ entries # {} => told \/ \E j \in Status!Jobs : Announcing(j)
  /\ ~visible => ~told \/ Setting.at \in {"read", "publish"}

Followed == ~adrift => Apart /\ Told

OnlineInv == Status!TypeOK /\ Entered /\ Announced /\ Followed

\* What a job is, and the two ways one starts.
Announcement ==
  [at : {"idle", "read", "publish", "recheck"}, say : BOOLEAN, sees : BOOLEAN, again : BOOLEAN]
On == [Status!Idle EXCEPT !.at = "read", !.say = TRUE, !.again = FALSE]
Off == [Status!Idle EXCEPT !.at = "read", !.say = FALSE, !.again = TRUE]

LEMMA StartIs ==
  ASSUME NEW j \in Status!Jobs
  PROVE  /\ Status!Start(j, TRUE) => job' = [job EXCEPT ![j] = On]
         /\ Status!Start(j, FALSE) => job' = [job EXCEPT ![j] = Off]
         /\ Status!Idle \in Announcement /\ On \in Announcement /\ Off \in Announcement
         /\ On.at = "read" /\ On.say /\ ~On.again /\ Off.at = "read" /\ ~Off.say /\ Off.again
         /\ Status!Idle.at = "idle"
<1>1. [Status!Idle EXCEPT !.at = "read", !.say = TRUE, !.again = ~TRUE] = On
  <2>1. ~TRUE = FALSE
    OBVIOUS
  <2> QED
    BY <2>1, Zenon DEF On
<1>2. [Status!Idle EXCEPT !.at = "read", !.say = FALSE, !.again = ~FALSE] = Off
  <2>1. ~FALSE = TRUE
    OBVIOUS
  <2> QED
    BY <2>1, Zenon DEF Off
<1>3. Status!Idle \in Announcement /\ On \in Announcement /\ Off \in Announcement
  BY DEF Status!Idle, On, Off, Announcement
<1>4. /\ On.at = "read" /\ On.say /\ ~On.again /\ Off.at = "read" /\ ~Off.say /\ Off.again
      /\ Status!Idle.at = "idle"
  BY DEF Status!Idle, On, Off
<1> QED
  BY <1>1, <1>2, <1>3, <1>4, Zenon DEF Status!Start

\* What reading, publishing and looking again make of a job.
LEMMA JobSteps ==
  ASSUME Status!TypeOK, NEW j \in Status!Jobs
  PROVE  /\ Status!Read(j) =>
              /\ job' = [job EXCEPT ![j] = job'[j]]
              /\ job'[j] \in Announcement /\ job'[j].at = "publish" /\ job'[j].sees = visible
              /\ job'[j].again = job[j].again
              /\ job'[j].say = IF j = "setting" THEN visible /\ entries # {} ELSE job[j].say
         /\ Status!Publish(j) =>
              /\ job' = [job EXCEPT ![j] = job'[j]]
              /\ IF job[j].again
                 THEN /\ job'[j] \in Announcement /\ job'[j].at = "recheck"
                      /\ job'[j].say = job[j].say /\ job'[j].again = job[j].again
                 ELSE job'[j] = Status!Idle
<1>0. job \in [Status!Jobs -> Announcement]
  BY DEF Status!TypeOK, Announcement
<1>1. ASSUME Status!Read(j)
      PROVE  /\ job' = [job EXCEPT ![j] = job'[j]]
             /\ job'[j] \in Announcement /\ job'[j].at = "publish" /\ job'[j].sees = visible
             /\ job'[j].again = job[j].again
             /\ job'[j].say = IF j = "setting" THEN visible /\ entries # {} ELSE job[j].say
  <2> DEFINE w == IF j = "setting" THEN visible /\ entries # {} ELSE job[j].say
             r == [job[j] EXCEPT !.at = "publish", !.sees = visible, !.say = w]
  <2>1. job' = [job EXCEPT ![j] = r]
    BY <1>0, <1>1 DEF Status!Read
  <2>2. job[j] \in Announcement /\ visible \in BOOLEAN
    BY <1>0 DEF Status!TypeOK
  <2>3. job[j].say \in BOOLEAN
    BY <2>2 DEF Announcement
  <2>3a. w \in BOOLEAN
    BY <2>2, <2>3, Zenon
  <2> HIDE DEF w
  <2>4. r \in Announcement /\ r.at = "publish" /\ r.sees = visible /\ r.again = job[j].again /\ r.say = w
    BY <2>2, <2>3a DEF Announcement
  <2>5. job'[j] = r
    BY <2>1, <1>0
  <2> QED
    BY <2>1, <2>4, <2>5 DEF w
<1>2. ASSUME Status!Publish(j)
      PROVE  /\ job' = [job EXCEPT ![j] = job'[j]]
             /\ IF job[j].again
                THEN /\ job'[j] \in Announcement /\ job'[j].at = "recheck"
                     /\ job'[j].say = job[j].say /\ job'[j].again = job[j].again
                ELSE job'[j] = Status!Idle
  <2> DEFINE r == [job[j] EXCEPT !.at = "recheck"]
  <2>1. r \in Announcement /\ r.at = "recheck" /\ r.say = job[j].say /\ r.again = job[j].again
    BY <1>0 DEF Announcement
  <2>2. CASE job[j].again
    <3>1. job' = [job EXCEPT ![j] = r]
      BY <1>0, <1>2, <2>2 DEF Status!Publish
    <3>2. job'[j] = r
      BY <3>1, <1>0
    <3> QED
      BY <3>1, <3>2, <2>1, <2>2
  <2>3. CASE ~job[j].again
    <3>1. job' = [job EXCEPT ![j] = Status!Idle]
      BY <1>2, <2>3 DEF Status!Publish
    <3>2. job'[j] = Status!Idle
      BY <3>1, <1>0
    <3> QED
      BY <3>1, <3>2, <2>3
  <2> QED
    BY <2>2, <2>3
<1> QED
  BY <1>1, <1>2

LEMMA OnlineTypes ==
  ASSUME OnlineAssumption, Status!TypeOK, [Status!Next]_(Status!vars)
  PROVE  Status!TypeOK'
<1>0. /\ job \in [Status!Jobs -> Announcement] /\ Status!Idle \in Announcement
      /\ On \in Announcement /\ Off \in Announcement
      /\ Conns \subseteq Status!Jobs /\ {"sweep", "setting"} \subseteq Status!Jobs
  BY StartIs DEF Status!TypeOK, Announcement, Status!Jobs
<1>0a. adrift' \in BOOLEAN
  <2>1. CASE UNCHANGED adrift
    BY <2>1, Zenon DEF Status!TypeOK
  <2>2. CASE Status!Meets
    BY <2>2, Zenon DEF Status!Meets
  <2>3. CASE adrift' = (adrift \/ \E j \in Status!Jobs : Status!Busy(j))
    BY <2>3, Zenon
  <2>4. ASSUME NEW n \in Hosts, Status!Crash(n) PROVE adrift' \in BOOLEAN
    BY <2>4, Zenon DEF Status!Crash
  <2> QED
    BY <2>1, <2>2, <2>3, <2>4, Zenon
    DEF Status!Next, Status!vars, Status!Connect, Status!Register, Status!Close, Status!Lapse,
        Status!Connected, Status!Release, Status!ReleaseAtOnce, Status!Read, Status!Publish,
        Status!Recheck, Status!ChangeSetting, Status!Sweep, Status!SweepBlindly
<1>0b. online' \in BOOLEAN /\ visible' \in BOOLEAN
  BY Zenon
  DEF Status!TypeOK, Status!Next, Status!vars, Status!keys, Status!Connect, Status!Register, Status!Close,
      Status!Lapse, Status!Connected, Status!Release, Status!ReleaseAtOnce, Status!Read, Status!Publish,
      Status!Recheck, Status!ChangeSetting, Status!Sweep, Status!SweepBlindly, Status!Crash
<1>0c. told' \in BOOLEAN
  <2>1. CASE UNCHANGED told
    BY <2>1, Zenon DEF Status!TypeOK
  <2>2. ASSUME NEW j \in Status!Jobs, Status!Publish(j) PROVE told' \in BOOLEAN
    <3>1. job[j].say \in BOOLEAN
      BY <1>0 DEF Announcement
    <3> QED
      BY <3>1, <2>2, Zenon DEF Status!Publish, Status!TypeOK
  <2> QED
    BY <2>1, <2>2, Zenon
    DEF Status!Next, Status!vars, Status!Connect, Status!Register, Status!Close, Status!Lapse,
        Status!Connected, Status!Release, Status!ReleaseAtOnce, Status!Read, Status!Recheck,
        Status!ChangeSetting, Status!Sweep, Status!SweepBlindly, Status!Crash
<1>0d. job' \in [Status!Jobs -> Announcement]
  <2>1. CASE UNCHANGED job
    BY <1>0, <2>1
  <2>2. ASSUME NEW j \in Status!Jobs, Status!Start(j, TRUE) \/ Status!Start(j, FALSE)
        PROVE  job' \in [Status!Jobs -> Announcement]
    BY <1>0, <2>2, StartIs
  <2>3. ASSUME NEW j \in Status!Jobs, Status!Read(j) PROVE job' \in [Status!Jobs -> Announcement]
    BY <1>0, <2>3, JobSteps
  <2>4. ASSUME NEW j \in Status!Jobs, Status!Publish(j) PROVE job' \in [Status!Jobs -> Announcement]
    BY <1>0, <2>4, JobSteps
  <2>5. ASSUME NEW j \in Status!Jobs, Status!Recheck(j) PROVE job' \in [Status!Jobs -> Announcement]
    BY <1>0, <2>2, <2>5 DEF Status!Recheck
  <2>6. ASSUME NEW n \in Hosts, Status!Crash(n) PROVE job' \in [Status!Jobs -> Announcement]
    BY <1>0, <2>6 DEF Status!Crash
  <2>7. ASSUME NEW c \in Conns, Status!Connected(c) \/ Status!Release(c)
        PROVE  job' \in [Status!Jobs -> Announcement]
    <3>1. c \in Status!Jobs
      BY <1>0
    <3> QED
      BY <3>1, <2>1, <2>2, <2>7, Zenon DEF Status!Connected, Status!Release, Status!ReleaseAtOnce
  <2> QED
    BY <1>0, <2>1, <2>2, <2>3, <2>4, <2>5, <2>6, <2>7, Zenon
    DEF Status!Next, Status!vars, Status!Connect, Status!Register, Status!Close, Status!Lapse,
        Status!ChangeSetting, Status!Sweep, Status!SweepBlindly
<1>0e. /\ stream' \in [Conns -> {"none", "loading", "open", "closed", "released", "dead"}]
       /\ ready' \in [Conns -> {"none", "pending", "telling", "done"}]
  BY DEF Status!TypeOK, Status!Next, Status!vars, Status!Done, Status!Connect, Status!Register, Status!Close,
      Status!Lapse, Status!Connected, Status!Release, Status!ReleaseAtOnce, Status!Read, Status!Publish,
      Status!Recheck, Status!ChangeSetting, Status!Sweep, Status!SweepBlindly, Status!Crash
<1>0f. entries' \subseteq Conns /\ up' \subseteq Hosts /\ settings' \in 0..MaxSettings
  <2>1. entries' \subseteq Conns
    BY DEF Status!TypeOK, Status!Next, Status!vars, Status!keys, Status!Connect, Status!Register,
        Status!Close, Status!Lapse, Status!Connected, Status!Release, Status!ReleaseAtOnce, Status!Read,
        Status!Publish, Status!Recheck, Status!ChangeSetting, Status!Sweep, Status!SweepBlindly,
        Status!Crash
  <2>2. up' \subseteq up
    BY DEF Status!Next, Status!vars, Status!Connect, Status!Register,
        Status!Close, Status!Lapse, Status!Connected, Status!Release, Status!ReleaseAtOnce, Status!Read,
        Status!Publish, Status!Recheck, Status!ChangeSetting, Status!Sweep, Status!SweepBlindly,
        Status!Crash
  <2>3. \/ settings' = settings
        \/ settings < MaxSettings /\ settings' = settings + 1
    BY DEF Status!Next, Status!vars, Status!Connect, Status!Register,
        Status!Close, Status!Lapse, Status!Connected, Status!Release, Status!ReleaseAtOnce, Status!Read,
        Status!Publish, Status!Recheck, Status!ChangeSetting, Status!Sweep, Status!SweepBlindly,
        Status!Crash
  <2> QED
    BY <2>1, <2>2, <2>3 DEF Status!TypeOK, OnlineAssumption
<1> QED
  BY <1>0a, <1>0b, <1>0c, <1>0d, <1>0e, <1>0f DEF Status!TypeOK, Announcement

LEMMA OnlineEntered ==
  ASSUME OnlineAssumption, Status!TypeOK, Status!TypeOK', Entered, [Status!Next]_(Status!vars)
  PROVE  Entered'
<1> USE DEF Status!TypeOK, Status!keys, Status!Jobs, Status!Idle, Entered, OnlineAssumption
<1>1. ASSUME NEW c \in Conns, Status!Connect(c) \/ Status!Register(c) PROVE  Entered'
  BY <1>1 DEF Status!Connect, Status!Register
<1>1a. ASSUME NEW c \in Conns, Status!Close(c) \/ Status!Lapse(c) PROVE  Entered'
  BY <1>1a DEF Status!Close, Status!Lapse
<1>2. ASSUME NEW c \in Conns, Status!Connected(c) PROVE Entered'
  <2>1. online'
    BY <1>2, Zenon DEF Status!Connected
  <2>2. /\ entries' = entries \cup {c} /\ ready[c] = "pending" /\ UNCHANGED stream
        /\ \/ ready' = [ready EXCEPT ![c] = "telling"]
           \/ ready' = [ready EXCEPT ![c] = "done"]
    BY <1>2, Zenon DEF Status!Connected
  <2> QED
    BY <2>1, <2>2
<1>3. ASSUME NEW c \in Conns, Status!Release(c) PROVE Entered'
  BY <1>3 DEF Status!Release, Status!ReleaseAtOnce
<1>5. ASSUME NEW j \in Status!Jobs, Status!Publish(j) PROVE Entered'
  BY <1>5 DEF Status!Publish, Status!Done
<1>8. ASSUME NEW n \in Hosts, Status!Crash(n) PROVE Entered'
  BY <1>8 DEF Status!Crash
<1>9. CASE Status!Sweep
  BY <1>9 DEF Status!Sweep, Status!SweepBlindly
<1>10. CASE UNCHANGED <<stream, ready, entries, online>>
  BY <1>10
<1> QED
  BY <1>1, <1>1a, <1>2, <1>3, <1>5, <1>8, <1>9, <1>10
     DEF Status!Next, Status!vars, Status!Read, Status!Recheck, Status!ChangeSetting


LEMMA OnlineAnnounced ==
  ASSUME OnlineAssumption, Status!TypeOK, Announced, [Status!Next]_(Status!vars)
  PROVE  Announced'
<1> USE DEF OnlineAssumption, Announced, Announcing, Setting
<1>0. /\ job \in [Status!Jobs -> Announcement] /\ Conns \subseteq Status!Jobs \ {"sweep", "setting"}
      /\ {"sweep", "setting"} \subseteq Status!Jobs
  BY StartIs DEF Status!TypeOK, Announcement, Status!Jobs
<1>1. CASE UNCHANGED <<job, visible>>
  BY <1>1
<1>2. ASSUME NEW j \in Status!Jobs, UNCHANGED visible \/ j = "setting",
             Status!Start(j, TRUE) \/ Status!Start(j, FALSE)
      PROVE  Announced'
  <2>1. PICK r \in {On, Off} : job' = [job EXCEPT ![j] = r]
    BY <1>2, StartIs
  <2>2. r.at = "read" /\ (r.say \/ r.again)
    BY <2>1, StartIs
  <2> QED
    BY <1>0, <1>2, <2>1, <2>2
<1>3. ASSUME NEW j \in Status!Jobs, Status!Read(j) PROVE Announced'
  <2>1. /\ job' = [job EXCEPT ![j] = job'[j]]
        /\ job'[j].at = "publish" /\ job'[j].again = job[j].again
        /\ job'[j].say = IF j = "setting" THEN visible /\ entries # {} ELSE job[j].say
    BY <1>3, JobSteps
  <2>2. job[j].at = "read" /\ UNCHANGED visible
    BY <1>3 DEF Status!Read
  <2> QED
    BY <1>0, <2>1, <2>2
<1>4. ASSUME NEW j \in Status!Jobs, Status!Publish(j) PROVE Announced'
  <2>1. /\ job' = [job EXCEPT ![j] = job'[j]]
        /\ \/ /\ job'[j].at = "recheck" /\ job'[j].say = job[j].say /\ job'[j].again = job[j].again
           \/ job'[j] = Status!Idle
    BY <1>4, JobSteps
  <2>2. job[j].at = "publish" /\ UNCHANGED visible
    BY <1>4 DEF Status!Publish
  <2> QED
    BY <1>0, <2>1, <2>2, StartIs
<1>5. ASSUME NEW j \in Status!Jobs, Status!Recheck(j) PROVE Announced'
  <2>1. CASE Status!Start(j, TRUE)
    BY <1>2, <1>5, <2>1 DEF Status!Recheck
  <2>2. CASE job' = [job EXCEPT ![j] = Status!Idle] /\ UNCHANGED visible
    BY <1>0, <2>2, StartIs
  <2> QED
    BY <1>5, <2>1, <2>2 DEF Status!Recheck
<1>6. ASSUME NEW c \in Conns, Status!Connected(c) PROVE Announced'
  <2>1. c \in Status!Jobs /\ UNCHANGED visible
    BY <1>0, <1>6 DEF Status!Connected
  <2>2. UNCHANGED job \/ Status!Start(c, TRUE)
    BY <1>6, Zenon DEF Status!Connected
  <2> QED
    BY <1>1, <1>2, <2>1, <2>2
<1>7. ASSUME NEW c \in Conns, Status!Release(c) PROVE Announced'
  <2>1. c \in Status!Jobs /\ UNCHANGED visible
    BY <1>0, <1>7 DEF Status!Release, Status!ReleaseAtOnce
  <2>2. UNCHANGED job \/ Status!Start(c, FALSE)
    BY <1>7, Zenon DEF Status!Release, Status!ReleaseAtOnce
  <2> QED
    BY <1>1, <1>2, <2>1, <2>2
<1>8. CASE Status!Sweep
  BY <1>0, <1>2, <1>8 DEF Status!Sweep, Status!SweepBlindly
<1>9. CASE Status!ChangeSetting
  BY <1>0, <1>2, <1>9 DEF Status!ChangeSetting
<1>10. ASSUME NEW n \in Hosts, Status!Crash(n) PROVE Announced'
  BY <1>0, <1>10, StartIs DEF Status!Crash
<1> QED
  BY <1>1, <1>3, <1>4, <1>5, <1>6, <1>7, <1>8, <1>9, <1>10, Zenon
  DEF Status!Next, Status!vars, Status!Connect, Status!Register, Status!Close, Status!Lapse

LEMMA OnlineFollowed ==
  ASSUME OnlineAssumption, Status!TypeOK, Announced, Followed, [Status!Next]_(Status!vars)
  PROVE  Followed'
<1> SUFFICES ASSUME ~adrift' PROVE Apart' /\ Told'
  BY DEF Followed
<1> USE DEF OnlineAssumption, Announced, Announcing, Setting, Apart, Told
<1>0. /\ job \in [Status!Jobs -> Announcement] /\ Conns \subseteq Status!Jobs \ {"sweep", "setting"}
      /\ {"sweep", "setting"} \subseteq Status!Jobs
  BY StartIs DEF Status!TypeOK, Announcement, Status!Jobs
<1>0a. ~adrift
  BY Zenon
  DEF Status!Next, Status!vars, Status!Connect, Status!Register, Status!Close, Status!Lapse,
      Status!Connected, Status!Release, Status!ReleaseAtOnce, Status!Read, Status!Publish,
      Status!Recheck, Status!ChangeSetting, Status!Sweep, Status!SweepBlindly, Status!Crash, Status!Meets
<1>0b. Apart /\ Told
  BY <1>0a DEF Followed
<1>1. CASE UNCHANGED <<job, visible, told>> /\ (entries' # {} => entries # {})
  BY <1>0b, <1>1
<1>2. ASSUME NEW j \in Status!Jobs \ {"setting"}, Status!Meets, UNCHANGED <<visible, told>>,
             Status!Start(j, TRUE) \/ Status!Start(j, FALSE)
      PROVE  Apart' /\ Told'
  <2>1. PICK r \in {On, Off} : job' = [job EXCEPT ![j] = r]
    BY <1>2, StartIs
  <2>2. r.at = "read"
    BY <2>1, StartIs
  <2>3. job["setting"] = Status!Idle
    BY <1>2, Zenon DEF Status!Meets, Status!Busy
  <2> QED
    BY <1>0, <1>0b, <1>2, <2>1, <2>2, <2>3, StartIs
<1>3. ASSUME NEW j \in Status!Jobs, Status!Read(j) PROVE Apart' /\ Told'
  <2>1. /\ job' = [job EXCEPT ![j] = job'[j]]
        /\ job'[j].at = "publish" /\ job'[j].sees = visible
        /\ job'[j].say = IF j = "setting" THEN visible /\ entries # {} ELSE job[j].say
    BY <1>3, JobSteps
  <2>2. job[j].at = "read" /\ UNCHANGED <<visible, entries, told>>
    BY <1>3 DEF Status!Read, Status!keys
  <2> QED
    BY <1>0, <1>0b, <2>1, <2>2
<1>4. ASSUME NEW j \in Status!Jobs, Status!Publish(j) PROVE Apart' /\ Told'
  <2>1. /\ job' = [job EXCEPT ![j] = job'[j]]
        /\ IF job[j].again THEN job'[j].at = "recheck" /\ job'[j].say = job[j].say
                           ELSE job'[j] = Status!Idle
    BY <1>4, JobSteps
  <2>2. /\ job[j].at = "publish" /\ UNCHANGED <<visible, entries>>
        /\ told' = IF job[j].sees \/ j = "setting" THEN job[j].say ELSE told
    BY <1>4 DEF Status!Publish, Status!keys
  <2>3. job'[j].at \in {"recheck", "idle"}
    BY <2>1, StartIs
  <2>4. Apart'
    BY <1>0, <1>0b, <2>1, <2>2, <2>3
  <2>5. CASE visible /\ entries # {}
    <3>1. job[j].sees \/ j = "setting"
      BY <1>0b, <2>2, <2>5
    <3>2. CASE job[j].say
      <4>1. told'
        BY <2>2, <3>1, <3>2, Zenon
      <4> QED
        BY <2>2, <2>4, <2>5, <4>1
    <3>3. CASE ~job[j].say
      BY <1>0, <1>0b, <2>1, <2>2, <2>5, <3>3
    <3> QED
      BY <2>4, <3>2, <3>3
  <2>6. CASE ~visible
    <3>1. CASE j = "setting"
      <4>1. ~job[j].say
        BY <2>2, <2>6, <3>1
      <4>2. ~told'
        BY <2>2, <3>1, <4>1, Zenon
      <4> QED
        BY <2>2, <2>4, <2>6, <4>2
    <3>2. CASE j # "setting"
      <4>1. ~job[j].sees /\ job["setting"].at \notin {"read", "publish"} /\ ~told
        BY <1>0, <1>0b, <2>2, <2>6, <3>2
      <4>2. ~told'
        BY <2>2, <3>2, <4>1, Zenon
      <4> QED
        BY <2>2, <2>4, <2>6, <4>2
    <3> QED
      BY <3>1, <3>2
  <2> QED
    BY <2>2, <2>4, <2>5, <2>6
<1>5. ASSUME NEW j \in Status!Jobs, Status!Recheck(j) PROVE Apart' /\ Told'
  <2>0. job[j].at = "recheck" /\ UNCHANGED <<visible, entries, told>>
    BY <1>5 DEF Status!Recheck, Status!keys
  <2>1. CASE entries # {}
    <3>1. job' = [job EXCEPT ![j] = On]
      BY <1>5, <2>1, StartIs DEF Status!Recheck
    <3>2. job'[j].at = "read" /\ \A k \in Status!Jobs \ {j} : job'[k] = job[k]
      BY <1>0, <3>1, StartIs
    <3>3. Apart'
      BY <1>0, <1>0b, <2>0, <3>2
    <3>4. Told'
      BY <1>0, <1>0b, <2>0, <3>2
    <3> QED
      BY <3>3, <3>4
  <2>2. CASE entries = {}
    <3>1. job' = [job EXCEPT ![j] = Status!Idle]
      BY <1>5, <2>2 DEF Status!Recheck
    <3> QED
      BY <1>0, <1>0b, <2>0, <2>2, <3>1, StartIs
  <2> QED
    BY <2>1, <2>2
<1>6. ASSUME NEW c \in Conns, Status!Connected(c) PROVE Apart' /\ Told'
  <2>1. c \in Status!Jobs \ {"setting"} /\ UNCHANGED <<visible, told>>
    BY <1>0, <1>6 DEF Status!Connected
  <2>2. \/ UNCHANGED job /\ entries # {}
        \/ Status!Start(c, TRUE) /\ Status!Meets
    BY <1>6, Zenon DEF Status!Connected
  <2> QED
    BY <1>1, <1>2, <2>1, <2>2
<1>7. ASSUME NEW c \in Conns, Status!Release(c) PROVE Apart' /\ Told'
  <2>1. c \in Status!Jobs \ {"setting"} /\ UNCHANGED <<visible, told>> /\ (entries' # {} => entries # {})
    BY <1>0, <1>7 DEF Status!Release, Status!ReleaseAtOnce
  <2>2. \/ UNCHANGED job
        \/ Status!Start(c, FALSE) /\ Status!Meets
    BY <1>7, Zenon DEF Status!Release, Status!ReleaseAtOnce
  <2> QED
    BY <1>1, <1>2, <2>1, <2>2
<1>8. CASE Status!Sweep
  BY <1>0, <1>2, <1>8 DEF Status!Sweep, Status!SweepBlindly
<1>9. CASE Status!ChangeSetting
  <2>1. /\ UNCHANGED <<told, entries>> /\ job' = [job EXCEPT !["setting"] = Off]
        /\ \A j \in Status!Jobs : job[j] = Status!Idle
    BY <1>0, <1>9, StartIs DEF Status!ChangeSetting, Status!Busy, Status!keys
  <2> QED
    BY <1>0, <2>1, StartIs
<1>10. ASSUME NEW n \in Hosts, Status!Crash(n) PROVE Apart' /\ Told'
  <2>1. UNCHANGED <<visible, told, entries>>
    BY <1>10 DEF Status!Crash, Status!keys
  <2>2. \A j \in Status!Jobs : job'[j] = job[j]
    BY <1>0, <1>10 DEF Status!Crash, Status!Busy
  <2> QED
    BY <1>0, <1>0b, <2>1, <2>2
<1>11. ASSUME NEW c \in Conns, Status!Lapse(c) PROVE Apart' /\ Told'
  BY <1>1, <1>11 DEF Status!Lapse
<1>12. ASSUME NEW c \in Conns, Status!Connect(c) \/ Status!Register(c) \/ Status!Close(c) PROVE Apart' /\ Told'
  BY <1>1, <1>12 DEF Status!Connect, Status!Register, Status!Close, Status!keys
<1>13. CASE UNCHANGED Status!vars
  BY <1>1, <1>13 DEF Status!vars
<1> QED
  BY <1>3, <1>4, <1>5, <1>6, <1>7, <1>8, <1>9, <1>10, <1>11, <1>12, <1>13, Zenon DEF Status!Next

\* Once nothing is on its way no ghost is online (realtime.service.ts:29), and the
\* last word a contact got is the current state (presence.service.ts:95).
THEOREM OnlineSound ==
  ASSUME OnlineAssumption
  PROVE  Status!Spec => [](Status!NoGhosts /\ Status!LastWord)
<1>1. Status!Init => OnlineInv
  <2> SUFFICES ASSUME Status!Init PROVE OnlineInv
    OBVIOUS
  <2> USE DEF Status!Init, Status!Jobs, OnlineAssumption
  <2>1. /\ Status!Idle \in Announcement /\ Status!Idle.at = "idle"
        /\ \A j \in Status!Jobs : job[j] = Status!Idle
    BY StartIs
  <2>2. Status!TypeOK
    <3>1. online \in BOOLEAN /\ visible \in BOOLEAN /\ told \in BOOLEAN /\ adrift \in BOOLEAN
      BY Zenon
    <3>2. job \in [Status!Jobs -> Announcement]
      BY <2>1
    <3> QED
      BY <3>1, <3>2 DEF Status!TypeOK, Announcement
  <2>3. Entered
    BY DEF Entered
  <2>4. Announced /\ Followed
    BY <2>1 DEF Announced, Followed, Apart, Told, Announcing, Setting
  <2> QED
    BY <2>2, <2>3, <2>4 DEF OnlineInv
<1>2. OnlineInv /\ [Status!Next]_(Status!vars) => OnlineInv'
  BY OnlineTypes, OnlineEntered, OnlineAnnounced, OnlineFollowed DEF OnlineInv
<1>3. OnlineInv => Status!NoGhosts
  BY DEF OnlineInv, Status!TypeOK, Entered, Status!NoGhosts, Status!Quiet, Status!Open
<1>4. OnlineInv => Status!LastWord
  <2> SUFFICES ASSUME OnlineInv, Status!Quiet, ~adrift
               PROVE  (visible /\ Status!Open # {} => told) /\ (~visible => ~told)
    BY DEF Status!LastWord
  <2>1. Apart /\ Told
    BY DEF OnlineInv, Followed
  <2>2. \A j \in Status!Jobs : job[j].at = "idle"
    BY StartIs DEF Status!Quiet, Status!Busy
  <2>3. Status!Open # {} => entries # {}
    BY DEF OnlineInv, Entered, Status!Quiet, Status!Open, Status!TypeOK
  <2> QED
    BY <2>1, <2>2, <2>3 DEF Told, Announcing, Setting, Status!Jobs
<1> QED
  BY <1>1, <1>2, <1>3, <1>4, PTL DEF Status!Spec

(************************* A phone's notifications **************************)


PushAssumption == MaxLogins \in Nat /\ MaxPushes \in Nat /\ None \notin Accounts

\* What a push is, and how it is listed.
Pushed == [to : Accounts \cup {None}, at : {"idle", "begun", "listed"}, login : 0..MaxLogins,
           dead : BOOLEAN]

LEMMA PushedIs ==
  ASSUME PushAssumption
  PROVE  /\ Push!NoPush \in Pushed /\ Push!NoPush.at = "idle"
         /\ \A a \in Accounts : LET p == [Push!NoPush EXCEPT !.to = a, !.at = "begun"] IN
              p \in Pushed /\ p.at = "begun"
         /\ \A p \in Pushed, l \in 0..MaxLogins, b \in BOOLEAN :
              LET q == [p EXCEPT !.at = "listed", !.login = l, !.dead = b] IN
              q \in Pushed /\ q.dead = b
<1>1. Push!NoPush \in Pushed /\ Push!NoPush.at = "idle"
  BY DEF PushAssumption, Pushed, Push!NoPush
<1>2. ASSUME NEW a \in Accounts
      PROVE  LET p == [Push!NoPush EXCEPT !.to = a, !.at = "begun"] IN p \in Pushed /\ p.at = "begun"
  BY <1>1 DEF Pushed
<1>3. ASSUME NEW p \in Pushed, NEW l \in 0..MaxLogins, NEW b \in BOOLEAN
      PROVE  LET q == [p EXCEPT !.at = "listed", !.login = l, !.dead = b] IN
             q \in Pushed /\ q.dead = b
  BY DEF Pushed
<1> QED
  BY <1>1, <1>2, <1>3

\* A login that anything is known of has an account, which the row names too.
Owned ==
  /\ \A f \in Push!Logins :
       f \in live \/ ending[f] # "no" \/ reg[f] # "none" \/ phone = f \/ row.login = f
       => owner[f] # None
  /\ row.login # 0 => row.user = owner[row.login]
  /\ leaving # "no" => phone # 0

\* A session that ended stays dead; who bound the token after its end has still to look.
Rechecked ==
  /\ \A f \in Push!Logins : ending[f] \in {"revoked", "done"} => f \notin live
  /\ row.login # 0 /\ ending[row.login] = "done" => reg[row.login] = "stored"

PushInv == Push!TypeOK /\ Owned /\ Rechecked /\ Push!NoMorePreviews

LEMMA PushTypes ==
  ASSUME PushAssumption, PushInv, [Push!Next]_(Push!vars)
  PROVE  Push!TypeOK'
<1>0. Push!TypeOK => push \in Pushed /\ row.login \in 0..MaxLogins
  BY DEF Push!TypeOK, Pushed
<1>0a. push' \in Pushed /\ UNCHANGED <<owner, live, row, phone, known, leaving, reg, unreg, ending>>
       /\ pushes' \in 0..MaxPushes => Push!TypeOK'
  BY DEF PushInv, Push!TypeOK, Pushed
<1> USE DEF PushInv, Owned, Push!TypeOK, Push!server, Push!app, Push!Logins, Push!NoRow, PushAssumption
<1>1. CASE Push!RegisterToken
  BY <1>1 DEF Push!RegisterToken
<1>2. CASE Push!Unregister
  BY <1>2 DEF Push!Unregister
<1>3. CASE Push!Forget
  <2>1. known' \in BOOLEAN
    BY <1>3, Zenon DEF Push!Forget
  <2> QED
    BY <1>3, <2>1 DEF Push!Forget
<1>4. CASE Push!Logout
  BY <1>4 DEF Push!Logout
<1>5. CASE Push!List
  <2>1. CASE push' = Push!NoPush
    <3>1. push' \in Pushed
      BY <2>1, PushedIs
    <3> QED
      BY <1>0a, <1>5, <3>1 DEF Push!List, Push!ListEvery
  <2>2. CASE push' = [push EXCEPT !.at = "listed", !.login = row.login, !.dead = row.login \notin live]
    <3>1. (row.login \notin live) \in BOOLEAN
      BY Zenon
    <3>2. push' \in Pushed
      BY <1>0, <2>2, <3>1, PushedIs
    <3> QED
      BY <1>0a, <1>5, <3>2 DEF Push!List, Push!ListEvery
  <2> QED
    BY <1>5, <2>1, <2>2 DEF Push!List, Push!ListEvery
<1>6. CASE Push!Send
  BY <1>6 DEF Push!Send, Push!AfterPost, Push!NoPush
<1>7. ASSUME NEW f \in Push!Logins, NEW a \in Accounts, Push!SignIn(f, a) PROVE Push!TypeOK'
  <2>1. known' \in BOOLEAN
    BY <1>7, Zenon DEF Push!SignIn
  <2> QED
    BY <1>7, <2>1 DEF Push!SignIn
<1>8. ASSUME NEW f \in Push!Logins, Push!CheckSession(f) \/ Push!Bind(f) PROVE Push!TypeOK'
  <2>1. CASE Push!CheckSession(f)
    BY <2>1 DEF Push!CheckSession
  <2>2. CASE Push!Bind(f)
    BY <2>2 DEF Push!Bind
  <2> QED
    BY <1>8, <2>1, <2>2
<1>9. ASSUME NEW f \in Push!Logins, Push!Recheck(f) PROVE Push!TypeOK'
  <2>1. CASE Push!RecheckNever(f)
    <3>1. known' \in BOOLEAN
      BY <2>1, Zenon DEF Push!RecheckNever
    <3> QED
      BY <2>1, <3>1 DEF Push!RecheckNever
  <2>2. CASE ~Push!RecheckNever(f)
    <3>1. /\ row' = row \/ row' = Push!NoRow
          /\ reg' = [reg EXCEPT ![f] = "refused"]
          /\ UNCHANGED <<owner, live, phone, known, leaving, unreg, ending, push, pushes>>
      BY <1>9, <2>2 DEF Push!Recheck
    <3> QED
      BY <3>1
  <2> QED
    BY <2>1, <2>2
<1>10. ASSUME NEW f \in Push!Logins, Push!EndElsewhere(f) \/ Push!Revoke(f) \/ Push!Unbind(f) \/ Push!Expire(f)
       PROVE Push!TypeOK'
  <2>1. CASE Push!EndElsewhere(f) \/ Push!Revoke(f)
    BY <2>1 DEF Push!EndElsewhere, Push!Revoke
  <2>2. CASE Push!Unbind(f)
    BY <2>2 DEF Push!Unbind
  <2>3. CASE Push!Expire(f)
    BY <2>3 DEF Push!Expire
  <2> QED
    BY <1>10, <2>1, <2>2, <2>3
<1>11. ASSUME NEW a \in Accounts, Push!Delete(a) \/ Push!LoseDelete(a) PROVE Push!TypeOK'
  <2>1. CASE Push!Delete(a)
    BY <2>1 DEF Push!Delete
  <2>2. CASE Push!LoseDelete(a)
    BY <2>2 DEF Push!LoseDelete
  <2> QED
    BY <1>11, <2>1, <2>2
<1>12. ASSUME NEW a \in Accounts, Push!Notify(a) PROVE Push!TypeOK'
  <2>1. push' \in Pushed
    BY <1>12, PushedIs DEF Push!Notify
  <2> QED
    BY <1>0a, <1>12, <2>1 DEF Push!Notify
<1>13. CASE UNCHANGED Push!vars
  BY <1>13 DEF Push!vars
<1> QED
  BY <1>1, <1>2, <1>3, <1>4, <1>5, <1>6, <1>7, <1>8, <1>9, <1>10, <1>11, <1>12, <1>13 DEF Push!Next

LEMMA PushKeeps ==
  ASSUME PushAssumption, PushInv, [Push!Next]_(Push!vars)
  PROVE  PushInv'
<1>0. Push!TypeOK'
  BY PushTypes DEF PushInv
<1> USE <1>0 DEF PushInv, Owned, Rechecked, Push!NoMorePreviews,
        Push!TypeOK, Push!server, Push!app, Push!Logins, Push!NoRow, Push!NoPush, PushAssumption
<1>1. CASE Push!RegisterToken
  BY <1>1 DEF Push!RegisterToken
<1>2. CASE Push!Unregister
  BY <1>2 DEF Push!Unregister
<1>3. CASE Push!Forget
  BY <1>3 DEF Push!Forget
<1>4. CASE Push!Logout
  BY <1>4 DEF Push!Logout
<1>5. CASE Push!List
  <2>1. push'.at = "listed" => ~push'.dead
    <3>1. CASE push' = Push!NoPush
      BY <3>1, PushedIs
    <3>2. CASE push' = [push EXCEPT !.at = "listed", !.login = row.login, !.dead = row.login \notin live]
               /\ row.login \in live
      <4>1. (row.login \notin live) = FALSE
        BY <3>2
      <4>2. push \in Pushed /\ row.login \in 0..MaxLogins
        BY DEF Pushed
      <4>3. push'.dead = FALSE
        BY <3>2, <4>1, <4>2, PushedIs
      <4> QED
        BY <4>3
    <3> QED
      BY <1>5, <3>1, <3>2 DEF Push!List, Push!ListEvery
  <2> QED
    BY <1>5, <2>1 DEF Push!List, Push!ListEvery
<1>6. CASE Push!Send
  BY <1>6 DEF Push!Send, Push!AfterPost
<1>7. ASSUME NEW f \in Push!Logins, NEW a \in Accounts, Push!SignIn(f, a) PROVE PushInv'
  BY <1>7 DEF Push!SignIn
<1>8. ASSUME NEW f \in Push!Logins, Push!CheckSession(f) PROVE PushInv'
  BY <1>8 DEF Push!CheckSession, Push!FamilyLive
<1>8a. ASSUME NEW f \in Push!Logins, Push!Bind(f) PROVE PushInv'
  BY <1>8a DEF Push!Bind
<1>9. ASSUME NEW f \in Push!Logins, Push!Recheck(f) PROVE PushInv'
  BY <1>9 DEF Push!Recheck, Push!RecheckNever, Push!FamilyLive
<1>10. ASSUME NEW f \in Push!Logins, Push!EndElsewhere(f) \/ Push!Revoke(f) PROVE PushInv'
  BY <1>10 DEF Push!EndElsewhere, Push!Revoke
<1>10a. ASSUME NEW f \in Push!Logins, Push!Unbind(f) \/ Push!Expire(f) PROVE PushInv'
  BY <1>10a DEF Push!Unbind, Push!Expire
<1>11. ASSUME NEW a \in Accounts, Push!Delete(a) \/ Push!LoseDelete(a) PROVE PushInv'
  BY <1>11 DEF Push!Delete, Push!LoseDelete
<1>12. ASSUME NEW a \in Accounts, Push!Notify(a) PROVE PushInv'
  BY <1>12 DEF Push!Notify
<1>13. CASE UNCHANGED Push!vars
  BY <1>13 DEF Push!vars
<1> QED
  BY <1>1, <1>2, <1>3, <1>4, <1>5, <1>6, <1>7, <1>8, <1>8a, <1>9, <1>10, <1>10a, <1>11, <1>12,
     <1>13 DEF Push!Next

\* A token is not left bound to a session that ended (registration.ts:31), and
\* the phone shows no previews for it (devices.ts:65).
THEOREM PushSound ==
  ASSUME PushAssumption
  PROVE  Push!Spec => [](Push!NeverLeftBound /\ Push!NoMorePreviews)
<1>1. Push!Init => PushInv
  <2> SUFFICES ASSUME Push!Init PROVE PushInv
    OBVIOUS
  <2>1. known \in BOOLEAN
    BY Zenon DEF Push!Init
  <2> QED
    BY <2>1 DEF Push!Init, PushInv, Push!TypeOK, Owned, Rechecked, Push!NoMorePreviews,
                Push!NoRow, Push!NoPush, Push!Logins, PushAssumption
<1>2. PushInv /\ [Push!Next]_(Push!vars) => PushInv'
  BY PushKeeps
<1>3. PushInv => Push!NeverLeftBound /\ Push!NoMorePreviews
  BY DEF PushInv, Push!TypeOK, Rechecked, Push!NeverLeftBound, Push!Logins, PushAssumption
<1> QED
  BY <1>1, <1>2, <1>3, PTL DEF Push!Spec

(******************************** All of it *******************************)

\* MCAccounts checks this with one request for the group, so one at a time.
PeopleSound ==
  /\ Deletion!NoWayBackIn /\ Deletion!ChatAsAnswered /\ Deletion!StaysErased
  /\ Desk!HandledOnce /\ Desk!SessionsEnd
  /\ Status!NoGhosts /\ Status!LastWord
  /\ Push!NeverLeftBound /\ Push!NoMorePreviews
  /\ serial => AlwaysAnAdmin /\ WithinLimit

\* Nothing the rest of the system does to these tables can break what each of
\* the five promises, whatever the others do meanwhile: their state is apart.
THEOREM PeopleStaySound ==
  ASSUME MaxCrashes \in Nat, DeskAssumption, OnlineAssumption, PushAssumption
  PROVE  Deletion!Spec /\ Desk!Spec /\ Status!Spec /\ Push!Spec /\ Spec => []PeopleSound
<1>1. GroupSound => [](serial => AlwaysAnAdmin /\ WithinLimit)
  BY PTL DEF GroupSound
<1> QED
  BY <1>1, DeletionSound, DeskSound, OnlineSound, PushSound, GroupsSound, PTL DEF PeopleSound

(*************************** The session of a phone **************************)

Issued    == [family : Phone!SignIns, n : Nat]
Entries   == [do : {"write", "clear", "logout"}, token : Issued \cup {Phone!None}, gen : Phone!Generations]
Moments   == {"none", "read", "sent", "ok", "no", "net", "store"}
InFlight  == {"sent", "ok", "no", "net", "store"}
Refreshes == [at : Moments, token : Issued \cup {Phone!None}]

HasWipe    == \E i \in DOMAIN queue : queue[i].do # "write"
Current(i) == queue[i].do = "write" /\ queue[i].gen = generation

PhoneTypes ==
  /\ head \in [Phone!SignIns -> Nat] /\ logins \subseteq Phone!SignIns /\ generation \in Phone!Generations
  /\ mishap \in BOOLEAN /\ queue \in Seq(Entries) /\ keystore \in Issued \cup {Phone!None}
  /\ refresh \in [Phone!Generations -> Refreshes]

\* A token in circulation is of a sign-in that took place.
Known(t) == t \in Issued /\ head[t.family] # 0
Circulating ==
  /\ \A f \in logins : head[f] # 0
  /\ keystore # Phone!None => Known(keystore)
  /\ \A i \in DOMAIN queue : queue[i].do = "write" => Known(queue[i].token)
  /\ \A g \in Phone!Generations : refresh[g].at \in InFlight => Known(refresh[g].token)
  /\ \A g \in Phone!Generations : g > generation => refresh[g] = Phone!NoRefresh

\* Of the queue: a write that has become stale is followed by a clear, which no
\* current write comes before; until then nobody is signed in.
QueueInOrder ==
  /\ \A i \in DOMAIN queue : queue[i].gen <= generation
  /\ \A i, j \in DOMAIN queue : i < j /\ queue[j].do # "write" => ~Current(i)
  /\ \A i \in DOMAIN queue : queue[i].do = "write" /\ queue[i].gen # generation =>
       \E j \in DOMAIN queue : i < j /\ queue[j].do # "write"
  /\ HasWipe => family = 0

PhoneBase == PhoneTypes /\ Circulating /\ QueueInOrder /\ Phone!StoredIsCurrent

\* While no answer is lost and the app is not killed, each session lives in one
\* generation, and of its tokens the live one is in one place.
Fresh(t) == head[t.family] = t.n \/ t.family \in ended

Calm ==
  /\ restored = "done" /\ straying = {} /\ reused = {}
  /\ \A g \in Phone!Generations : refresh[g].at # "net"

Kept ==
  /\ HasWipe => \A i \in DOMAIN queue : ~Current(i)
  /\ ~HasWipe => IF family = 0 THEN keystore = Phone!None ELSE keystore.family = family

OneSignIn ==
  \A f \in logins :
    /\ Fresh(Phone!Token(f, 1)) /\ logins = {f} /\ family = 0
    /\ \A i \in DOMAIN queue : ~Current(i)
    /\ \A g \in Phone!Generations : refresh[g].at \in InFlight => refresh[g].token.family # f

Refreshing ==
  /\ \A g \in Phone!Generations : refresh[g].at \in {"sent", "ok", "store"} => Fresh(refresh[g].token)
  /\ \A g, h \in Phone!Generations : g # h /\ refresh[g].at \in InFlight /\ refresh[h].at \in InFlight =>
       refresh[g].token.family # refresh[h].token.family
  /\ refresh[generation].at \in InFlight => ~HasWipe /\ family = refresh[generation].token.family

Reading ==
  ~HasWipe =>
    /\ \A g \in Phone!Generations \ {generation} :
         /\ refresh[g].at \in InFlight => refresh[g].token.family # keystore.family
         /\ refresh[g].at = "read" => keystore = Phone!None /\ \A i \in DOMAIN queue : ~Current(i)
    /\ keystore # Phone!None /\ refresh[generation].at \notin InFlight => Fresh(keystore)

Writing ==
  \A i \in DOMAIN queue : Current(i) =>
    /\ Len(queue) = 1 /\ Fresh(queue[1].token)
    /\ \/ /\ queue[1].token.n = 1 /\ family = 0 /\ logins = {}
          /\ \A g \in Phone!Generations : refresh[g].at \in InFlight =>
               refresh[g].token.family # queue[1].token.family
       \/ refresh[generation] = [at |-> "store", token |-> queue[1].token]

Smooth   == Calm /\ Kept /\ OneSignIn /\ Refreshing /\ Reading /\ Writing
PhoneInv == PhoneBase /\ (~mishap => Smooth)
-----------------------------------------------------------------------------
PhoneAssumption == MaxSignIns \in Nat

LEMMA PhoneNumbers ==
  ASSUME PhoneAssumption
  PROVE  /\ Phone!Generations \subseteq Int /\ 0 \in Phone!Generations /\ 0 \notin Phone!SignIns
         /\ Phone!None \notin Issued /\ Phone!None.family = 0 /\ Phone!SignIns \subseteq Nat
         /\ \A g \in Phone!Generations : g >= 0
<1>1. /\ Phone!Generations \subseteq Int /\ 0 \in Phone!Generations
      /\ 0 \notin Phone!SignIns /\ Phone!SignIns \subseteq Nat
      /\ \A g \in Phone!Generations : g >= 0
  BY DEF PhoneAssumption, Phone!Generations, Phone!SignIns
<1>2. Phone!None.family = 0
  BY DEF Phone!None, Phone!Token
<1>3. Phone!None \notin Issued
  BY <1>1, <1>2 DEF Issued
<1> QED BY <1>1, <1>2, <1>3

LEMMA NoRefreshType ==
  /\ Phone!NoRefresh \in Refreshes /\ Phone!NoRefresh.at = "none"
  /\ [Phone!NoRefresh EXCEPT !.at = "read"] \in Refreshes
  /\ [Phone!NoRefresh EXCEPT !.at = "read"].at = "read"
BY DEF Phone!NoRefresh, Refreshes, Moments

\* The queue grows at its end.
LEMMA Grows ==
  ASSUME queue \in Seq(Entries), NEW e \in Entries, queue' = Append(queue, e)
  PROVE  /\ queue' \in Seq(Entries) /\ queue' # <<>>
         /\ Len(queue) \in Nat /\ Len(queue') = Len(queue) + 1
         /\ DOMAIN queue = 1..Len(queue) /\ DOMAIN queue' = 1..(Len(queue) + 1)
         /\ \A i \in DOMAIN queue' : IF i = Len(queue) + 1 THEN queue'[i] = e
                                     ELSE i \in DOMAIN queue /\ queue'[i] = queue[i]
         /\ \A i \in DOMAIN queue : i \in DOMAIN queue' /\ i # Len(queue) + 1
<1>1. /\ queue' \in Seq(Entries) /\ Len(queue) \in Nat /\ Len(queue') = Len(queue) + 1
      /\ DOMAIN queue = 1..Len(queue) /\ DOMAIN queue' = 1..(Len(queue) + 1)
      /\ \A i \in 1..Len(queue) : queue'[i] = queue[i]
      /\ queue'[Len(queue) + 1] = e
  OBVIOUS
<1>2. queue' # <<>>
  BY <1>1
<1>3. \A i \in DOMAIN queue' : i = Len(queue) + 1 \/ i \in DOMAIN queue
  BY <1>1
<1>4. \A i \in DOMAIN queue : i \in DOMAIN queue' /\ i # Len(queue) + 1
  BY <1>1
<1> QED BY <1>1, <1>2, <1>3, <1>4

\* It shrinks at its head.
LEMMA Shrinks ==
  ASSUME queue \in Seq(Entries), queue # <<>>, queue' = Tail(queue)
  PROVE  /\ queue' \in Seq(Entries) /\ Len(queue) \in Nat /\ Len(queue') = Len(queue) - 1
         /\ Head(queue) = queue[1] /\ 1 \in DOMAIN queue /\ queue[1] \in Entries
         /\ DOMAIN queue \subseteq Nat /\ DOMAIN queue' \subseteq Nat
         /\ \A i \in DOMAIN queue' : i + 1 \in DOMAIN queue /\ queue'[i] = queue[i + 1]
         /\ \A i \in DOMAIN queue : i = 1 \/ (1 < i /\ i - 1 \in DOMAIN queue' /\ queue'[i - 1] = queue[i])
<1>1. PICK n \in Nat : n = Len(queue)
  OBVIOUS
<1>2. /\ queue' \in Seq(Entries) /\ n >= 1 /\ Len(queue') = n - 1 /\ Head(queue) = queue[1]
      /\ DOMAIN queue = 1..n /\ DOMAIN queue' = 1..(n - 1)
      /\ \A i \in 1..(n - 1) : queue'[i] = queue[i + 1]
  BY <1>1
<1>3. 1 \in DOMAIN queue /\ queue[1] \in Entries
  BY <1>2
<1>4. ASSUME NEW i \in DOMAIN queue'
      PROVE  i + 1 \in DOMAIN queue /\ queue'[i] = queue[i + 1]
  BY <1>2
<1>5. ASSUME NEW i \in DOMAIN queue
      PROVE  i = 1 \/ (1 < i /\ i - 1 \in DOMAIN queue' /\ queue'[i - 1] = queue[i])
  <2>1. CASE i = 1
    BY <2>1
  <2>2. CASE i # 1
    <3>1. i - 1 \in 1..(n - 1) /\ (i - 1) + 1 = i /\ 1 < i
      BY <1>2, <2>2
    <3>2. queue'[i - 1] = queue[(i - 1) + 1]
      BY <1>2, <3>1
    <3> QED BY <1>2, <3>1, <3>2
  <2> QED BY <2>1, <2>2
<1>6. DOMAIN queue \subseteq Nat /\ DOMAIN queue' \subseteq Nat
  BY <1>2
<1> QED BY <1>1, <1>2, <1>3, <1>4, <1>5, <1>6

-----------------------------------------------------------------------------
\* Steps that leave the keystore, its queue and the session as they are.
LEMMA BaseStays ==
  ASSUME PhoneBase, UNCHANGED <<generation, family, keystore, queue>>, mishap' \in BOOLEAN,
         head' \in [Phone!SignIns -> Nat], \A f \in Phone!SignIns : head[f] # 0 => head'[f] # 0,
         logins' \subseteq Phone!SignIns, \A f \in logins' : head'[f] # 0,
         refresh' \in [Phone!Generations -> Refreshes],
         \A g \in Phone!Generations : refresh'[g].at \in InFlight => Known(refresh'[g].token),
         \A g \in Phone!Generations : g > generation => refresh'[g] = Phone!NoRefresh,
         restored' = "done" => restored = "done"
  PROVE  PhoneBase'
<1>1. PhoneTypes'
  BY DEF PhoneBase, PhoneTypes
<1>2. ASSUME NEW t, Known(t) PROVE Known(t)'
  <2>1. t.family \in Phone!SignIns
    BY <1>2 DEF Known, Issued
  <2> QED BY <1>2, <2>1 DEF Known
<1>3. Circulating'
  BY <1>2 DEF PhoneBase, Circulating
<1>4. QueueInOrder'
  BY DEF PhoneBase, QueueInOrder, HasWipe, Current
<1>5. Phone!StoredIsCurrent'
  BY DEF PhoneBase, Phone!StoredIsCurrent
<1> QED BY <1>1, <1>3, <1>4, <1>5 DEF PhoneBase

\* Refreshes end, and one of this generation may begin.
LEMMA SessionStays ==
  ASSUME PhoneAssumption, PhoneInv,
         UNCHANGED <<head, logins, generation, family, keystore, queue, straying, reused, mishap>>,
         ended \subseteq ended', refresh' \in [Phone!Generations -> Refreshes],
         \A g \in Phone!Generations :
           \/ refresh'[g] = refresh[g]
           \/ refresh'[g] = Phone!NoRefresh /\ (g # generation \/ mishap)
           \/ g = generation /\ refresh[g].at = "none" /\ refresh'[g].at = "read",
         restored' = "done" => restored = "done", mishap \/ UNCHANGED restored
  PROVE  PhoneInv'
<1>1. PhoneBase /\ PhoneTypes /\ Circulating
  BY DEF PhoneInv, PhoneBase
<1>2. \A g \in Phone!Generations : refresh'[g].at \in InFlight => refresh'[g] = refresh[g]
  BY NoRefreshType DEF InFlight
<1>3. PhoneBase'
  <2>1. \A g \in Phone!Generations : g > generation => refresh'[g] = Phone!NoRefresh
    <3>1. generation \in Int /\ Phone!Generations \subseteq Int
      BY <1>1, PhoneNumbers DEF PhoneTypes
    <3>2. \A g \in Phone!Generations : g > generation => g # generation
      BY <3>1
    <3> QED BY <1>1, <3>2 DEF Circulating
  <2>2. \A g \in Phone!Generations : refresh'[g].at \in InFlight => Known(refresh'[g].token)
    BY <1>1, <1>2 DEF Circulating
  <2> QED BY <1>1, <2>1, <2>2, BaseStays DEF PhoneTypes, Circulating
<1>4. ASSUME ~mishap' PROVE Smooth'
  <2>1. Smooth /\ ~mishap
    BY <1>4 DEF PhoneInv
  <2>2. \A t : Fresh(t) => Fresh(t)'
    BY DEF Fresh
  <2>3. (HasWipe' <=> HasWipe) /\ \A i \in DOMAIN queue : Current(i)' <=> Current(i)
    BY DEF HasWipe, Current
  <2>4. Calm'
    BY <2>1, NoRefreshType DEF Smooth, Calm
  <2>5. Kept'
    BY <2>1, <2>3 DEF Smooth, Kept
  <2>6. OneSignIn'
    BY <1>2, <2>1, <2>2, <2>3 DEF Smooth, OneSignIn
  <2>7. generation \in Phone!Generations
    BY <1>1 DEF PhoneTypes
  <2>8. Refreshing'
    <3>1. \A g \in Phone!Generations : refresh'[g].at \in {"sent", "ok", "store"} =>
         refresh'[g] = refresh[g]
      BY <1>2 DEF InFlight
    <3> QED BY <1>2, <2>1, <2>2, <2>3, <2>7, <3>1 DEF Smooth, Refreshing
  <2>9. Reading'
    <3>1. \A g \in Phone!Generations \ {generation} : refresh'[g].at = "read" =>
         refresh'[g] = refresh[g]
      BY NoRefreshType
    <3>2. refresh'[generation].at \notin InFlight => refresh[generation].at \notin InFlight
      BY <2>1, <2>7 DEF InFlight
    <3> QED BY <1>2, <2>1, <2>2, <2>3, <2>7, <3>1, <3>2 DEF Smooth, Reading
  <2>10. Writing'
    <3>1. refresh[generation].at = "store" => refresh'[generation] = refresh[generation]
      BY <2>1, <2>7
    <3>2. \A t : refresh[generation] = [at |-> "store", token |-> t] =>
         refresh'[generation] = [at |-> "store", token |-> t]
      BY <3>1
    <3> QED BY <1>2, <2>1, <2>2, <2>3, <3>2 DEF Smooth, Writing
  <2> QED BY <2>4, <2>5, <2>6, <2>8, <2>9, <2>10 DEF Smooth
<1> QED BY <1>3, <1>4 DEF PhoneInv

\* clearLocal: everything queued before the clear has become stale.
LEMMA Clears ==
  ASSUME PhoneAssumption, PhoneInv, NEW how \in {"clear", "logout"}, Phone!Clear(how),
         UNCHANGED <<head, ended, logins, reused, keystore, straying>>,
         mishap' \in BOOLEAN, mishap => mishap', restored' = restored \/ restored' = "done",
         refresh' \in [Phone!Generations -> Refreshes],
         \A g \in Phone!Generations : refresh'[g] = refresh[g] \/ refresh'[g] = Phone!NoRefresh
  PROVE  PhoneInv'
<1>1. PhoneTypes /\ Circulating /\ QueueInOrder
  BY DEF PhoneInv, PhoneBase
<1>2. generation \in Int /\ generation' = generation + 1 /\ generation' \in Phone!Generations /\ family' = 0
      /\ Phone!Generations \subseteq Int
  BY <1>1, PhoneNumbers DEF Phone!Clear, PhoneTypes
<1>3. PICK e : e = Phone!Wipe(how)
  OBVIOUS
<1>4. e \in Entries /\ e.do # "write" /\ e.gen = 0
  BY <1>3, PhoneNumbers DEF Phone!Wipe, Entries
<1>5. PICK n : n = Len(queue)
  OBVIOUS
<1>6. /\ queue' \in Seq(Entries) /\ queue' # <<>> /\ n \in Nat
      /\ DOMAIN queue = 1..n /\ DOMAIN queue' = 1..(n + 1)
      /\ \A i \in DOMAIN queue' : IF i = n + 1 THEN queue'[i] = e
                                  ELSE i \in DOMAIN queue /\ queue'[i] = queue[i]
      /\ \A i \in DOMAIN queue : i \in DOMAIN queue' /\ i # n + 1
  BY <1>1, <1>3, <1>4, <1>5, Grows DEF Phone!Clear, PhoneTypes
<1>7. ASSUME NEW i \in DOMAIN queue' PROVE ~Current(i)'
  <2>1. CASE i = n + 1
    BY <1>4, <1>6, <2>1 DEF Current
  <2>2. CASE i # n + 1
    <3>1. queue'[i] = queue[i] /\ queue[i].gen <= generation /\ queue[i] \in Entries
      BY <1>1, <1>6, <2>2 DEF QueueInOrder, PhoneTypes
    <3>2. queue[i].gen \in Int
      BY <1>2, <3>1 DEF Entries
    <3> QED BY <1>2, <3>1, <3>2 DEF Current
  <2> QED BY <2>1, <2>2
<1>8. HasWipe'
  <2>1. n + 1 \in DOMAIN queue'
    BY <1>6
  <2> QED BY <1>4, <1>6, <2>1 DEF HasWipe
<1>9. \A g \in Phone!Generations : refresh'[g].at \in InFlight => refresh'[g] = refresh[g]
  BY NoRefreshType DEF InFlight
<1>10. \A g \in Phone!Generations : g > generation => refresh'[g] = Phone!NoRefresh
  BY <1>1 DEF Circulating
<1>11. refresh'[generation'] = Phone!NoRefresh /\ \A g \in Phone!Generations : g > generation' =>
     refresh'[g] = Phone!NoRefresh
  <2>1. generation' > generation /\ \A g \in Phone!Generations : g > generation' => g > generation
    BY <1>2
  <2> QED BY <1>2, <1>10, <2>1
<1>12. PhoneBase'
  <2>1. PhoneTypes'
    BY <1>1, <1>2, <1>6 DEF PhoneTypes
  <2>2. Circulating'
    <3>1. \A t : Known(t) => Known(t)'
      BY DEF Known
    <3>2. \A i \in DOMAIN queue' : queue'[i].do = "write" => Known(queue'[i].token)
      <4>1. \A i \in DOMAIN queue' : queue'[i].do = "write" => i \in DOMAIN queue /\ queue'[i] = queue[i]
        BY <1>4, <1>6
      <4> QED BY <1>1, <3>1, <4>1 DEF Circulating
    <3>3. (keystore # Phone!None => Known(keystore))' /\ (\A f \in logins : head[f] # 0)'
      BY <1>1, <3>1 DEF Circulating
    <3>4. \A g \in Phone!Generations : refresh'[g].at \in InFlight => Known(refresh'[g].token)
      BY <1>1, <1>9, <3>1 DEF Circulating
    <3> QED BY <1>11, <3>1, <3>2, <3>3, <3>4 DEF Circulating
  <2>3. QueueInOrder'
    <3>1. ASSUME NEW i \in DOMAIN queue' PROVE queue'[i].gen <= generation'
      <4>1. CASE i = n + 1
        BY <1>1, <1>2, <1>4, <1>6, <4>1, PhoneNumbers DEF PhoneTypes
      <4>2. CASE i # n + 1
        <5>1. queue'[i] = queue[i] /\ queue[i].gen <= generation /\ queue[i] \in Entries
          BY <1>1, <1>6, <4>2 DEF QueueInOrder, PhoneTypes
        <5>2. queue[i].gen \in Int
          BY <1>2, <5>1 DEF Entries
        <5> QED BY <1>2, <5>1, <5>2
      <4> QED BY <4>1, <4>2
    <3>2. ASSUME NEW i \in DOMAIN queue', queue'[i].do = "write"
          PROVE  \E j \in DOMAIN queue' : i < j /\ queue'[j].do # "write"
      <4>1. n + 1 \in DOMAIN queue' /\ queue'[n + 1].do # "write"
        BY <1>4, <1>6
      <4>2. i < n + 1
        BY <1>4, <1>6, <3>2
      <4> QED BY <4>1, <4>2
    <3> QED BY <1>2, <1>7, <3>1, <3>2 DEF QueueInOrder
  <2>4. Phone!StoredIsCurrent'
    BY <1>6 DEF Phone!StoredIsCurrent
  <2> QED BY <2>1, <2>2, <2>3, <2>4 DEF PhoneBase
<1>13. ASSUME ~mishap' PROVE Smooth'
  <2>1. Smooth
    BY <1>1, <1>13 DEF PhoneInv
  <2>2. \A t : Fresh(t) => Fresh(t)'
    BY DEF Fresh
  <2>3. Calm'
    BY <2>1, NoRefreshType DEF Smooth, Calm
  <2>4. Kept' /\ Reading' /\ Writing'
    BY <1>7, <1>8 DEF Kept, Reading, Writing
  <2>5. OneSignIn'
    BY <1>2, <1>7, <1>9, <2>1, <2>2 DEF Smooth, OneSignIn
  <2>6. Refreshing'
    <3>1. refresh'[generation'].at \notin InFlight
      BY <1>11, NoRefreshType DEF InFlight
    <3>2. \A g \in Phone!Generations : refresh'[g].at \in {"sent", "ok", "store"} =>
         refresh'[g] = refresh[g]
      BY <1>9 DEF InFlight
    <3> QED BY <1>9, <2>1, <2>2, <3>1, <3>2 DEF Smooth, Refreshing
  <2> QED BY <2>3, <2>4, <2>5, <2>6 DEF Smooth
<1> QED BY <1>12, <1>13 DEF PhoneInv

-----------------------------------------------------------------------------
\* A keystore task leaves the queue.
LEMMA QueueShrinks ==
  ASSUME PhoneAssumption, PhoneBase, queue # <<>>, queue' = Tail(queue), UNCHANGED generation
  PROVE  /\ queue' \in Seq(Entries) /\ Head(queue) = queue[1] /\ 1 \in DOMAIN queue
         /\ queue[1] \in Entries
         /\ \A i \in DOMAIN queue' : /\ i + 1 \in DOMAIN queue /\ queue'[i] = queue[i + 1]
                                     /\ Current(i)' => Current(i + 1)
                                     /\ queue'[i].gen <= generation
         /\ \A i, j \in DOMAIN queue' : i < j /\ queue'[j].do # "write" => ~Current(i)'
         /\ \A i \in DOMAIN queue' : queue'[i].do = "write" /\ queue'[i].gen # generation =>
              \E j \in DOMAIN queue' : i < j /\ queue'[j].do # "write"
         /\ HasWipe' => HasWipe
         /\ queue[1].do = "write" /\ HasWipe => HasWipe'
         /\ Current(1) => ~HasWipe
         /\ queue[1].do = "write" /\ ~Current(1) => HasWipe
<1>1. PhoneTypes /\ QueueInOrder
  BY DEF PhoneBase
<1>2. /\ queue' \in Seq(Entries) /\ Head(queue) = queue[1] /\ 1 \in DOMAIN queue /\ queue[1] \in Entries
      /\ DOMAIN queue \subseteq Nat /\ DOMAIN queue' \subseteq Nat
      /\ \A i \in DOMAIN queue' : i + 1 \in DOMAIN queue /\ queue'[i] = queue[i + 1]
      /\ \A i \in DOMAIN queue : i = 1 \/ (1 < i /\ i - 1 \in DOMAIN queue' /\ queue'[i - 1] = queue[i])
  BY <1>1, Shrinks DEF PhoneTypes
<1>3. \A i \in DOMAIN queue' : (Current(i)' => Current(i + 1)) /\ queue'[i].gen <= generation
  BY <1>1, <1>2 DEF Current, QueueInOrder
<1>4. ASSUME NEW i \in DOMAIN queue', NEW j \in DOMAIN queue', i < j, queue'[j].do # "write"
      PROVE  ~Current(i)'
  <2>1. i + 1 < j + 1
    BY <1>2, <1>4
  <2>2. ~Current(i + 1)
    BY <1>1, <1>2, <1>4, <2>1 DEF QueueInOrder
  <2> QED BY <1>3, <2>2
<1>5. ASSUME NEW i \in DOMAIN queue', queue'[i].do = "write", queue'[i].gen # generation
      PROVE  \E j \in DOMAIN queue' : i < j /\ queue'[j].do # "write"
  <2>1. PICK j \in DOMAIN queue : i + 1 < j /\ queue[j].do # "write"
    BY <1>1, <1>2, <1>5 DEF QueueInOrder
  <2>2. i \in Nat /\ j \in Nat
    BY <1>2
  <2>3. j # 1 /\ i < j - 1
    BY <2>1, <2>2
  <2>4. j - 1 \in DOMAIN queue' /\ queue'[j - 1] = queue[j]
    BY <1>2, <2>3
  <2> QED BY <2>1, <2>3, <2>4
<1>6. HasWipe' => HasWipe
  BY <1>2 DEF HasWipe
<1>7. queue[1].do = "write" /\ HasWipe => HasWipe'
  BY <1>2 DEF HasWipe
<1>8. ASSUME Current(1) PROVE ~HasWipe
  <2>1. \A j \in DOMAIN queue : 1 < j => queue[j].do = "write"
    BY <1>1, <1>2, <1>8 DEF QueueInOrder
  <2>2. queue[1].do = "write"
    BY <1>8 DEF Current
  <2> QED BY <1>2, <2>1, <2>2 DEF HasWipe
<1>9. ASSUME queue[1].do = "write", ~Current(1) PROVE HasWipe
  <2>1. queue[1].gen # generation
    BY <1>9 DEF Current
  <2>2. \E j \in DOMAIN queue : 1 < j /\ queue[j].do # "write"
    BY <1>1, <1>2, <1>9, <2>1 DEF QueueInOrder
  <2> QED BY <2>2 DEF HasWipe
<1> QED BY <1>2, <1>3, <1>4, <1>5, <1>6, <1>7, <1>8, <1>9

\* What is common to the tasks that change no session.
LEMMA TaskBase ==
  ASSUME PhoneAssumption, PhoneBase, queue # <<>>, queue' = Tail(queue),
         UNCHANGED <<generation, head, logins, mishap>>,
         keystore' \in Issued \cup {Phone!None}, keystore' # Phone!None => Known(keystore'),
         refresh' \in [Phone!Generations -> Refreshes],
         \A g \in Phone!Generations : refresh'[g] = refresh[g] \/ refresh'[g] = Phone!NoRefresh,
         HasWipe' => family' = 0, Phone!StoredIsCurrent'
  PROVE  PhoneBase'
<1>1. PhoneTypes /\ Circulating
  BY DEF PhoneBase
<1>2. /\ queue' \in Seq(Entries)
      /\ \A i \in DOMAIN queue' : /\ i + 1 \in DOMAIN queue /\ queue'[i] = queue[i + 1]
                                  /\ queue'[i].gen <= generation
      /\ \A i, j \in DOMAIN queue' : i < j /\ queue'[j].do # "write" => ~Current(i)'
      /\ \A i \in DOMAIN queue' : queue'[i].do = "write" /\ queue'[i].gen # generation =>
           \E j \in DOMAIN queue' : i < j /\ queue'[j].do # "write"
  BY QueueShrinks
<1>3. PhoneTypes'
  BY <1>1, <1>2 DEF PhoneTypes
<1>4. Circulating'
  <2>1. \A t : Known(t) => Known(t)'
    BY DEF Known
  <2>2. \A i \in DOMAIN queue' : queue'[i].do = "write" => Known(queue'[i].token)
    BY <1>1, <1>2, <2>1 DEF Circulating
  <2>3. (keystore # Phone!None => Known(keystore))' /\ (\A f \in logins : head[f] # 0)'
    BY <1>1, <2>1 DEF Circulating
  <2>4. \A g \in Phone!Generations : refresh'[g].at \in InFlight => refresh'[g] = refresh[g]
    BY NoRefreshType DEF InFlight
  <2>5. \A g \in Phone!Generations : refresh'[g].at \in InFlight => Known(refresh'[g].token)
    BY <1>1, <2>1, <2>4 DEF Circulating
  <2>6. \A g \in Phone!Generations : g > generation' => refresh'[g] = Phone!NoRefresh
    BY <1>1 DEF Circulating
  <2> QED BY <2>1, <2>2, <2>3, <2>5, <2>6 DEF Circulating
<1>5. QueueInOrder'
  BY <1>2 DEF QueueInOrder
<1> QED BY <1>3, <1>4, <1>5 DEF PhoneBase

\* What is common to those of them that clear or leave a clear to come.
LEMMA TaskSmooth ==
  ASSUME PhoneAssumption, PhoneInv, ~mishap, HasWipe, queue # <<>>, queue' = Tail(queue),
         UNCHANGED <<generation, head, ended, reused, family, logins, straying, restored>>,
         HasWipe' \/ keystore' = Phone!None,
         refresh' \in [Phone!Generations -> Refreshes],
         \A g \in Phone!Generations : refresh'[g] = refresh[g] \/ refresh'[g] = Phone!NoRefresh
  PROVE  Smooth'
<1>1. Smooth /\ PhoneBase /\ PhoneTypes /\ Circulating /\ family = 0
  BY DEF PhoneInv, PhoneBase, QueueInOrder
<1>2. \A i \in DOMAIN queue' : ~Current(i)'
  <2>1. \A i \in DOMAIN queue : ~Current(i)
    BY <1>1 DEF Smooth, Kept
  <2> QED BY <1>1, <2>1, QueueShrinks
<1>3. \A t : Fresh(t) => Fresh(t)'
  BY DEF Fresh
<1>4. \A g \in Phone!Generations : refresh'[g].at \in InFlight => refresh'[g] = refresh[g]
  BY NoRefreshType DEF InFlight
<1>5. Calm'
  BY <1>1, NoRefreshType DEF Smooth, Calm
<1>6. Kept'
  BY <1>1, <1>2 DEF Kept
<1>7. OneSignIn'
  BY <1>1, <1>2, <1>3, <1>4 DEF Smooth, OneSignIn
<1>8. refresh'[generation].at \notin InFlight
  <2>1. refresh[generation].at \notin InFlight /\ generation \in Phone!Generations
    BY <1>1 DEF Smooth, Refreshing, PhoneTypes
  <2> QED BY <1>4, <2>1
<1>9. Refreshing'
  <2>1. \A g \in Phone!Generations : refresh'[g].at \in {"sent", "ok", "store"} =>
       refresh'[g] = refresh[g]
    BY <1>4 DEF InFlight
  <2> QED BY <1>1, <1>3, <1>4, <1>8, <2>1 DEF Smooth, Refreshing
<1>10. Reading'
  <2>1. CASE HasWipe'
    BY <2>1 DEF Reading
  <2>2. CASE keystore' = Phone!None
    <3>1. \A g \in Phone!Generations : refresh'[g].at \in InFlight =>
         refresh'[g].token.family # Phone!None.family
      <4>1. \A t : Known(t) => t.family # Phone!None.family
        BY PhoneNumbers DEF Known, Issued
      <4> QED BY <1>1, <1>4, <4>1 DEF Circulating
    <3> QED BY <1>2, <2>2, <3>1 DEF Reading
  <2> QED BY <2>1, <2>2
<1>11. Writing'
  BY <1>2 DEF Writing
<1> QED BY <1>5, <1>6, <1>7, <1>9, <1>10, <1>11 DEF Smooth

LEMMA StoreClearKeeps ==
  ASSUME PhoneAssumption, PhoneInv, Phone!StoreClear
  PROVE  PhoneInv'
<1>1. /\ queue # <<>> /\ Head(queue).do # "write" /\ queue' = Tail(queue) /\ keystore' = Phone!None
      /\ UNCHANGED <<head, ended, logins, reused, generation, family, access, restored, refresh,
                     straying, mishap>>
  BY DEF Phone!StoreClear, Phone!server, Phone!phone
<1>2. PhoneBase /\ PhoneTypes /\ QueueInOrder
  BY DEF PhoneInv, PhoneBase
<1>3. HasWipe /\ family = 0
  <2>1. 1 \in DOMAIN queue /\ queue[1].do # "write"
    BY <1>1, <1>2, QueueShrinks
  <2> QED BY <1>2, <2>1 DEF HasWipe, QueueInOrder
<1>4. Phone!StoredIsCurrent'
  BY <1>1, <1>3 DEF Phone!StoredIsCurrent
<1>5. PhoneBase'
  BY <1>1, <1>2, <1>3, <1>4, TaskBase DEF PhoneTypes
<1>6. ~mishap' => Smooth'
  BY <1>1, <1>2, <1>3, TaskSmooth DEF PhoneTypes
<1> QED BY <1>5, <1>6 DEF PhoneInv

\* The refresh a write belongs to ends with it.
LEMMA StoredEnds ==
  ASSUME PhoneAssumption, refresh \in [Phone!Generations -> Refreshes], NEW t, NEW g \in Phone!Generations, NEW f,
         Phone!Stored(t, g, f)
  PROVE  /\ refresh' \in [Phone!Generations -> Refreshes]
         /\ \A h \in Phone!Generations : refresh'[h] = refresh[h] \/ (h = g /\ refresh'[h] = Phone!NoRefresh)
         /\ refresh[g] = [at |-> "store", token |-> t] => refresh'[g] = Phone!NoRefresh
BY NoRefreshType DEF Phone!Stored, Phone!ForRefresh, Phone!Finish

LEMMA StoreWriteKeeps ==
  ASSUME PhoneAssumption, PhoneInv, Phone!StoreWrite
  PROVE  PhoneInv'
<1>1. PICK t, g : t = Head(queue).token /\ g = Head(queue).gen
  OBVIOUS
<1>2. /\ queue # <<>> /\ Head(queue).do = "write" /\ queue' = Tail(queue)
      /\ UNCHANGED <<head, ended, logins, reused, generation, straying, mishap>>
      /\ \/ /\ g = generation /\ keystore' = t /\ family' = t.family /\ restored' = "done"
            /\ Phone!Stored(t, g, t.family)
         \/ /\ g # generation /\ (keystore' = keystore \/ (queue' # <<>> /\ keystore' = t))
            /\ Phone!Stored(t, g, 0) /\ UNCHANGED <<family, restored>>
  BY <1>1, Zenon DEF Phone!StoreWrite, Phone!server
<1>3. PhoneBase /\ PhoneTypes /\ Circulating /\ QueueInOrder
  BY DEF PhoneInv, PhoneBase
<1>4. /\ 1 \in DOMAIN queue /\ queue[1] \in Entries /\ Head(queue) = queue[1]
      /\ queue[1].do = "write"
  BY <1>2, <1>3, QueueShrinks
<1>5. g \in Phone!Generations /\ Known(t) /\ t \in Issued /\ t.family # 0
  <2>1. g \in Phone!Generations /\ Known(t)
    BY <1>1, <1>3, <1>4 DEF Entries, Circulating
  <2>2. t \in Issued
    BY <2>1 DEF Known
  <2> QED BY <2>1, <2>2, PhoneNumbers DEF Issued
<1>6. /\ refresh' \in [Phone!Generations -> Refreshes]
      /\ \A h \in Phone!Generations : refresh'[h] = refresh[h] \/ (h = g /\ refresh'[h] = Phone!NoRefresh)
      /\ refresh[g] = [at |-> "store", token |-> t] => refresh'[g] = Phone!NoRefresh
  BY <1>2, <1>3, <1>5, StoredEnds DEF PhoneTypes
<1>7. CASE g # generation
  <2>1. HasWipe /\ HasWipe' /\ family = 0 /\ family' = 0 /\ UNCHANGED <<family, restored>>
    <3>1. ~Current(1)
      BY <1>1, <1>4, <1>7 DEF Current
    <3>2. HasWipe /\ HasWipe'
      BY <1>2, <1>3, <1>4, <3>1, QueueShrinks
    <3> QED BY <1>2, <1>3, <1>7, <3>2 DEF QueueInOrder
  <2>2. keystore' \in Issued \cup {Phone!None} /\ (keystore' # Phone!None => Known(keystore'))
    BY <1>2, <1>3, <1>5, <1>7 DEF PhoneTypes, Circulating
  <2>3. Phone!StoredIsCurrent'
    <3>1. DOMAIN queue' # {}
      BY <2>1 DEF HasWipe
    <3>2. queue' # <<>>
      BY <3>1
    <3> QED BY <3>2 DEF Phone!StoredIsCurrent
  <2>4. PhoneBase'
    BY <1>2, <1>3, <1>6, <2>1, <2>2, <2>3, TaskBase
  <2>5. ~mishap' => Smooth'
    BY <1>2, <1>6, <2>1, TaskSmooth
  <2> QED BY <2>4, <2>5 DEF PhoneInv
<1>8. CASE g = generation
  <2>1. /\ keystore' = t /\ family' = t.family /\ restored' = "done" /\ Current(1)
    BY <1>1, <1>2, <1>4, <1>8 DEF Current
  <2>2. ~HasWipe /\ ~HasWipe'
    BY <1>2, <1>3, <2>1, QueueShrinks
  <2>3. PhoneBase'
    <3>1. Phone!StoredIsCurrent'
      BY <1>5, <2>1 DEF Phone!StoredIsCurrent
    <3>2. keystore' \in Issued \cup {Phone!None} /\ (keystore' # Phone!None => Known(keystore'))
      BY <1>5, <2>1
    <3> QED BY <1>2, <1>3, <1>6, <2>2, <3>1, <3>2, TaskBase
  <2>4. ASSUME ~mishap' PROVE Smooth'
    <3>1. Smooth
      BY <1>2, <2>4 DEF PhoneInv
    <3>2. /\ Len(queue) = 1 /\ Fresh(t)
          /\ \/ /\ t.n = 1 /\ family = 0 /\ logins = {}
                /\ \A h \in Phone!Generations : refresh[h].at \in InFlight =>
                     refresh[h].token.family # t.family
             \/ refresh[generation] = [at |-> "store", token |-> t]
      BY <1>1, <1>4, <2>1, <3>1 DEF Smooth, Writing
    <3>3. DOMAIN queue' = {}
      <4>1. queue' \in Seq(Entries) /\ Len(queue') = 0
        BY <1>2, <1>3, <3>2, Shrinks DEF PhoneTypes
      <4> QED BY <4>1
    <3>4. \A s : Fresh(s) => Fresh(s)'
      BY <1>2 DEF Fresh
    <3>5. generation \in Phone!Generations /\ refresh'[generation].at \notin InFlight
      <4>1. generation \in Phone!Generations
        BY <1>3 DEF PhoneTypes
      <4>2. CASE refresh[generation] = [at |-> "store", token |-> t]
        BY <1>6, <1>8, <4>1, <4>2, NoRefreshType DEF InFlight
      <4>3. CASE family = 0
        <5>1. refresh[generation].at \notin InFlight
          <6>1. refresh[generation].at \in InFlight => Known(refresh[generation].token)
            BY <1>3, <4>1 DEF Circulating
          <6>2. Known(refresh[generation].token) => refresh[generation].token.family # 0
            BY PhoneNumbers DEF Known, Issued
          <6> QED BY <3>1, <4>3, <6>1, <6>2 DEF Smooth, Refreshing
        <5> QED BY <1>6, <4>1, <5>1, NoRefreshType DEF InFlight
      <4> QED BY <3>2, <4>1, <4>2, <4>3
    <3>6. \A h \in Phone!Generations : refresh'[h].at \in InFlight => refresh'[h] = refresh[h] /\ h # generation
      BY <1>6, <3>5, NoRefreshType DEF InFlight
    <3>7. Calm'
      BY <1>2, <1>6, <2>1, <3>1, NoRefreshType DEF Smooth, Calm
    <3>8. Kept'
      BY <1>5, <2>1, <2>2 DEF Kept
    <3>9. logins = {}
      BY <1>4, <2>1, <3>1 DEF Smooth, OneSignIn
    <3>10. OneSignIn'
      BY <1>2, <3>9 DEF OneSignIn
    <3>11. Refreshing'
      <4>1. \A h \in Phone!Generations : refresh'[h].at \in {"sent", "ok", "store"} =>
           refresh'[h] = refresh[h]
        BY <3>6 DEF InFlight
      <4> QED BY <1>2, <3>1, <3>4, <3>5, <3>6, <4>1 DEF Smooth, Refreshing
    <3>12. Reading'
      <4>1. \A h \in Phone!Generations : refresh'[h].at \in InFlight =>
           refresh'[h].token.family # t.family
        <5>1. CASE refresh[generation] = [at |-> "store", token |-> t]
          <6>1. refresh[generation].at \in InFlight /\ refresh[generation].token = t
            BY <5>1 DEF InFlight
          <6> QED BY <3>1, <3>5, <3>6, <6>1 DEF Smooth, Refreshing
        <5>2. CASE \A h \in Phone!Generations : refresh[h].at \in InFlight =>
             refresh[h].token.family # t.family
          BY <3>6, <5>2
        <5> QED BY <3>2, <5>1, <5>2
      <4>2. \A h \in Phone!Generations \ {generation} : refresh'[h].at # "read"
        <5>1. \A h \in Phone!Generations \ {generation} : refresh[h].at # "read"
          BY <1>4, <2>1, <2>2, <3>1 DEF Smooth, Reading
        <5> QED BY <1>6, <5>1, NoRefreshType
      <4> QED BY <1>2, <2>1, <3>2, <3>4, <4>1, <4>2 DEF Reading
    <3>13. Writing'
      BY <3>3 DEF Writing
    <3> QED BY <3>7, <3>8, <3>10, <3>11, <3>12, <3>13 DEF Smooth
  <2> QED BY <2>3, <2>4 DEF PhoneInv
<1> QED BY <1>7, <1>8

-----------------------------------------------------------------------------
\* A sign-in is written to the keystore in a generation of its own.
LEMMA StartedKeeps ==
  ASSUME PhoneAssumption, PhoneInv, NEW f \in Phone!SignIns, Phone!Start(f)
  PROVE  PhoneInv'
<1>1. /\ Phone!Prompt /\ f \in logins /\ logins' = logins \ {f}
      /\ generation' \in Phone!Generations /\ generation' = generation + 1
      /\ queue' = Append(queue, Phone!Write(Phone!Token(f, 1), generation'))
      /\ UNCHANGED <<head, ended, reused, family, restored, keystore, refresh, straying, mishap>>
  BY DEF Phone!Start
<1>2. PhoneBase /\ PhoneTypes /\ Circulating
  BY DEF PhoneInv, PhoneBase
<1>3. PICK t : t = Phone!Token(f, 1)
  OBVIOUS
<1>4. t \in Issued /\ Known(t) /\ t.n = 1 /\ t.family = f /\ f # 0
  BY <1>1, <1>2, <1>3, PhoneNumbers DEF Phone!Token, Issued, Known, Circulating
<1>5. PICK e : e = Phone!Write(t, generation')
  OBVIOUS
<1>6. e \in Entries /\ e.do = "write" /\ e.token = t /\ e.gen = generation'
  BY <1>1, <1>4, <1>5 DEF Phone!Write, Entries
<1>7. queue = <<>> /\ \A g \in Phone!Generations : refresh[g].at # "read"
  BY <1>1 DEF Phone!Prompt
<1>8. /\ queue' \in Seq(Entries) /\ queue' # <<>> /\ Len(queue') = 1 /\ DOMAIN queue' = {1}
      /\ queue'[1] = e
  BY <1>1, <1>3, <1>5, <1>6, <1>7
<1>9. generation \in Int /\ generation' > generation /\ Phone!Generations \subseteq Int
  BY <1>1, <1>2, PhoneNumbers DEF PhoneTypes
<1>10. \A g \in Phone!Generations : g >= generation' => refresh[g] = Phone!NoRefresh
  <2>1. \A g \in Phone!Generations : g >= generation' => g > generation
    BY <1>1, <1>9
  <2> QED BY <1>2, <2>1 DEF Circulating
<1>11. ~HasWipe /\ ~HasWipe'
  <2>1. DOMAIN queue = {}
    BY <1>7
  <2> QED BY <1>6, <1>8, <2>1 DEF HasWipe
<1>12. PhoneBase'
  <2>1. PhoneTypes'
    BY <1>1, <1>2, <1>8 DEF PhoneTypes
  <2>2. Circulating'
    <3>1. \A s : Known(s) => Known(s)'
      BY <1>1 DEF Known
    <3>2. \A i \in DOMAIN queue' : queue'[i].do = "write" => Known(queue'[i].token)
      BY <1>4, <1>6, <1>8
    <3>3. (keystore # Phone!None => Known(keystore))' /\ (\A g \in logins : head[g] # 0)'
      BY <1>1, <1>2, <3>1 DEF Circulating
    <3>4. \A g \in Phone!Generations : refresh'[g].at \in InFlight => Known(refresh'[g].token)
      BY <1>1, <1>2 DEF Circulating
    <3>5. \A g \in Phone!Generations : g > generation' => refresh'[g] = Phone!NoRefresh
      <4>1. \A g \in Phone!Generations : g > generation' => g >= generation'
        BY <1>1, <1>9
      <4> QED BY <1>1, <1>10, <4>1
    <3> QED BY <3>1, <3>2, <3>3, <3>4, <3>5 DEF Circulating
  <2>3. QueueInOrder'
    <3>1. \A i \in DOMAIN queue' : i = 1 /\ queue'[i] = e
      BY <1>8
    <3>2. e.gen <= generation' /\ generation' \in Int
      BY <1>6, <1>9, <1>1, <1>2 DEF PhoneTypes
    <3> QED BY <1>6, <1>11, <3>1, <3>2 DEF QueueInOrder
  <2>4. Phone!StoredIsCurrent'
    BY <1>8 DEF Phone!StoredIsCurrent
  <2> QED BY <2>1, <2>2, <2>3, <2>4 DEF PhoneBase
<1>13. ASSUME ~mishap' PROVE Smooth'
  <2>1. Smooth
    BY <1>1, <1>13 DEF PhoneInv
  <2>2. /\ Fresh(t) /\ logins = {f} /\ family = 0
        /\ \A g \in Phone!Generations : refresh[g].at \in InFlight => refresh[g].token.family # f
    BY <1>1, <1>3, <2>1 DEF Smooth, OneSignIn
  <2>3. keystore = Phone!None /\ logins' = {}
    BY <1>1, <1>11, <2>1, <2>2 DEF Smooth, Kept
  <2>4. Calm' /\ Kept' /\ OneSignIn'
    BY <1>1, <1>11, <2>1, <2>2, <2>3 DEF Smooth, Calm, Kept, OneSignIn
  <2>5. refresh'[generation'].at \notin InFlight
    BY <1>1, <1>9, <1>10, NoRefreshType DEF InFlight
  <2>6. Refreshing'
    BY <1>1, <2>1, <2>5 DEF Smooth, Refreshing, Fresh
  <2>7. Reading'
    <3>1. \A s : Known(s) => s.family # Phone!None.family
      BY PhoneNumbers DEF Known, Issued
    <3>2. \A g \in Phone!Generations : refresh[g].at \in InFlight =>
         refresh[g].token.family # Phone!None.family
      BY <1>2, <3>1 DEF Circulating
    <3> QED BY <1>1, <1>7, <2>3, <3>2 DEF Reading
  <2>8. Writing'
    <3>1. Fresh(t)'
      BY <1>1, <2>2 DEF Fresh
    <3> QED BY <1>1, <1>4, <1>6, <1>8, <2>2, <2>3, <3>1 DEF Writing
  <2> QED BY <2>4, <2>6, <2>7, <2>8 DEF Smooth
<1> QED BY <1>12, <1>13 DEF PhoneInv

\* A refresh of this generation has its answer written.
LEMMA RotatedKeeps ==
  ASSUME PhoneAssumption, PhoneInv, NEW g \in Phone!Generations, Phone!Rotated(g)
  PROVE  PhoneInv'
<1>1. PhoneBase /\ PhoneTypes /\ Circulating /\ QueueInOrder
  BY DEF PhoneInv, PhoneBase
<1>2. CASE g # generation
  <2>1. /\ refresh' = [refresh EXCEPT ![g] = Phone!NoRefresh]
        /\ UNCHANGED <<head, ended, logins, reused, generation, family, restored, keystore, queue,
                       straying, mishap>>
    BY <1>2 DEF Phone!Rotated, Phone!Finish, Phone!server, Phone!phone
  <2>2. refresh' \in [Phone!Generations -> Refreshes]
    BY <1>1, <2>1, NoRefreshType DEF PhoneTypes
  <2>3. \A h \in Phone!Generations : refresh'[h] = refresh[h] \/ (refresh'[h] = Phone!NoRefresh /\ h # generation)
    BY <1>1, <1>2, <2>1 DEF PhoneTypes
  <2> QED BY <2>1, <2>2, <2>3, SessionStays
<1>3. CASE g = generation
  <2>1. PICK t, e : t = refresh[g].token /\ e = Phone!Write(t, g)
    OBVIOUS
  <2>2. /\ refresh[g].at = "ok" /\ queue' = Append(queue, e)
        /\ refresh' = [refresh EXCEPT ![g].at = "store"]
        /\ UNCHANGED <<head, ended, logins, reused, generation, family, restored, keystore,
                       straying, mishap>>
    BY <1>3, <2>1 DEF Phone!Rotated, Phone!server, Phone!phone
  <2>3. Known(t) /\ t \in Issued /\ t.family # 0
    <3>1. Known(t)
      BY <1>1, <2>1, <2>2 DEF Circulating, InFlight
    <3> QED BY <3>1, PhoneNumbers DEF Known, Issued
  <2>4. e \in Entries /\ e.do = "write" /\ e.token = t /\ e.gen = generation
    BY <1>3, <2>1, <2>3 DEF Phone!Write, Entries
  <2>5. PICK n : n = Len(queue)
    OBVIOUS
  <2>6. /\ queue' \in Seq(Entries) /\ queue' # <<>> /\ n \in Nat /\ Len(queue') = n + 1
        /\ DOMAIN queue = 1..n /\ DOMAIN queue' = 1..(n + 1)
        /\ \A i \in DOMAIN queue' : IF i = n + 1 THEN queue'[i] = e
                                    ELSE i \in DOMAIN queue /\ queue'[i] = queue[i]
        /\ \A i \in DOMAIN queue : i \in DOMAIN queue' /\ i # n + 1
    BY <1>1, <2>2, <2>4, <2>5, Grows DEF PhoneTypes
  <2>7. /\ refresh' \in [Phone!Generations -> Refreshes]
        /\ refresh'[g] = [at |-> "store", token |-> t]
        /\ \A h \in Phone!Generations : h # g => refresh'[h] = refresh[h]
    <3>1. refresh[g] = [at |-> "ok", token |-> t]
      BY <1>1, <2>1, <2>2 DEF PhoneTypes, Refreshes
    <3>2. [at |-> "store", token |-> t] \in Refreshes
      BY <2>3 DEF Refreshes, Moments
    <3>3. refresh' = [refresh EXCEPT ![g] = [at |-> "store", token |-> t]]
      <4>1. [refresh[g] EXCEPT !.at = "store"] = [at |-> "store", token |-> t]
        BY <3>1
      <4> QED BY <2>2, <4>1
    <3> QED BY <1>1, <3>2, <3>3 DEF PhoneTypes
  <2>8. HasWipe' <=> HasWipe
    <3>1. HasWipe' => HasWipe
      BY <2>4, <2>6 DEF HasWipe
    <3>2. HasWipe => HasWipe'
      BY <2>6 DEF HasWipe
    <3> QED BY <3>1, <3>2
  <2>9. PhoneBase'
    <3>1. PhoneTypes'
      BY <1>1, <2>2, <2>6, <2>7 DEF PhoneTypes
    <3>2. Circulating'
      <4>1. \A s : Known(s) => Known(s)'
        BY <2>2 DEF Known
      <4>2. \A i \in DOMAIN queue' : queue'[i].do = "write" => Known(queue'[i].token)
        BY <1>1, <2>3, <2>4, <2>6 DEF Circulating
      <4>3. (keystore # Phone!None => Known(keystore))' /\ (\A f \in logins : head[f] # 0)'
        BY <1>1, <2>2, <4>1 DEF Circulating
      <4>4. \A h \in Phone!Generations : refresh'[h].at \in InFlight => Known(refresh'[h].token)
        BY <1>1, <2>3, <2>7 DEF Circulating
      <4>5. \A h \in Phone!Generations : h > generation => refresh'[h] = Phone!NoRefresh
        <5>1. ~(generation > generation)
          BY <1>1, PhoneNumbers DEF PhoneTypes
        <5> QED BY <1>1, <1>3, <2>7, <5>1 DEF Circulating
      <4> QED BY <2>2, <4>1, <4>2, <4>3, <4>4, <4>5 DEF Circulating
    <3>3. QueueInOrder'
      <4>1. \A i \in DOMAIN queue' : queue'[i].gen <= generation
        <5>1. generation <= generation
          BY <1>1, PhoneNumbers DEF PhoneTypes
        <5> QED BY <1>1, <2>4, <2>6, <5>1 DEF QueueInOrder
      <4>2. ASSUME NEW i \in DOMAIN queue', NEW j \in DOMAIN queue', i < j, queue'[j].do # "write"
            PROVE  ~Current(i)'
        <5>1. j # n + 1
          BY <2>4, <2>6, <4>2
        <5>2. i # n + 1
          BY <2>6, <4>2
        <5>3. ~Current(i)
          BY <1>1, <2>6, <4>2, <5>1, <5>2 DEF QueueInOrder
        <5> QED BY <2>2, <2>6, <5>2, <5>3 DEF Current
      <4>3. ASSUME NEW i \in DOMAIN queue', queue'[i].do = "write", queue'[i].gen # generation
            PROVE  \E j \in DOMAIN queue' : i < j /\ queue'[j].do # "write"
        <5>1. i # n + 1
          BY <2>4, <2>6, <4>3
        <5>2. PICK j \in DOMAIN queue : i < j /\ queue[j].do # "write"
          BY <1>1, <2>6, <4>3, <5>1 DEF QueueInOrder
        <5> QED BY <2>6, <5>2
      <4>4. HasWipe' => family' = 0
        BY <1>1, <2>2, <2>8 DEF QueueInOrder
      <4> QED BY <2>2, <4>1, <4>2, <4>3, <4>4 DEF QueueInOrder
    <3>4. Phone!StoredIsCurrent'
      BY <2>6 DEF Phone!StoredIsCurrent
    <3> QED BY <3>1, <3>2, <3>3, <3>4 DEF PhoneBase
  <2>10. ASSUME ~mishap' PROVE Smooth'
    <3>1. Smooth
      BY <2>2, <2>10 DEF PhoneInv
    <3>2. ~HasWipe /\ family = t.family /\ Fresh(t)
      BY <1>3, <2>1, <2>2, <3>1 DEF Smooth, Refreshing, InFlight
    <3>3. \A i \in DOMAIN queue : ~Current(i)
      <4>1. ASSUME NEW i \in DOMAIN queue, Current(i) PROVE FALSE
        <5>1. family = 0 \/ refresh[generation].at = "store"
          BY <3>1, <4>1 DEF Smooth, Writing
        <5> QED BY <1>3, <2>2, <2>3, <3>2, <5>1
      <4> QED BY <4>1
    <3>4. n = 0
      <4>1. ASSUME NEW i \in DOMAIN queue PROVE FALSE
        <5>1. queue[i].do = "write"
          BY <3>2 DEF HasWipe
        <5>2. queue[i].gen # generation
          BY <3>3, <5>1 DEF Current
        <5>3. \E j \in DOMAIN queue : queue[j].do # "write"
          BY <1>1, <5>1, <5>2 DEF QueueInOrder
        <5> QED BY <3>2, <5>3 DEF HasWipe
      <4>2. DOMAIN queue = {}
        BY <4>1
      <4> QED BY <2>6, <4>2
    <3>5. DOMAIN queue' = {1} /\ queue'[1] = e /\ Len(queue') = 1
      BY <2>6, <3>4
    <3>6. \A s : Fresh(s) => Fresh(s)'
      BY <2>2 DEF Fresh
    <3>7. \A h \in Phone!Generations : /\ refresh'[h].token = refresh[h].token
                                       /\ refresh'[h].at \in InFlight <=> refresh[h].at \in InFlight
                                       /\ refresh'[h].at = "net" <=> refresh[h].at = "net"
                                       /\ refresh'[h].at = "read" <=> refresh[h].at = "read"
      BY <2>1, <2>2, <2>7 DEF InFlight
    <3>8. Calm'
      BY <2>2, <3>1, <3>7 DEF Smooth, Calm
    <3>9. Kept'
      BY <2>2, <2>8, <3>1, <3>2 DEF Smooth, Kept
    <3>10. logins = {}
      BY <2>3, <3>1, <3>2 DEF Smooth, OneSignIn
    <3>11. OneSignIn'
      BY <2>2, <3>10 DEF OneSignIn
    <3>12. Refreshing'
      <4>1. \A h \in Phone!Generations : refresh'[h].at \in {"sent", "ok", "store"} =>
           refresh[h].at \in {"sent", "ok", "store"}
        BY <2>2, <2>7
      <4> QED BY <1>3, <2>2, <2>8, <3>1, <3>6, <3>7, <4>1 DEF Smooth, Refreshing
    <3>13. Reading'
      <4>1. refresh'[generation].at \in InFlight
        BY <1>3, <2>7 DEF InFlight
      <4>2. keystore # Phone!None
        BY <2>3, <3>1, <3>2, PhoneNumbers DEF Smooth, Kept
      <4>3. \A h \in Phone!Generations \ {generation} :
              (refresh[h].at \in InFlight => refresh[h].token.family # keystore.family) /\ refresh[h].at # "read"
        BY <3>1, <3>2, <4>2 DEF Smooth, Reading
      <4> QED BY <2>2, <3>7, <4>1, <4>3 DEF Reading
    <3>14. Writing'
      BY <1>3, <2>2, <2>4, <2>7, <3>2, <3>5, <3>6 DEF Writing
    <3> QED BY <3>8, <3>9, <3>11, <3>12, <3>13, <3>14 DEF Smooth
  <2> QED BY <2>9, <2>10 DEF PhoneInv
<1> QED BY <1>2, <1>3

\* The server rotates what it holds to be the live token of its family.
LEMMA AnswerKeeps ==
  ASSUME PhoneAssumption, PhoneInv, NEW g \in Phone!Generations, Phone!Answer(g)
  PROVE  PhoneInv'
<1>1. PhoneBase /\ PhoneTypes /\ Circulating
  BY DEF PhoneInv, PhoneBase
<1>2. PICK t : t = refresh[g].token
  OBVIOUS
<1>3. /\ refresh[g].at = "sent" /\ Phone!Present(t)
      /\ refresh' = [refresh EXCEPT ![g] =
           IF Phone!Rotates(t) THEN [at |-> "ok", token |-> Phone!Token(t.family, t.n + 1)]
           ELSE [@ EXCEPT !.at = "no"]]
      /\ UNCHANGED <<generation, family, restored, keystore, queue, straying, mishap>>
  BY <1>2 DEF Phone!Answer, Phone!phone
<1>4. Known(t) /\ t \in Issued /\ t.family \in Phone!SignIns /\ t.n \in Nat /\ refresh[g].at \in InFlight
  <2>1. refresh[g].at \in InFlight
    BY <1>3 DEF InFlight
  <2>2. Known(t)
    BY <1>1, <1>2, <2>1 DEF Circulating
  <2> QED BY <2>1, <2>2 DEF Known, Issued
<1>5. PICK s : s = IF Phone!Rotates(t) THEN Phone!Token(t.family, t.n + 1) ELSE t
  OBVIOUS
<1>6. s \in Issued /\ s.family = t.family
  BY <1>4, <1>5 DEF Phone!Token, Issued
<1>7. /\ refresh' \in [Phone!Generations -> Refreshes]
      /\ refresh'[g] = [at |-> IF Phone!Rotates(t) THEN "ok" ELSE "no", token |-> s]
      /\ \A h \in Phone!Generations : h # g => refresh'[h] = refresh[h]
  <2>1. refresh[g] = [at |-> "sent", token |-> t]
    BY <1>1, <1>2, <1>3 DEF PhoneTypes, Refreshes
  <2>2. [at |-> "ok", token |-> s] \in Refreshes /\ [at |-> "no", token |-> s] \in Refreshes
    BY <1>6 DEF Refreshes, Moments
  <2>3. refresh' = [refresh EXCEPT ![g] = [at |-> IF Phone!Rotates(t) THEN "ok" ELSE "no", token |-> s]]
    <3>1. [refresh[g] EXCEPT !.at = "no"] = [at |-> "no", token |-> t]
      BY <2>1
    <3>2. CASE Phone!Rotates(t)
      BY <1>3, <1>5, <3>2
    <3>3. CASE ~Phone!Rotates(t)
      BY <1>3, <1>5, <3>1, <3>3
    <3> QED BY <3>2, <3>3
  <2> QED BY <1>1, <2>2, <2>3 DEF PhoneTypes
<1>8. /\ head' \in [Phone!SignIns -> Nat] /\ \A f \in Phone!SignIns : head[f] # 0 => head'[f] # 0
      /\ \A f \in Phone!SignIns : f # t.family => head'[f] = head[f]
      /\ Phone!Rotates(t) => head'[t.family] = t.n + 1
      /\ ended \subseteq ended' /\ logins' = logins /\ (~Phone!Rotates(t) => t.family \in ended')
  BY <1>1, <1>3, <1>4 DEF Phone!Present, PhoneTypes, Phone!Rotates
<1>9. /\ \A h \in Phone!Generations : refresh'[h].at \in InFlight <=> refresh[h].at \in InFlight
      /\ \A h \in Phone!Generations : refresh'[h].token.family = refresh[h].token.family
      /\ \A h \in Phone!Generations : refresh'[h].at = "read" <=> refresh[h].at = "read"
      /\ \A h \in Phone!Generations : refresh'[h].at = "net" <=> refresh[h].at = "net"
  BY <1>2, <1>3, <1>4, <1>6, <1>7 DEF InFlight
<1>10. PhoneBase'
  <2>1. \A h \in Phone!Generations : refresh'[h].at \in InFlight => Known(refresh'[h].token)
    BY <1>1, <1>4, <1>6, <1>7 DEF Circulating, Known
  <2>2. \A h \in Phone!Generations : h > generation => refresh'[h] = Phone!NoRefresh
    BY <1>1, <1>3, <1>7, NoRefreshType DEF Circulating
  <2>3. logins' \subseteq Phone!SignIns /\ \A f \in logins' : head'[f] # 0
    BY <1>1, <1>8 DEF PhoneTypes, Circulating
  <2>4. mishap' \in BOOLEAN
    BY <1>1, <1>3 DEF PhoneTypes
  <2> QED BY <1>1, <1>3, <1>7, <1>8, <2>1, <2>2, <2>3, <2>4, BaseStays
<1>11. ASSUME ~mishap' PROVE Smooth'
  <2>1. Smooth
    BY <1>3, <1>11 DEF PhoneInv
  <2>2. ASSUME NEW r, Known(r), r.family # t.family, Fresh(r) PROVE Fresh(r)'
    <3>1. r.family \in Phone!SignIns
      BY <2>2 DEF Known, Issued
    <3> QED BY <1>8, <2>2, <3>1 DEF Fresh
  <2>3. Fresh(t)
    BY <1>2, <1>3, <2>1 DEF Smooth, Refreshing
  <2>4. \A h \in Phone!Generations : h # g /\ refresh[h].at \in InFlight =>
       refresh[h].token.family # t.family
    BY <1>2, <1>4, <2>1 DEF Smooth, Refreshing
  <2>5. (HasWipe' <=> HasWipe) /\ \A i \in DOMAIN queue : Current(i)' <=> Current(i)
    BY <1>3 DEF HasWipe, Current
  <2>6. generation \in Phone!Generations
    BY <1>1 DEF PhoneTypes
  <2>7. Calm'
    <3>1. reused' = reused
      BY <1>3, <2>3 DEF Phone!Present, Phone!Rotates, Fresh
    <3> QED BY <1>3, <1>9, <2>1, <3>1 DEF Smooth, Calm
  <2>8. Kept'
    BY <1>3, <2>1, <2>5 DEF Smooth, Kept
  <2>9. OneSignIn'
    <3>1. ASSUME NEW f \in logins
          PROVE  /\ Fresh(Phone!Token(f, 1))' /\ logins = {f} /\ family = 0
                 /\ \A i \in DOMAIN queue : ~Current(i)
                 /\ \A h \in Phone!Generations : refresh[h].at \in InFlight =>
                      refresh[h].token.family # f
      <4>1. /\ Fresh(Phone!Token(f, 1)) /\ logins = {f} /\ family = 0
            /\ \A i \in DOMAIN queue : ~Current(i)
            /\ \A h \in Phone!Generations : refresh[h].at \in InFlight => refresh[h].token.family # f
        BY <2>1 DEF Smooth, OneSignIn
      <4>2. Known(Phone!Token(f, 1)) /\ Phone!Token(f, 1).family = f
        BY <1>1 DEF Known, Phone!Token, Issued, PhoneTypes, Circulating
      <4>3. f # t.family
        BY <1>2, <1>4, <4>1
      <4> QED BY <2>2, <4>1, <4>2, <4>3
    <3> QED BY <1>3, <1>8, <1>9, <2>5, <3>1 DEF OneSignIn
  <2>10. Refreshing'
    <3>1. ASSUME NEW h \in Phone!Generations, refresh'[h].at \in {"sent", "ok", "store"}
          PROVE  Fresh(refresh[h].token)'
      <4>1. CASE h = g
        <5>1. Phone!Rotates(t) /\ refresh'[g].token = s /\ s = Phone!Token(t.family, t.n + 1)
          BY <1>5, <1>7, <3>1, <4>1
        <5> QED BY <1>8, <4>1, <5>1 DEF Fresh, Phone!Token
      <4>2. CASE h # g
        <5>1. refresh'[h] = refresh[h] /\ refresh[h].at \in InFlight
          BY <1>7, <3>1, <4>2 DEF InFlight
        <5>2. Known(refresh[h].token) /\ Fresh(refresh[h].token)
          BY <1>1, <2>1, <3>1, <5>1 DEF Circulating, Smooth, Refreshing
        <5>3. Fresh(refresh'[h].token) /\ refresh'[h].token = refresh[h].token
          BY <5>1, <5>2
        <5>4. refresh[h].token.family # t.family
          BY <2>4, <4>2, <5>1
        <5>5. \A r : Known(r) /\ r.family # t.family /\ Fresh(r) => Fresh(r)'
          BY <2>2
        <5> QED BY <5>2, <5>3, <5>4, <5>5 DEF Fresh
      <4> QED BY <4>1, <4>2
    <3> QED BY <1>3, <1>9, <2>1, <2>5, <2>6, <3>1 DEF Smooth, Refreshing
  <2>11. Reading'
    <3>1. ASSUME ~HasWipe, keystore # Phone!None, refresh'[generation].at \notin InFlight
          PROVE  Fresh(keystore)'
      <4>1. Known(keystore) /\ Fresh(keystore) /\ g # generation
        BY <1>1, <1>4, <1>9, <2>1, <2>6, <3>1 DEF Circulating, Smooth, Reading
      <4>2. keystore.family # t.family
        BY <1>2, <1>4, <2>1, <3>1, <4>1 DEF Smooth, Reading
      <4> QED BY <1>3, <2>2, <4>1, <4>2 DEF Fresh
    <3> QED BY <1>3, <1>9, <2>1, <2>5, <3>1 DEF Smooth, Reading
  <2>12. Writing'
    <3>1. ASSUME NEW i \in DOMAIN queue, Current(i)
          PROVE  /\ Len(queue) = 1 /\ Fresh(queue[1].token)'
                 /\ \/ /\ queue[1].token.n = 1 /\ family = 0 /\ logins = {}
                       /\ \A h \in Phone!Generations : refresh'[h].at \in InFlight =>
                            refresh'[h].token.family # queue[1].token.family
                    \/ refresh'[generation] = [at |-> "store", token |-> queue[1].token]
      <4>1. /\ Len(queue) = 1 /\ Fresh(queue[1].token)
            /\ \/ /\ queue[1].token.n = 1 /\ family = 0 /\ logins = {}
                  /\ \A h \in Phone!Generations : refresh[h].at \in InFlight =>
                       refresh[h].token.family # queue[1].token.family
               \/ refresh[generation] = [at |-> "store", token |-> queue[1].token]
        BY <2>1, <3>1 DEF Smooth, Writing
      <4>2. Known(queue[1].token)
        <5>1. i = 1
          BY <1>1, <4>1 DEF PhoneTypes
        <5> QED BY <1>1, <3>1, <5>1 DEF Circulating, Current
      <4>3. queue[1].token.family # t.family /\ (refresh[generation].at = "store" => g # generation)
        BY <1>2, <1>3, <1>4, <2>4, <2>6, <4>1 DEF InFlight
      <4>4. Fresh(queue[1].token)'
        <5>1. \A r : Known(r) /\ r.family # t.family /\ Fresh(r) => Fresh(r)'
          BY <2>2
        <5> QED BY <1>3, <4>1, <4>2, <4>3, <5>1 DEF Fresh
      <4> QED BY <1>7, <1>9, <2>6, <4>1, <4>3, <4>4
    <3> QED BY <1>3, <1>8, <2>5, <3>1 DEF Writing
  <2> QED BY <2>7, <2>8, <2>9, <2>10, <2>11, <2>12 DEF Smooth
<1> QED BY <1>10, <1>11 DEF PhoneInv

-----------------------------------------------------------------------------
\* Read in a generation of its own, the token is the live one.
LEMMA ReadKeeps ==
  ASSUME PhoneAssumption, PhoneInv, NEW g \in Phone!Generations, Phone!Read(g)
  PROVE  PhoneInv'
<1>1. PhoneBase /\ PhoneTypes /\ Circulating
  BY DEF PhoneInv, PhoneBase
<1>2. /\ refresh[g].at = "read" /\ mishap' = (mishap \/ HasWipe)
      /\ UNCHANGED <<head, ended, logins, reused, keystore, straying>>
  BY DEF Phone!Read, Phone!server, HasWipe
<1>3. mishap' \in BOOLEAN /\ (mishap => mishap') /\ (~mishap' => ~mishap /\ ~HasWipe)
  BY <1>1, <1>2 DEF PhoneTypes
<1>4. CASE keystore = Phone!None
  <2>1. /\ Phone!Clear("clear") /\ refresh' = [refresh EXCEPT ![g] = Phone!NoRefresh]
        /\ restored' = restored \/ restored' = "done"
    BY <1>4 DEF Phone!Read, Phone!Finish
  <2>2. /\ refresh' \in [Phone!Generations -> Refreshes]
        /\ \A h \in Phone!Generations : refresh'[h] = refresh[h] \/ refresh'[h] = Phone!NoRefresh
    BY <1>1, <2>1, NoRefreshType DEF PhoneTypes
  <2> QED BY <1>2, <1>3, <2>1, <2>2, Clears
<1>5. CASE keystore # Phone!None
  <2>1. /\ refresh' = [refresh EXCEPT ![g] = [at |-> "sent", token |-> keystore]]
        /\ UNCHANGED <<generation, family, restored, queue>>
    BY <1>5 DEF Phone!Read, Phone!phone
  <2>2. Known(keystore) /\ keystore \in Issued /\ keystore.family # 0
    <3>1. Known(keystore)
      BY <1>1, <1>5 DEF Circulating
    <3> QED BY <3>1, PhoneNumbers DEF Known, Issued
  <2>3. /\ refresh' \in [Phone!Generations -> Refreshes]
        /\ refresh'[g] = [at |-> "sent", token |-> keystore]
        /\ \A h \in Phone!Generations : h # g => refresh'[h] = refresh[h]
    <3>1. [at |-> "sent", token |-> keystore] \in Refreshes
      BY <2>2 DEF Refreshes, Moments
    <3> QED BY <1>1, <2>1, <3>1 DEF PhoneTypes
  <2>4. PhoneBase'
    <3>1. \A h \in Phone!Generations : refresh'[h].at \in InFlight => Known(refresh'[h].token)
      BY <1>1, <2>2, <2>3 DEF Circulating
    <3>2. \A h \in Phone!Generations : h > generation => refresh'[h] = Phone!NoRefresh
      BY <1>1, <1>2, <2>3, NoRefreshType DEF Circulating
    <3> QED BY <1>1, <1>2, <1>3, <2>1, <2>3, <3>1, <3>2, BaseStays DEF PhoneTypes, Circulating
  <2>5. ASSUME ~mishap' PROVE Smooth'
    <3>1. Smooth /\ ~HasWipe
      BY <1>3, <2>5 DEF PhoneInv
    <3>2. g = generation /\ Fresh(keystore)
      <4>1. g = generation
        BY <1>2, <1>5, <3>1 DEF Smooth, Reading
      <4> QED BY <1>2, <1>5, <3>1, <4>1 DEF Smooth, Reading, InFlight
    <3>3. family = keystore.family /\ family # 0
      BY <1>5, <2>2, <3>1 DEF Smooth, Kept
    <3>4. (HasWipe' <=> HasWipe) /\ \A i \in DOMAIN queue : Current(i)' <=> Current(i)
      BY <2>1 DEF HasWipe, Current
    <3>5. \A t : Fresh(t) => Fresh(t)'
      BY <1>2 DEF Fresh
    <3>6. Calm'
      BY <1>2, <2>1, <2>3, <3>1 DEF Smooth, Calm
    <3>7. Kept'
      BY <1>2, <2>1, <3>1, <3>4 DEF Smooth, Kept
    <3>8. OneSignIn'
      BY <1>2, <3>1, <3>3 DEF Smooth, OneSignIn
    <3>9. Refreshing'
      <4>1. \A h \in Phone!Generations : h # g /\ refresh[h].at \in InFlight =>
           refresh[h].token.family # keystore.family
        BY <3>1, <3>2 DEF Smooth, Reading
      <4>2. \A h \in Phone!Generations : refresh'[h].at \in {"sent", "ok", "store"} => Fresh(refresh'[h].token)
        BY <2>3, <3>1, <3>2 DEF Smooth, Refreshing
      <4>3. \A h, k \in Phone!Generations : h # k /\ refresh'[h].at \in InFlight /\ refresh'[k].at \in InFlight =>
              refresh'[h].token.family # refresh'[k].token.family
        BY <2>3, <3>1, <4>1 DEF Smooth, Refreshing
      <4> QED BY <2>1, <2>3, <3>1, <3>2, <3>3, <3>4, <3>5, <4>2, <4>3 DEF Refreshing
    <3>10. Reading'
      <4>1. refresh'[generation].at \in InFlight
        BY <2>3, <3>2 DEF InFlight
      <4> QED BY <1>2, <2>1, <2>3, <3>1, <3>2, <3>4, <4>1 DEF Smooth, Reading
    <3>11. Writing'
      <4>1. \A i \in DOMAIN queue : ~Current(i)
        <5>1. ASSUME NEW i \in DOMAIN queue, Current(i) PROVE FALSE
          <6>1. family = 0 \/ refresh[generation].at = "store"
            BY <3>1, <5>1 DEF Smooth, Writing
          <6> QED BY <1>2, <3>2, <3>3, <6>1
        <5> QED BY <5>1
      <4> QED BY <2>1, <3>4, <4>1 DEF Writing
    <3> QED BY <3>6, <3>7, <3>8, <3>9, <3>10, <3>11 DEF Smooth
  <2> QED BY <2>4, <2>5 DEF PhoneInv
<1> QED BY <1>4, <1>5

\* A sign-in begins a family nobody holds a token of.
LEMMA LoginKeeps ==
  ASSUME PhoneAssumption, PhoneInv, NEW f \in Phone!SignIns, Phone!Login(f)
  PROVE  PhoneInv'
<1>1. PhoneBase /\ PhoneTypes /\ Circulating
  BY DEF PhoneInv, PhoneBase
<1>2. /\ head[f] = 0 /\ family = 0 /\ ~Phone!SigningIn
      /\ head' = [head EXCEPT ![f] = 1] /\ logins' = logins \cup {f}
      /\ UNCHANGED <<ended, reused, generation, family, restored, keystore, queue, refresh,
                     straying, mishap>>
  BY DEF Phone!Login, Phone!phone
<1>3. /\ head' \in [Phone!SignIns -> Nat] /\ head'[f] = 1 /\ \A h \in Phone!SignIns : h # f =>
           head'[h] = head[h]
      /\ \A h \in Phone!SignIns : head[h] # 0 => head'[h] # 0
  BY <1>1, <1>2 DEF PhoneTypes
<1>4. ASSUME NEW t, Known(t) PROVE t.family # f /\ (Fresh(t) => Fresh(t)')
  <2>1. t.family \in Phone!SignIns /\ t.family # f
    BY <1>2, <1>4 DEF Known, Issued
  <2> QED BY <1>2, <1>3, <2>1 DEF Fresh
<1>5. \A g \in Phone!Generations : refresh[g].at \in InFlight => Known(refresh[g].token)
  BY <1>1 DEF Circulating
<1>6. PhoneBase'
  <2>1. logins' \subseteq Phone!SignIns /\ \A h \in logins' : head'[h] # 0
    BY <1>1, <1>2, <1>3 DEF PhoneTypes, Circulating
  <2>2. \A g \in Phone!Generations : g > generation => refresh'[g] = Phone!NoRefresh
    BY <1>1, <1>2 DEF Circulating
  <2> QED BY <1>1, <1>2, <1>3, <1>5, <2>1, <2>2, BaseStays DEF PhoneTypes
<1>7. ASSUME ~mishap' PROVE Smooth'
  <2>1. Smooth
    BY <1>2, <1>7 DEF PhoneInv
  <2>2. (HasWipe' <=> HasWipe) /\ \A i \in DOMAIN queue : Current(i)' <=> Current(i)
    BY <1>2 DEF HasWipe, Current
  <2>3. \A i \in DOMAIN queue : ~Current(i)
    <3>1. ASSUME NEW i \in DOMAIN queue, Current(i) PROVE FALSE
      <4>1. /\ Len(queue) = 1
            /\ queue[1].token.n = 1 \/ refresh[generation].at = "store"
        BY <2>1, <3>1 DEF Smooth, Writing
      <4>2. i = 1 /\ queue[1].do = "write"
        BY <1>1, <3>1, <4>1 DEF PhoneTypes, Current
      <4>3. refresh[generation].at = "store"
        BY <1>2, <3>1, <4>1, <4>2 DEF Phone!SigningIn
      <4>4. generation \in Phone!Generations /\ refresh[generation].at \in InFlight
        BY <1>1, <4>3 DEF PhoneTypes, InFlight
      <4>5. refresh[generation].token.family # 0
        BY <1>5, <4>4, PhoneNumbers DEF Known, Issued
      <4> QED BY <1>2, <2>1, <4>4, <4>5 DEF Smooth, Refreshing
    <3> QED BY <3>1
  <2>4. Calm' /\ Kept'
    BY <1>2, <2>1, <2>2 DEF Smooth, Calm, Kept
  <2>5. OneSignIn'
    <3>1. logins' = {f}
      BY <1>2 DEF Phone!SigningIn
    <3>2. Fresh(Phone!Token(f, 1))'
      BY <1>3 DEF Fresh, Phone!Token
    <3> QED BY <1>2, <1>4, <1>5, <2>2, <2>3, <3>1, <3>2 DEF OneSignIn
  <2>6. Refreshing'
    <3>1. \A g \in Phone!Generations : refresh[g].at \in {"sent", "ok", "store"} =>
         Fresh(refresh[g].token)'
      <4>1. ASSUME NEW g \in Phone!Generations, refresh[g].at \in {"sent", "ok", "store"}
            PROVE  Fresh(refresh[g].token)'
        <5>1. Known(refresh[g].token) /\ Fresh(refresh[g].token)
          BY <1>5, <2>1, <4>1 DEF Smooth, Refreshing, InFlight
        <5>2. \A t : Known(t) /\ Fresh(t) => Fresh(t)'
          BY <1>4
        <5> QED BY <1>2, <5>1, <5>2 DEF Fresh
      <4> QED BY <1>2, <4>1 DEF Fresh
    <3> QED BY <1>2, <2>1, <2>2, <3>1 DEF Smooth, Refreshing, Fresh
  <2>7. Reading'
    <3>1. keystore # Phone!None /\ Fresh(keystore) => Fresh(keystore)'
      <4>1. \A t : Known(t) /\ Fresh(t) => Fresh(t)'
        BY <1>4
      <4> QED BY <1>1, <1>2, <4>1 DEF Circulating, Fresh
    <3> QED BY <1>2, <2>1, <2>2, <3>1 DEF Smooth, Reading
  <2>8. Writing'
    BY <1>2, <2>2, <2>3 DEF Writing
  <2> QED BY <2>4, <2>5, <2>6, <2>7, <2>8 DEF Smooth
<1> QED BY <1>6, <1>7 DEF PhoneInv

\* The app starts again with nothing but the keystore.
LEMMA KillKeepsPhone ==
  ASSUME PhoneAssumption, PhoneInv, Phone!Kill
  PROVE  PhoneInv'
<1>1. PhoneBase /\ PhoneTypes /\ Circulating
  BY DEF PhoneInv, PhoneBase
<1>2. /\ mishap' = TRUE /\ generation' \in Phone!Generations /\ generation' = generation + 1
      /\ family' = 0 /\ queue' = <<>> /\ logins' = {} /\ UNCHANGED head
      /\ \/ keystore' = keystore
         \/ /\ queue # <<>> /\ Head(queue) = Phone!Write(Head(queue).token, generation)
            /\ keystore' = Head(queue).token
      /\ restored' = IF keystore' = Phone!None THEN "done" ELSE "loading"
      /\ refresh' = [g \in Phone!Generations |->
           IF g = generation' /\ keystore' # Phone!None
           THEN [Phone!NoRefresh EXCEPT !.at = "read"] ELSE Phone!NoRefresh]
  BY DEF Phone!Kill
<1>3. keystore' = Phone!None \/ Known(keystore')
  <2>1. CASE keystore' = keystore
    BY <1>1, <2>1 DEF Circulating
  <2>2. CASE /\ queue # <<>> /\ Head(queue) = Phone!Write(Head(queue).token, generation)
             /\ keystore' = Head(queue).token
    <3>1. Head(queue) = queue[1] /\ 1 \in DOMAIN queue
      BY <1>1, <2>2 DEF PhoneTypes
    <3>2. queue[1].do = "write"
      BY <2>2, <3>1 DEF Phone!Write
    <3> QED BY <1>1, <2>2, <3>1, <3>2 DEF Circulating
  <2> QED BY <1>2, <2>1, <2>2
<1>4. DOMAIN queue' = {} /\ queue' \in Seq(Entries)
  BY <1>2
<1>5. /\ refresh' \in [Phone!Generations -> Refreshes]
      /\ \A g \in Phone!Generations : refresh'[g].at \notin InFlight
  BY <1>2, NoRefreshType DEF InFlight
<1>6. PhoneTypes'
  BY <1>1, <1>2, <1>3, <1>4, <1>5 DEF PhoneTypes, Known
<1>7. Circulating'
  <2>1. \A g \in Phone!Generations : g > generation' => refresh'[g] = Phone!NoRefresh
    BY <1>1, <1>2, PhoneNumbers DEF PhoneTypes
  <2>2. keystore' = Phone!None \/ Known(keystore)'
    BY <1>2, <1>3 DEF Known
  <2> QED BY <1>2, <1>4, <1>5, <2>1, <2>2 DEF Circulating
<1>8. QueueInOrder' /\ Phone!StoredIsCurrent'
  BY <1>2, <1>4 DEF QueueInOrder, HasWipe, Phone!StoredIsCurrent
<1> QED BY <1>2, <1>6, <1>7, <1>8 DEF PhoneInv, PhoneBase

\* An answer is lost, or a lost request arrives.
LEMMA NetworkKeeps ==
  ASSUME PhoneAssumption, PhoneInv,
         (\E g \in Phone!Generations : Phone!Lose(g)) \/ (\E t \in straying : Phone!ArriveLate(t))
  PROVE  PhoneInv'
<1>1. PhoneBase /\ PhoneTypes /\ Circulating
  BY DEF PhoneInv, PhoneBase
<1>2. CASE \E g \in Phone!Generations : Phone!Lose(g)
  <2>1. PICK g \in Phone!Generations : Phone!Lose(g)
    BY <1>2
  <2>2. /\ refresh[g].at \in InFlight /\ mishap' = TRUE /\ refresh' = [refresh EXCEPT ![g].at = "net"]
        /\ UNCHANGED <<head, ended, logins, reused, generation, family, restored, keystore, queue>>
    BY <2>1 DEF Phone!Lose, Phone!server, Phone!phone, InFlight
  <2>3. /\ refresh' \in [Phone!Generations -> Refreshes]
        /\ \A h \in Phone!Generations : refresh'[h].token = refresh[h].token
        /\ \A h \in Phone!Generations : h # g => refresh'[h] = refresh[h]
    BY <1>1, <2>2 DEF PhoneTypes, Refreshes, Moments
  <2>4. \A h \in Phone!Generations : refresh'[h].at \in InFlight => Known(refresh'[h].token)
    BY <1>1, <2>2, <2>3 DEF Circulating
  <2>5. \A h \in Phone!Generations : h > generation => refresh'[h] = Phone!NoRefresh
    BY <1>1, <2>2, <2>3, NoRefreshType DEF Circulating, InFlight
  <2>6. PhoneBase'
    BY <1>1, <2>2, <2>3, <2>4, <2>5, BaseStays DEF PhoneTypes, Circulating
  <2> QED BY <2>2, <2>6 DEF PhoneInv
<1>3. CASE \E t \in straying : Phone!ArriveLate(t)
  <2>1. PICK t \in straying : Phone!ArriveLate(t)
    BY <1>3
  <2>2. mishap
    BY DEF PhoneInv, Smooth, Calm
  <2>3. /\ head' = (IF Phone!Rotates(t) THEN [head EXCEPT ![t.family] = @ + 1] ELSE head)
        /\ UNCHANGED <<logins, generation, family, restored, keystore, queue, refresh, mishap>>
    BY <2>1 DEF Phone!ArriveLate, Phone!Present, Phone!phone
  <2>4. head' \in [Phone!SignIns -> Nat] /\ \A f \in Phone!SignIns : head[f] # 0 => head'[f] # 0
    <3>1. PICK f : f = t.family
      OBVIOUS
    <3>2. head' = head \/ head' = [head EXCEPT ![f] = head[f] + 1]
      BY <2>3, <3>1
    <3> QED BY <1>1, <3>2 DEF PhoneTypes
  <2>5. PhoneBase'
    BY <1>1, <2>3, <2>4, BaseStays DEF PhoneTypes, Circulating
  <2> QED BY <2>2, <2>3, <2>5 DEF PhoneInv
<1> QED BY <1>2, <1>3

\* Requests come and go; what they wait for may begin.
LEMMA RequestsKeep ==
  ASSUME PhoneAssumption, PhoneInv,
         \/ \E r \in Callers : Phone!Call(r) \/ Phone!Answered(r) \/ Phone!Unauthorized(r)
         \/ Phone!Retry \/ (\E t \in revoking : Phone!Revoke(t))
  PROVE  PhoneInv'
<1>1. PhoneTypes
  BY DEF PhoneInv, PhoneBase
<1>2. /\ UNCHANGED <<head, logins, generation, family, keystore, queue, straying, reused, mishap>>
      /\ ended \subseteq ended' /\ (Phone!Join \/ UNCHANGED refresh)
      /\ UNCHANGED restored \/ (restored = "offline" /\ restored' = "loading")
  <2>1. CASE \E r \in Callers : Phone!Call(r) \/ Phone!Answered(r) \/ Phone!Unauthorized(r)
    BY <2>1 DEF Phone!Call, Phone!Answered, Phone!Unauthorized, Phone!server, Phone!phone
  <2>2. CASE Phone!Retry
    BY <2>2 DEF Phone!Retry, Phone!server
  <2>3. CASE \E t \in revoking : Phone!Revoke(t)
    BY <2>3 DEF Phone!Revoke, Phone!phone
  <2> QED BY <2>1, <2>2, <2>3
<1>3. /\ refresh' \in [Phone!Generations -> Refreshes]
      /\ \A g \in Phone!Generations : \/ refresh'[g] = refresh[g]
                                      \/ g = generation /\ refresh[g].at = "none" /\ refresh'[g].at = "read"
  <2>1. CASE Phone!Join
    BY <1>1, <2>1, NoRefreshType DEF Phone!Join, PhoneTypes
  <2>2. CASE UNCHANGED refresh
    BY <1>1, <2>2 DEF PhoneTypes
  <2> QED BY <1>2, <2>1, <2>2
<1>4. mishap \/ UNCHANGED restored
  BY <1>2 DEF PhoneInv, Smooth, Calm
<1>5. restored' = "done" => restored = "done"
  BY <1>2
<1> QED BY <1>2, <1>3, <1>4, <1>5, SessionStays

LEMMA LogoutKeeps ==
  ASSUME PhoneAssumption, PhoneInv, Phone!Logout
  PROVE  PhoneInv'
<1>1. PhoneTypes
  BY DEF PhoneInv, PhoneBase
<1>2. /\ Phone!Clear("logout") /\ restored' = "done"
      /\ UNCHANGED <<head, ended, logins, reused, keystore, refresh, straying, mishap>>
  BY DEF Phone!Logout, Phone!server
<1> QED BY <1>1, <1>2, Clears DEF PhoneTypes

LEMMA RefusedKeeps ==
  ASSUME PhoneAssumption, PhoneInv, NEW g \in Phone!Generations, Phone!Refused(g) \/ Phone!Unreachable(g)
  PROVE  PhoneInv'
<1>1. PhoneTypes
  BY DEF PhoneInv, PhoneBase
<1>2. /\ refresh' = [refresh EXCEPT ![g] = Phone!NoRefresh]
      /\ UNCHANGED <<head, ended, logins, reused, keystore, straying, mishap>>
  BY DEF Phone!Refused, Phone!Unreachable, Phone!Finish, Phone!server
<1>3. /\ refresh' \in [Phone!Generations -> Refreshes]
      /\ \A h \in Phone!Generations : refresh'[h] = refresh[h] \/ (h = g /\ refresh'[h] = Phone!NoRefresh)
  BY <1>1, <1>2, NoRefreshType DEF PhoneTypes
<1>4. CASE Phone!Refused(g) /\ g = generation
  <2>1. Phone!Clear("clear") /\ restored' = "done"
    BY <1>4 DEF Phone!Refused
  <2>2. mishap' \in BOOLEAN /\ (mishap => mishap')
    BY <1>1, <1>2 DEF PhoneTypes
  <2> QED BY <1>2, <1>3, <2>1, <2>2, Clears
<1>5. CASE Phone!Refused(g) /\ g # generation
  <2>1. UNCHANGED <<generation, family, restored, queue>>
    BY <1>5 DEF Phone!Refused, Phone!phone
  <2> QED BY <1>2, <1>3, <1>5, <2>1, SessionStays
<1>6. CASE Phone!Unreachable(g)
  <2>1. /\ refresh[g].at = "net" /\ UNCHANGED <<generation, family, queue>>
        /\ restored' = "done" => restored = "done"
    BY <1>6 DEF Phone!Unreachable
  <2>2. mishap
    BY <2>1 DEF PhoneInv, Smooth, Calm
  <2> QED BY <1>2, <1>3, <2>1, <2>2, SessionStays
<1> QED BY <1>4, <1>5, <1>6

LEMMA PhoneInit ==
  ASSUME PhoneAssumption, Phone!Init
  PROVE  PhoneInv
<1>1. /\ head = [f \in Phone!SignIns |-> 0] /\ logins = {} /\ ended = {} /\ reused = {} /\ generation = 0
      /\ family = 0 /\ keystore = Phone!None /\ queue = <<>> /\ restored = "done" /\ straying = {}
      /\ refresh = [g \in Phone!Generations |-> Phone!NoRefresh] /\ mishap = FALSE
  BY DEF Phone!Init
<1>2. queue \in Seq(Entries) /\ DOMAIN queue = {}
  BY <1>1
<1>3. /\ refresh \in [Phone!Generations -> Refreshes] /\ \A g \in Phone!Generations : refresh[g] = Phone!NoRefresh
      /\ \A g \in Phone!Generations : refresh[g].at = "none"
  BY <1>1, NoRefreshType
<1>4. PhoneTypes
  BY <1>1, <1>2, <1>3, PhoneNumbers DEF PhoneTypes
<1>5. Circulating /\ QueueInOrder /\ Phone!StoredIsCurrent
  BY <1>1, <1>2, <1>3 DEF Circulating, QueueInOrder, HasWipe, Phone!StoredIsCurrent, InFlight
<1>6. Smooth
  BY <1>1, <1>2, <1>3, PhoneNumbers
  DEF Smooth, Calm, Kept, OneSignIn, Refreshing, Reading, Writing, HasWipe, InFlight
<1> QED BY <1>4, <1>5, <1>6 DEF PhoneInv, PhoneBase

LEMMA PhoneNext ==
  ASSUME PhoneAssumption, PhoneInv, [Phone!Next]_(Phone!vars)
  PROVE  PhoneInv'
<1>1. CASE UNCHANGED Phone!vars
  <2>1. UNCHANGED <<head, ended, logins, generation, family, keystore, queue, refresh, restored,
                    straying, reused, mishap>>
    BY <1>1 DEF Phone!vars
  <2>2. PhoneTypes
    BY DEF PhoneInv, PhoneBase
  <2> QED BY <2>1, <2>2, SessionStays DEF PhoneTypes
<1>2. CASE Phone!Next
  <2>1. CASE Phone!Logout
    BY <2>1, LogoutKeeps
  <2>2. CASE Phone!StoreClear
    BY <2>2, StoreClearKeeps
  <2>3. CASE Phone!StoreWrite
    BY <2>3, StoreWriteKeeps
  <2>4. CASE Phone!Kill
    BY <2>4, KillKeepsPhone
  <2>5. CASE \E f \in Phone!SignIns : Phone!Login(f)
    BY <2>5, LoginKeeps
  <2>6. CASE \E f \in Phone!SignIns : Phone!Start(f)
    BY <2>6, StartedKeeps
  <2>7. CASE \E g \in Phone!Generations : Phone!Answer(g)
    BY <2>7, AnswerKeeps
  <2>8. CASE \E g \in Phone!Generations : Phone!Read(g)
    BY <2>8, ReadKeeps
  <2>9. CASE \E g \in Phone!Generations : Phone!Rotated(g)
    BY <2>9, RotatedKeeps
  <2>10. CASE \E g \in Phone!Generations : Phone!Refused(g) \/ Phone!Unreachable(g)
    BY <2>10, RefusedKeeps
  <2>11. CASE (\E g \in Phone!Generations : Phone!Lose(g)) \/ (\E t \in straying : Phone!ArriveLate(t))
    BY <2>11, NetworkKeeps
  <2>12. CASE \/ \E r \in Callers : Phone!Call(r) \/ Phone!Answered(r) \/ Phone!Unauthorized(r)
              \/ Phone!Retry \/ (\E t \in revoking : Phone!Revoke(t))
    BY <2>12, RequestsKeep
  <2> QED
    BY <1>2, <2>1, <2>2, <2>3, <2>4, <2>5, <2>6, <2>7, <2>8, <2>9, <2>10, <2>11, <2>12,
       Zenon DEF Phone!Next
<1> QED BY <1>1, <1>2

\* What the keystore holds is the session the phone is in, and a burst of
\* requests presents no spent token.
THEOREM SessionKeeps ==
  ASSUME PhoneAssumption
  PROVE  Phone!Spec => [](Phone!StoredIsCurrent /\ Phone!NeverReused)
<1>1. Phone!Init => PhoneInv
  BY PhoneInit
<1>2. PhoneInv /\ [Phone!Next]_(Phone!vars) => PhoneInv'
  BY PhoneNext
<1>3. PhoneInv => Phone!StoredIsCurrent /\ Phone!NeverReused
  BY DEF PhoneInv, PhoneBase, Smooth, Calm, Phone!NeverReused
<1> QED BY <1>1, <1>2, <1>3, PTL DEF Phone!Spec

(**************************** The outbox of a phone **************************)

OutboxRows == [msg : Outbox!Messages, state : {"queued", "failed"}]
Runs == [at : {"idle", "list", "item", "wait"}, gen : 0..MaxGeneration,
         list : Seq(OutboxRows), done : Nat]
Posts == [msg : {0} \cup Outbox!Messages, answer : {"none", "sent", "ok", "no", "401", "net"}]

\* Of rows: the failed ones were refused.
RefusedIn(rows) == \A i \in DOMAIN rows : rows[i].state = "failed" => rows[i].msg \in refused

\* The run is within its list, and what it waits for is the item it is at.
Running ==
  /\ run.done <= Len(run.list)
  /\ run.at = "wait" => run.done < Len(run.list) /\ post.msg = run.list[run.done + 1].msg
  /\ post.answer = "ok" => post.msg \in logged

OutboxInv ==
  /\ outbox \in Seq(OutboxRows) /\ run \in Runs /\ post \in Posts /\ epoch \in 0..MaxGeneration
  /\ RefusedIn(outbox) /\ RefusedIn(run.list)
  /\ Running /\ Outbox!NothingForgotten /\ Outbox!FlushInOrder

-----------------------------------------------------------------------------
\* A message's row goes, every other row stays.
LEMMA DeleteKeeps ==
  ASSUME outbox \in Seq(OutboxRows), NEW m, NEW rows, rows = Outbox!Delete(m)
  PROVE  /\ rows \in Seq(OutboxRows)
         /\ \A i \in DOMAIN rows : \E j \in DOMAIN outbox : rows[i] = outbox[j]
         /\ \A j \in DOMAIN outbox : outbox[j].msg # m => \E i \in DOMAIN rows : rows[i] = outbox[j]
<1>1. CASE m \notin Outbox!Stored
  BY <1>1 DEF Outbox!Delete
<1>2. CASE m \in Outbox!Stored
  <2>0. PICK n : n = Len(outbox)
    OBVIOUS
  <2>1. PICK p \in DOMAIN outbox : outbox[p].msg = m /\ p = Outbox!PositionOf(m)
    BY <1>2 DEF Outbox!Stored, Outbox!PositionOf
  <2>2. n \in Nat /\ DOMAIN outbox = 1..n /\ p \in 1..n
    BY <2>0, <2>1
  <2>3. PICK a, b : a = SubSeq(outbox, 1, p - 1) /\ b = SubSeq(outbox, p + 1, n)
    OBVIOUS
  <2>4. /\ a \in Seq(OutboxRows) /\ Len(a) = p - 1
        /\ \A i \in 1..(p - 1) : a[i] = outbox[i]
    BY <2>0, <2>2, <2>3, SubSeqProperties
  <2>5. /\ b \in Seq(OutboxRows) /\ Len(b) = n - p
        /\ \A i \in 1..(n - p) : b[i] = outbox[p + i]
    <3>1. /\ b \in Seq(OutboxRows) /\ Len(b) = IF p + 1 <= n THEN n - (p + 1) + 1 ELSE 0
          /\ \A i \in 1..(n - (p + 1) + 1) : b[i] = outbox[p + 1 + i - 1]
      BY <2>0, <2>2, <2>3, SubSeqProperties
    <3>2. n - (p + 1) + 1 = n - p /\ \A i \in 1..(n - p) : p + 1 + i - 1 = p + i
      BY <2>2
    <3>3. \A i \in 1..(n - p) : b[i] = outbox[p + 1 + i - 1]
      BY <3>1, <3>2
    <3>4. Len(b) = n - p
      BY <2>2, <3>1, <3>2
    <3>5. \A i \in 1..(n - p) : b[i] = outbox[p + i]
      <4>1. ASSUME NEW i \in 1..(n - p) PROVE b[i] = outbox[p + i]
        <5>1. b[i] = outbox[p + 1 + i - 1] /\ p + 1 + i - 1 = p + i
          BY <3>2, <3>3
        <5> QED BY <5>1
      <4> QED BY <4>1
    <3> QED BY <3>1, <3>4, <3>5
  <2>6. rows = a \o b
    BY <1>2, <2>0, <2>1, <2>3 DEF Outbox!Delete, Outbox!RemoveAt
  <2>7. /\ rows \in Seq(OutboxRows) /\ Len(rows) = n - 1
        /\ \A i \in 1..(n - 1) : rows[i] = IF i <= p - 1 THEN a[i] ELSE b[i - (p - 1)]
    <3>1. /\ rows \in Seq(OutboxRows) /\ Len(rows) = Len(a) + Len(b)
          /\ \A i \in 1..(Len(a) + Len(b)) : rows[i] = IF i <= Len(a) THEN a[i] ELSE b[i - Len(a)]
      BY <2>4, <2>5, <2>6, ConcatProperties
    <3>2. Len(a) + Len(b) = n - 1
      BY <2>2, <2>4, <2>5
    <3> QED BY <2>4, <3>1, <3>2
  <2>8. DOMAIN rows = 1..(n - 1)
    BY <2>7
  <2>9. ASSUME NEW i \in 1..(n - 1) PROVE rows[i] = outbox[IF i < p THEN i ELSE i + 1]
    <3>1. CASE i < p
      BY <2>2, <2>4, <2>7, <3>1
    <3>2. CASE ~(i < p)
      <4>1. i - (p - 1) \in 1..(n - p) /\ p + (i - (p - 1)) = i + 1 /\ ~(i <= p - 1)
        BY <2>2, <3>2
      <4> QED BY <2>5, <2>7, <3>2, <4>1
    <3> QED BY <3>1, <3>2
  <2>10. ASSUME NEW i \in DOMAIN rows PROVE \E j \in DOMAIN outbox : rows[i] = outbox[j]
    <3>1. (IF i < p THEN i ELSE i + 1) \in 1..n
      BY <2>2, <2>8
    <3> QED BY <2>2, <2>8, <2>9, <3>1
  <2>11. ASSUME NEW j \in DOMAIN outbox, outbox[j].msg # m
         PROVE  \E i \in DOMAIN rows : rows[i] = outbox[j]
    <3>1. j # p /\ j \in 1..n
      BY <2>1, <2>2, <2>11
    <3>2. CASE j < p
      <4>1. j \in 1..(n - 1)
        BY <2>2, <3>1, <3>2
      <4>2. rows[j] = outbox[j]
        BY <2>9, <3>2, <4>1
      <4> QED BY <2>8, <4>1, <4>2
    <3>3. CASE j > p
      <4>1. j - 1 \in 1..(n - 1) /\ ~(j - 1 < p) /\ (j - 1) + 1 = j
        BY <2>2, <3>1, <3>3
      <4>2. rows[j - 1] = outbox[j]
        BY <2>9, <4>1
      <4> QED BY <2>8, <4>1, <4>2
    <3>4. j < p \/ j > p
      BY <2>2, <3>1
    <3> QED BY <3>2, <3>3, <3>4
  <2> QED BY <2>7, <2>10, <2>11
<1> QED BY <1>1, <1>2

\* Marking a row leaves every message where it is.
LEMMA MarkKeeps ==
  ASSUME outbox \in Seq(OutboxRows), NEW m \in Outbox!Messages, NEW s \in {"queued", "failed"},
         NEW rows, rows = Outbox!Mark(m, s)
  PROVE  /\ rows \in Seq(OutboxRows) /\ DOMAIN rows = DOMAIN outbox
         /\ \A i \in DOMAIN rows : rows[i].msg = outbox[i].msg
         /\ \A i \in DOMAIN rows : rows[i] = outbox[i] \/ (rows[i].msg = m /\ rows[i].state = s)
<1>1. Outbox!Row(m, s) \in OutboxRows /\ Outbox!Row(m, s).msg = m /\ Outbox!Row(m, s).state = s
  BY DEF Outbox!Row, OutboxRows
<1>2. Len(outbox) \in Nat /\ DOMAIN outbox = 1..Len(outbox) /\ \A i \in DOMAIN outbox : outbox[i] \in OutboxRows
  OBVIOUS
<1>3. \A i \in DOMAIN outbox : (IF outbox[i].msg = m THEN Outbox!Row(m, s) ELSE outbox[i]) \in OutboxRows
  BY <1>1, <1>2
<1>4. rows = [i \in 1..Len(outbox) |-> IF outbox[i].msg = m THEN Outbox!Row(m, s) ELSE outbox[i]]
  BY <1>2 DEF Outbox!Mark
<1>5. rows \in Seq(OutboxRows)
  BY <1>2, <1>3, <1>4
<1> QED BY <1>1, <1>2, <1>4, <1>5

\* What every step keeps of it that leaves the rows as they are, or removes or
\* marks some.
LEMMA RowsStep ==
  ASSUME OutboxInv, refused \subseteq refused',
         \A i \in DOMAIN outbox' : outbox'[i].state = "failed" =>
           outbox'[i].msg \in refused' \/ \E j \in DOMAIN outbox : outbox'[i] = outbox[j]
  PROVE  RefusedIn(outbox)'
BY DEF OutboxInv, RefusedIn

LEMMA StaysStored ==
  ASSUME OutboxInv, NEW m, typed' = typed, logged \subseteq logged', gone \subseteq gone',
         \A j \in DOMAIN outbox : outbox[j].msg # m =>
              \E i \in DOMAIN outbox' : outbox'[i].msg = outbox[j].msg,
         m \in logged' \cup gone'
  PROVE  Outbox!NothingForgotten'
BY DEF OutboxInv, Outbox!NothingForgotten, Outbox!Stored

\* The end of a run, its start, and the step to its next item.
LEMMA NoList ==
  /\ <<>> \in Seq(OutboxRows) /\ Len(<<>>) = 0 /\ DOMAIN <<>> = {}
OBVIOUS

LEMMA IdleRun ==
  ASSUME MaxGeneration \in Nat, NEW g \in 0..MaxGeneration,
         NEW r, r = Outbox!Idle \/ r = [Outbox!Idle EXCEPT !.at = "list", !.gen = g]
  PROVE  r \in Runs /\ r.done = 0 /\ r.list = <<>> /\ r.at \in {"idle", "list"}
<1>1. PICK h \in 0..MaxGeneration, a \in {"idle", "list"} :
        r = [at |-> a, gen |-> h, list |-> <<>>, done |-> 0]
  <2>1. 0 \in 0..MaxGeneration
    OBVIOUS
  <2>2. CASE r = Outbox!Idle
    BY <2>1, <2>2, NoList DEF Outbox!Idle
  <2>3. CASE r = [Outbox!Idle EXCEPT !.at = "list", !.gen = g]
    BY <2>3, NoList DEF Outbox!Idle
  <2> QED BY <2>2, <2>3
<1>2. ASSUME NEW rows \in Seq(OutboxRows)
      PROVE  [at |-> a, gen |-> h, list |-> rows, done |-> 0] \in Runs
  BY DEF Runs
<1>3. r \in Runs
  BY <1>1, <1>2, NoList, Zenon
<1> QED BY <1>1, <1>3

LEMMA Ends ==
  ASSUME MaxGeneration \in Nat, OutboxInv, Outbox!EndRun
  PROVE  run' \in Runs /\ run'.done = 0 /\ run'.list = <<>> /\ run'.at \in {"idle", "list"}
<1>1. epoch \in 0..MaxGeneration
  BY DEF OutboxInv
<1>2. run' = Outbox!Idle \/ run' = [Outbox!Idle EXCEPT !.at = "list", !.gen = epoch]
  BY DEF Outbox!EndRun
<1> QED BY <1>1, <1>2, IdleRun

LEMMA Flushes ==
  ASSUME MaxGeneration \in Nat, OutboxInv, Outbox!Flush
  PROVE  \/ UNCHANGED run
         \/ run' \in Runs /\ run'.done = 0 /\ run'.list = <<>> /\ run'.at \in {"idle", "list"}
<1>1. epoch \in 0..MaxGeneration
  BY DEF OutboxInv
<1>2. UNCHANGED run \/ run' = [Outbox!Idle EXCEPT !.at = "list", !.gen = epoch]
  BY DEF Outbox!Flush
<1> QED BY <1>1, <1>2, IdleRun

\* A run that is over has passed by nothing.
LEMMA NothingPassed ==
  ASSUME run'.done = 0, run'.list = <<>>, run'.at # "wait",
         post'.answer = "ok" => post'.msg \in logged'
  PROVE  RefusedIn(run.list)' /\ Running' /\ Outbox!FlushInOrder'
<1>1. RefusedIn(run.list)'
  BY NoList DEF RefusedIn
<1> QED BY <1>1, NoList DEF Running, Outbox!FlushInOrder

\* A run that stays where it is.
LEMMA NothingMoves ==
  ASSUME OutboxInv, UNCHANGED run, logged \subseteq logged', refused \subseteq refused',
         gone \subseteq gone', post'.msg = post.msg,
         post'.answer = "ok" => post'.msg \in logged'
  PROVE  run' \in Runs /\ RefusedIn(run.list)' /\ Running' /\ Outbox!FlushInOrder'
BY DEF OutboxInv, RefusedIn, Running, Outbox!FlushInOrder

\* The rows stay as they are.
LEMMA RowsStay ==
  ASSUME OutboxInv, UNCHANGED <<outbox, typed>>, logged \subseteq logged',
         refused \subseteq refused', gone \subseteq gone'
  PROVE  outbox' \in Seq(OutboxRows) /\ RefusedIn(outbox)' /\ Outbox!NothingForgotten'
BY DEF OutboxInv, RefusedIn, Outbox!NothingForgotten, Outbox!Stored

LEMMA ItemPassed ==
  ASSUME OutboxInv, run.done < Len(run.list), run' = [run EXCEPT !.at = "item", !.done = @ + 1],
         run.list[run.done + 1].msg \in logged' \cup refused' \cup gone',
         logged \subseteq logged', refused \subseteq refused', gone \subseteq gone',
         post'.answer = "ok" => post'.msg \in logged'
  PROVE  run' \in Runs /\ RefusedIn(run.list)' /\ Running' /\ Outbox!FlushInOrder'
<1>1. /\ run \in Runs /\ RefusedIn(run.list)
      /\ \A i \in 1..run.done : run.list[i].msg \in logged \cup refused \cup gone
  BY DEF OutboxInv, Outbox!FlushInOrder
<1>2. run.done \in Nat /\ run.list \in Seq(OutboxRows) /\ Len(run.list) \in Nat
  BY <1>1 DEF Runs
<1>3. /\ run' \in Runs /\ run'.list = run.list /\ run'.at = "item" /\ run'.done = run.done + 1
  <2>1. PICK k \in Nat : k = run.done + 1
    BY <1>2
  <2>2. run' = [run EXCEPT !.at = "item", !.done = k]
    BY <2>1
  <2> QED BY <1>1, <2>1, <2>2 DEF Runs
<1>4. ASSUME NEW i \in 1..(run.done + 1)
      PROVE  run.list[i].msg \in logged' \cup refused' \cup gone'
  <2>1. i \in 1..run.done \/ i = run.done + 1
    BY <1>2
  <2> QED BY <1>1, <2>1
<1>5. Outbox!FlushInOrder'
  <2>1. \A i \in 1..run'.done : run'.list[i].msg \in logged' \cup refused' \cup gone'
    BY <1>3, <1>4
  <2> QED BY <2>1 DEF Outbox!FlushInOrder
<1>6. RefusedIn(run.list)'
  BY <1>1, <1>3 DEF RefusedIn
<1>7. run'.done <= Len(run'.list)
  BY <1>2, <1>3
<1> QED BY <1>3, <1>5, <1>6, <1>7 DEF Running

LEMMA OutboxInit ==
  ASSUME MaxGeneration \in Nat, Outbox!Init
  PROVE  OutboxInv
<1>1. /\ outbox = <<>> /\ run = Outbox!Idle /\ post = Outbox!NoPost /\ typed = {} /\ epoch = 0
  BY DEF Outbox!Init
<1>2. run \in Runs /\ run.list = <<>> /\ run.done = 0 /\ run.at \in {"idle", "list"} /\ 0 \in 0..MaxGeneration
  <2>1. 0 \in 0..MaxGeneration
    OBVIOUS
  <2> QED BY <1>1, <2>1, IdleRun
<1>3. post \in Posts /\ post.answer = "none"
  BY <1>1 DEF Outbox!NoPost, Posts
<1>4. RefusedIn(outbox) /\ RefusedIn(run.list)
  BY <1>1, <1>2, NoList DEF RefusedIn
<1>5. Running /\ Outbox!NothingForgotten /\ Outbox!FlushInOrder
  BY <1>1, <1>2, <1>3, NoList DEF Running, Outbox!NothingForgotten, Outbox!FlushInOrder
<1> QED BY <1>1, <1>2, <1>3, <1>4, <1>5, NoList DEF OutboxInv

LEMMA AccountKeeps ==
  ASSUME MaxGeneration \in Nat, OutboxInv, Outbox!SignIn \/ Outbox!Prepare \/ Outbox!SignOut
  PROVE  OutboxInv'
<1>1. /\ UNCHANGED <<typed, logged, refused, run, post>> /\ gone \subseteq gone'
      /\ epoch' \in 0..MaxGeneration
      /\ UNCHANGED <<outbox, gone>> \/ (outbox' = <<>> /\ gone' = gone \cup Outbox!Stored)
  <2>1. epoch \in 0..MaxGeneration
    BY DEF OutboxInv
  <2>2. CASE Outbox!SignIn
    BY <2>1, <2>2 DEF Outbox!SignIn, Outbox!fates, Outbox!runner
  <2>3. CASE Outbox!Prepare
    BY <2>1, <2>3 DEF Outbox!Prepare, Outbox!fates, Outbox!runner
  <2>4. CASE Outbox!SignOut
    BY <2>1, <2>4 DEF Outbox!SignOut, Outbox!runner
  <2> QED BY <2>2, <2>3, <2>4
<1>2. run' \in Runs /\ RefusedIn(run.list)' /\ Running' /\ Outbox!FlushInOrder' /\ post' \in Posts
  <2>1. post \in Posts /\ (post.answer = "ok" => post.msg \in logged)
    BY DEF OutboxInv, Running
  <2> QED BY <1>1, <2>1, NothingMoves
<1>3. outbox' \in Seq(OutboxRows) /\ RefusedIn(outbox)' /\ Outbox!NothingForgotten'
  <2>1. CASE UNCHANGED outbox
    BY <1>1, <2>1, RowsStay
  <2>2. CASE outbox' = <<>> /\ gone' = gone \cup Outbox!Stored
    <3>1. RefusedIn(outbox)'
      BY <2>2, NoList DEF RefusedIn
    <3> QED BY <1>1, <2>2, <3>1, NoList DEF OutboxInv, Outbox!NothingForgotten
  <2> QED BY <1>1, <2>1, <2>2
<1> QED BY <1>1, <1>2, <1>3 DEF OutboxInv

LEMMA KillKeeps ==
  ASSUME MaxGeneration \in Nat, OutboxInv, Outbox!Kill
  PROVE  OutboxInv'
<1>1. /\ run' = Outbox!Idle /\ post' = Outbox!NoPost /\ UNCHANGED <<epoch, outbox, typed, logged,
                                                                    refused, gone>>
  BY DEF Outbox!Kill, Outbox!fates
<1>2. run' \in Runs /\ run'.list = <<>> /\ run'.done = 0 /\ run'.at \in {"idle", "list"}
  BY <1>1, IdleRun DEF OutboxInv
<1>3. post' \in Posts /\ post'.answer # "ok"
  BY <1>1 DEF Outbox!NoPost, Posts
<1>4. RefusedIn(run.list)' /\ Running' /\ Outbox!FlushInOrder'
  BY <1>2, <1>3, NothingPassed
<1>5. outbox' \in Seq(OutboxRows) /\ RefusedIn(outbox)' /\ Outbox!NothingForgotten'
  BY <1>1, RowsStay
<1> QED BY <1>1, <1>2, <1>3, <1>4, <1>5 DEF OutboxInv

LEMMA ListKeeps ==
  ASSUME OutboxInv, Outbox!List
  PROVE  OutboxInv'
<1>1. /\ run' = [run EXCEPT !.at = "item", !.list = outbox, !.done = 0]
      /\ UNCHANGED <<epoch, outbox, typed, logged, refused, gone, post>>
  BY DEF Outbox!List, Outbox!session, Outbox!fates
<1>2. /\ run \in Runs /\ outbox \in Seq(OutboxRows) /\ RefusedIn(outbox) /\ post \in Posts
      /\ (post.answer = "ok" => post.msg \in logged)
  BY DEF OutboxInv, Running
<1>3. run' \in Runs /\ run'.at = "item" /\ run'.list = outbox /\ run'.done = 0
  BY <1>1, <1>2 DEF Runs
<1>4. RefusedIn(run.list)'
  BY <1>1, <1>2, <1>3 DEF RefusedIn
<1>5. Running' /\ Outbox!FlushInOrder'
  <2>1. Len(outbox) \in Nat
    BY <1>2
  <2> QED BY <1>1, <1>2, <1>3, <2>1 DEF Running, Outbox!FlushInOrder
<1>6. outbox' \in Seq(OutboxRows) /\ RefusedIn(outbox)' /\ Outbox!NothingForgotten'
  BY <1>1, RowsStay
<1> QED BY <1>1, <1>2, <1>3, <1>4, <1>5, <1>6 DEF OutboxInv

LEMMA ItemKeeps ==
  ASSUME MaxGeneration \in Nat, OutboxInv, Outbox!Item
  PROVE  OutboxInv'
<1>1. /\ run.at = "item" /\ run.done < Len(run.list)
      /\ UNCHANGED <<epoch, outbox, typed, logged, refused, gone>>
  BY DEF Outbox!Item, Outbox!session, Outbox!fates
<1>2. /\ run \in Runs /\ post \in Posts /\ RefusedIn(run.list) /\ epoch \in 0..MaxGeneration
      /\ (post.answer = "ok" => post.msg \in logged)
  BY DEF OutboxInv, Running
<1>3. PICK k : k = run.done + 1
  OBVIOUS
<1>4. k \in DOMAIN run.list /\ run.list[k] \in OutboxRows
  BY <1>1, <1>2, <1>3 DEF Runs
<1>5. outbox' \in Seq(OutboxRows) /\ RefusedIn(outbox)' /\ Outbox!NothingForgotten'
  BY <1>1, RowsStay
<1>6. CASE /\ run.list[k].state # "queued"
           /\ run' = [run EXCEPT !.done = @ + 1] /\ UNCHANGED post
  <2>1. run.list[k].msg \in refused
    BY <1>2, <1>4, <1>6 DEF RefusedIn, OutboxRows
  <2>2. run' = [run EXCEPT !.at = "item", !.done = @ + 1]
    BY <1>1, <1>2, <1>6 DEF Runs
  <2>3. run' \in Runs /\ RefusedIn(run.list)' /\ Running' /\ Outbox!FlushInOrder'
    BY <1>1, <1>2, <1>3, <1>6, <2>1, <2>2, ItemPassed
  <2> QED BY <1>1, <1>2, <1>5, <1>6, <2>3 DEF OutboxInv
<1>7. CASE /\ post' = [msg |-> run.list[k].msg, answer |-> "sent"]
           /\ run' = [run EXCEPT !.at = "wait"]
  <2>1. post' \in Posts /\ post'.msg = run.list[k].msg /\ post'.answer = "sent"
    BY <1>4, <1>7 DEF Posts, OutboxRows
  <2>2. run' \in Runs /\ run'.list = run.list /\ run'.done = run.done /\ run'.at = "wait"
    BY <1>2, <1>7 DEF Runs
  <2>3. run.done <= Len(run.list) /\ Outbox!FlushInOrder
    BY DEF OutboxInv, Running
  <2>4. Running'
    BY <1>1, <1>3, <2>1, <2>2, <2>3 DEF Running
  <2>5. Outbox!FlushInOrder'
    BY <1>1, <2>2, <2>3 DEF Outbox!FlushInOrder
  <2>6. RefusedIn(run.list)'
    BY <1>1, <1>2, <2>2 DEF RefusedIn
  <2> QED BY <1>1, <1>2, <1>5, <2>1, <2>2, <2>4, <2>5, <2>6 DEF OutboxInv
<1>8. CASE Outbox!EndRun /\ UNCHANGED post
  <2>1. run' \in Runs /\ run'.done = 0 /\ run'.list = <<>> /\ run'.at \in {"idle", "list"}
    BY <1>8, Ends
  <2>2. RefusedIn(run.list)' /\ Running' /\ Outbox!FlushInOrder'
    BY <1>1, <1>2, <1>8, <2>1, NothingPassed
  <2> QED BY <1>1, <1>2, <1>5, <1>8, <2>1, <2>2 DEF OutboxInv
<1> QED BY <1>3, <1>6, <1>7, <1>8 DEF Outbox!Item

LEMMA PassKeeps ==
  ASSUME MaxGeneration \in Nat, OutboxInv, Outbox!Pass
  PROVE  OutboxInv'
<1>1. /\ run.at = "item" /\ UNCHANGED <<epoch, outbox, typed, logged, refused, gone, post>>
      /\ run' = [run EXCEPT !.at = "list"] \/ Outbox!EndRun
  BY DEF Outbox!Pass, Outbox!session, Outbox!fates
<1>2. /\ run \in Runs /\ post \in Posts /\ epoch \in 0..MaxGeneration
      /\ (post.answer = "ok" => post.msg \in logged)
  BY DEF OutboxInv, Running
<1>3. outbox' \in Seq(OutboxRows) /\ RefusedIn(outbox)' /\ Outbox!NothingForgotten'
  BY <1>1, RowsStay
<1>4. CASE run' = [run EXCEPT !.at = "list"]
  <2>1. run' \in Runs /\ run'.list = run.list /\ run'.done = run.done /\ run'.at = "list"
    BY <1>2, <1>4 DEF Runs
  <2>2. RefusedIn(run.list) /\ run.done <= Len(run.list) /\ Outbox!FlushInOrder
    BY DEF OutboxInv, Running
  <2>3. Running'
    BY <1>1, <1>2, <2>1, <2>2 DEF Running
  <2>4. Outbox!FlushInOrder'
    BY <1>1, <2>1, <2>2 DEF Outbox!FlushInOrder
  <2>5. RefusedIn(run.list)'
    BY <1>1, <2>1, <2>2 DEF RefusedIn
  <2> QED BY <1>1, <1>2, <1>3, <2>1, <2>3, <2>4, <2>5 DEF OutboxInv
<1>5. CASE Outbox!EndRun
  <2>1. run' \in Runs /\ run'.done = 0 /\ run'.list = <<>> /\ run'.at \in {"idle", "list"}
    BY <1>5, Ends
  <2>2. RefusedIn(run.list)' /\ Running' /\ Outbox!FlushInOrder'
    BY <1>1, <1>2, <2>1, NothingPassed
  <2> QED BY <1>1, <1>2, <1>3, <2>1, <2>2 DEF OutboxInv
<1> QED BY <1>1, <1>4, <1>5

LEMMA ServerKeeps ==
  ASSUME OutboxInv, NEW m \in Outbox!Messages,
         \/ Outbox!Accept(m) \/ Outbox!ArriveLate(m) \/ Outbox!Refuse
         \/ Outbox!Unauthorized \/ Outbox!LoseRequest \/ Outbox!LoseAnswer
  PROVE  OutboxInv'
<1>1. /\ UNCHANGED <<epoch, outbox, typed, refused, gone, run>> /\ logged \subseteq logged'
      /\ \/ UNCHANGED post
         \/ \E a \in {"no", "401", "net"} : post' = [post EXCEPT !.answer = a]
         \/ post.msg = m /\ post' = [post EXCEPT !.answer = "ok"] /\ m \in logged'
  <2>1. CASE Outbox!Accept(m)
    BY <2>1 DEF Outbox!Accept, Outbox!session
  <2>2. CASE Outbox!ArriveLate(m)
    BY <2>2 DEF Outbox!ArriveLate, Outbox!session, Outbox!runner
  <2>3. CASE Outbox!Refuse \/ Outbox!Unauthorized \/ Outbox!LoseRequest \/ Outbox!LoseAnswer
    BY <2>3 DEF Outbox!Refuse, Outbox!Unauthorized, Outbox!LoseRequest, Outbox!LoseAnswer,
                Outbox!Fail, Outbox!session, Outbox!fates
  <2> QED BY <2>1, <2>2, <2>3
<1>2. post \in Posts /\ (post.answer = "ok" => post.msg \in logged) /\ epoch \in 0..MaxGeneration
  BY DEF OutboxInv, Running
<1>3. post' \in Posts /\ post'.msg = post.msg /\ (post'.answer = "ok" => post'.msg \in logged')
  BY <1>1, <1>2 DEF Posts
<1>4. run' \in Runs /\ RefusedIn(run.list)' /\ Running' /\ Outbox!FlushInOrder'
  BY <1>1, <1>3, NothingMoves
<1>5. outbox' \in Seq(OutboxRows) /\ RefusedIn(outbox)' /\ Outbox!NothingForgotten'
  BY <1>1, RowsStay
<1> QED BY <1>1, <1>2, <1>3, <1>4, <1>5 DEF OutboxInv

LEMMA AnsweredKeeps ==
  ASSUME MaxGeneration \in Nat, OutboxInv, Outbox!Answered
  PROVE  OutboxInv'
<1>1. PICK m : m = post.msg
  OBVIOUS
<1>2. /\ run \in Runs /\ post \in Posts /\ outbox \in Seq(OutboxRows) /\ epoch \in 0..MaxGeneration
      /\ (post.answer = "ok" => m \in logged)
  BY <1>1 DEF OutboxInv, Running
<1>3. /\ run.at = "wait" /\ post' = Outbox!NoPost /\ UNCHANGED <<epoch, typed, logged, gone>>
      /\ refused \subseteq refused'
      /\ \/ post.answer = "ok" /\ outbox' = Outbox!Delete(m) /\ Outbox!Step /\ UNCHANGED refused
         \/ outbox' = Outbox!Mark(m, "failed") /\ Outbox!Step /\ refused' = refused \cup {m}
         \/ Outbox!EndRun /\ UNCHANGED <<outbox, refused>>
  BY <1>1 DEF Outbox!Answered, Outbox!session
<1>4. /\ run.done < Len(run.list) /\ m = run.list[run.done + 1].msg
  BY <1>1, <1>3 DEF OutboxInv, Running
<1>5. m \in Outbox!Messages
  <2>1. run.done + 1 \in DOMAIN run.list /\ run.list \in Seq(OutboxRows)
    BY <1>2, <1>4 DEF Runs
  <2>2. run.list[run.done + 1] \in OutboxRows
    BY <2>1
  <2> QED BY <1>4, <2>2 DEF OutboxRows
<1>6. post' \in Posts /\ post'.answer # "ok"
  BY <1>3 DEF Outbox!NoPost, Posts
<1>7. CASE post.answer = "ok" /\ outbox' = Outbox!Delete(m) /\ Outbox!Step /\ UNCHANGED refused
  <2>1. /\ outbox' \in Seq(OutboxRows)
        /\ \A i \in DOMAIN outbox' : \E j \in DOMAIN outbox : outbox'[i] = outbox[j]
        /\ \A j \in DOMAIN outbox : outbox[j].msg # m =>
             \E i \in DOMAIN outbox' : outbox'[i] = outbox[j]
    BY <1>2, <1>7, DeleteKeeps
  <2>2. RefusedIn(outbox)'
    BY <1>3, <2>1, RowsStep
  <2>3. Outbox!NothingForgotten'
    BY <1>2, <1>3, <1>7, <2>1, StaysStored
  <2>4. run' \in Runs /\ RefusedIn(run.list)' /\ Running' /\ Outbox!FlushInOrder'
    BY <1>2, <1>3, <1>4, <1>6, <1>7, ItemPassed DEF Outbox!Step
  <2> QED BY <1>2, <1>3, <1>6, <2>1, <2>2, <2>3, <2>4 DEF OutboxInv
<1>8. CASE outbox' = Outbox!Mark(m, "failed") /\ Outbox!Step /\ refused' = refused \cup {m}
  <2>1. /\ outbox' \in Seq(OutboxRows) /\ DOMAIN outbox' = DOMAIN outbox
        /\ \A i \in DOMAIN outbox' : outbox'[i].msg = outbox[i].msg
        /\ \A i \in DOMAIN outbox' : outbox'[i] = outbox[i] \/ (outbox'[i].msg = m /\ outbox'[i].state = "failed")
    BY <1>2, <1>5, <1>8, MarkKeeps
  <2>2. RefusedIn(outbox)'
    BY <1>3, <1>8, <2>1, RowsStep
  <2>3. Outbox!NothingForgotten'
    BY <1>3, <2>1 DEF OutboxInv, Outbox!NothingForgotten, Outbox!Stored
  <2>4. run' \in Runs /\ RefusedIn(run.list)' /\ Running' /\ Outbox!FlushInOrder'
    BY <1>3, <1>4, <1>6, <1>8, ItemPassed DEF Outbox!Step
  <2> QED BY <1>2, <1>3, <1>6, <2>1, <2>2, <2>3, <2>4 DEF OutboxInv
<1>9. CASE Outbox!EndRun /\ UNCHANGED <<outbox, refused>>
  <2>1. run' \in Runs /\ run'.done = 0 /\ run'.list = <<>> /\ run'.at \in {"idle", "list"}
    BY <1>9, Ends
  <2>2. RefusedIn(run.list)' /\ Running' /\ Outbox!FlushInOrder'
    BY <1>6, <2>1, NothingPassed
  <2>3. outbox' \in Seq(OutboxRows) /\ RefusedIn(outbox)' /\ Outbox!NothingForgotten'
    BY <1>3, <1>9, RowsStay
  <2> QED BY <1>2, <1>3, <1>6, <2>1, <2>2, <2>3 DEF OutboxInv
<1> QED BY <1>3, <1>7, <1>8, <1>9

\* What the owner does: the run goes on, or one starts.
LEMMA OwnerRuns ==
  ASSUME MaxGeneration \in Nat, OutboxInv, Outbox!Flush \/ UNCHANGED run,
         UNCHANGED <<logged, refused, post>>, gone \subseteq gone'
  PROVE  run' \in Runs /\ RefusedIn(run.list)' /\ Running' /\ Outbox!FlushInOrder' /\ post' \in Posts
<1>1. post \in Posts /\ (post.answer = "ok" => post.msg \in logged)
  BY DEF OutboxInv, Running
<1>2. \/ UNCHANGED run
      \/ run' \in Runs /\ run'.done = 0 /\ run'.list = <<>> /\ run'.at \in {"idle", "list"}
  BY Flushes
<1>3. CASE UNCHANGED run
  BY <1>1, <1>3, NothingMoves
<1>4. CASE run' \in Runs /\ run'.done = 0 /\ run'.list = <<>> /\ run'.at \in {"idle", "list"}
  BY <1>1, <1>4, NothingPassed
<1> QED BY <1>2, <1>3, <1>4

LEMMA OwnerKeeps ==
  ASSUME MaxGeneration \in Nat, OutboxInv, NEW m \in Outbox!Messages,
         Outbox!Submit(m) \/ Outbox!Retry(m) \/ Outbox!Discard(m) \/ Outbox!Tick
  PROVE  OutboxInv'
<1>1. /\ UNCHANGED <<epoch, logged, refused, post>> /\ gone \subseteq gone'
      /\ Outbox!Flush \/ UNCHANGED run
  BY DEF Outbox!Submit, Outbox!Retry, Outbox!Discard, Outbox!Tick, Outbox!session, Outbox!fates,
         Outbox!runner
<1>2. run' \in Runs /\ RefusedIn(run.list)' /\ Running' /\ Outbox!FlushInOrder' /\ post' \in Posts
  BY <1>1, OwnerRuns
<1>3. /\ outbox \in Seq(OutboxRows) /\ epoch \in 0..MaxGeneration /\ RefusedIn(outbox)
      /\ Outbox!NothingForgotten
  BY DEF OutboxInv
<1>4. outbox' \in Seq(OutboxRows) /\ RefusedIn(outbox)' /\ Outbox!NothingForgotten'
  <2>1. CASE Outbox!Submit(m)
    <3>1. /\ Outbox!Row(m, "queued") \in OutboxRows
          /\ Outbox!Row(m, "queued").state = "queued" /\ Outbox!Row(m, "queued").msg = m
      BY DEF Outbox!Row, OutboxRows
    <3>2. /\ typed' = typed \cup {m} /\ outbox' = Append(outbox, Outbox!Row(m, "queued"))
          /\ UNCHANGED <<logged, refused, gone>>
      BY <2>1 DEF Outbox!Submit
    <3>3. PICK n \in Nat : n = Len(outbox)
      BY <1>3
    <3>4. /\ outbox' \in Seq(OutboxRows) /\ DOMAIN outbox = 1..n /\ DOMAIN outbox' = 1..(n + 1)
          /\ \A i \in 1..n : outbox'[i] = outbox[i]
          /\ outbox'[n + 1] = Outbox!Row(m, "queued")
      BY <1>3, <3>1, <3>2, <3>3
    <3>5. RefusedIn(outbox)'
      <4>1. \A i \in 1..(n + 1) : i \in 1..n \/ i = n + 1
        BY <3>3
      <4> QED BY <1>3, <3>1, <3>2, <3>4, <4>1 DEF RefusedIn
    <3>6. n + 1 \in 1..(n + 1) /\ 1..n \subseteq 1..(n + 1)
      BY <3>3
    <3>7. Outbox!Stored \cup {m} \subseteq Outbox!Stored'
      BY <3>1, <3>4, <3>6 DEF Outbox!Stored
    <3> QED BY <1>3, <3>2, <3>4, <3>5, <3>7 DEF Outbox!NothingForgotten
  <2>2. CASE Outbox!Retry(m)
    <3>1. outbox' = Outbox!Mark(m, "queued") /\ UNCHANGED <<typed, logged, refused, gone>>
      BY <2>2 DEF Outbox!Retry, Outbox!fates
    <3>2. /\ outbox' \in Seq(OutboxRows) /\ DOMAIN outbox' = DOMAIN outbox
          /\ \A i \in DOMAIN outbox' : outbox'[i].msg = outbox[i].msg
          /\ \A i \in DOMAIN outbox' : outbox'[i] = outbox[i] \/ (outbox'[i].msg = m /\ outbox'[i].state = "queued")
      BY <1>3, <3>1, MarkKeeps
    <3>3. RefusedIn(outbox)'
      BY <3>1, <3>2, RowsStep
    <3>4. Outbox!NothingForgotten'
      BY <1>3, <3>1, <3>2 DEF Outbox!NothingForgotten, Outbox!Stored
    <3> QED BY <3>2, <3>3, <3>4
  <2>3. CASE Outbox!Discard(m)
    <3>1. outbox' = Outbox!Delete(m) /\ gone' = gone \cup {m} /\ UNCHANGED <<typed, logged, refused>>
      BY <2>3 DEF Outbox!Discard
    <3>2. /\ outbox' \in Seq(OutboxRows)
          /\ \A i \in DOMAIN outbox' : \E j \in DOMAIN outbox : outbox'[i] = outbox[j]
          /\ \A j \in DOMAIN outbox : outbox[j].msg # m =>
               \E i \in DOMAIN outbox' : outbox'[i] = outbox[j]
      BY <1>3, <3>1, DeleteKeeps
    <3>3. RefusedIn(outbox)'
      BY <3>1, <3>2, RowsStep
    <3>4. Outbox!NothingForgotten'
      BY <3>1, <3>2, StaysStored
    <3> QED BY <3>2, <3>3, <3>4
  <2>4. CASE Outbox!Tick
    <3>1. UNCHANGED <<outbox, typed, logged, refused, gone>>
      BY <2>4 DEF Outbox!Tick, Outbox!fates
    <3> QED BY <3>1, RowsStay
  <2> QED BY <2>1, <2>2, <2>3, <2>4
<1> QED BY <1>1, <1>2, <1>3, <1>4 DEF OutboxInv

LEMMA OutboxNext ==
  ASSUME MaxGeneration \in Nat, MaxMessages \in Nat \ {0}, OutboxInv, [Outbox!Next]_(Outbox!vars)
  PROVE  OutboxInv'
<1>1. CASE UNCHANGED Outbox!vars
  <2>1. UNCHANGED <<epoch, outbox, typed, logged, refused, gone, run, post>>
    BY <1>1 DEF Outbox!vars
  <2>2. post \in Posts /\ (post.answer = "ok" => post.msg \in logged) /\ epoch \in 0..MaxGeneration
    BY DEF OutboxInv, Running
  <2>3. outbox' \in Seq(OutboxRows) /\ RefusedIn(outbox)' /\ Outbox!NothingForgotten'
    BY <2>1, RowsStay
  <2>4. run' \in Runs /\ RefusedIn(run.list)' /\ Running' /\ Outbox!FlushInOrder'
    BY <2>1, <2>2, NothingMoves
  <2> QED BY <2>1, <2>2, <2>3, <2>4 DEF OutboxInv
<1>2. CASE Outbox!Next
  <2>1. 1 \in Outbox!Messages
    BY DEF Outbox!Messages
  <2>2. CASE Outbox!SignIn \/ Outbox!Prepare \/ Outbox!SignOut
    BY <2>2, AccountKeeps
  <2>3. CASE Outbox!Kill
    BY <2>3, KillKeeps
  <2>4. CASE Outbox!List
    BY <2>4, ListKeeps
  <2>5. CASE Outbox!Item
    BY <2>5, ItemKeeps
  <2>6. CASE Outbox!Pass
    BY <2>6, PassKeeps
  <2>7. CASE Outbox!Answered
    BY <2>7, AnsweredKeeps
  <2>8. CASE Outbox!Refuse \/ Outbox!Unauthorized \/ Outbox!LoseRequest \/ Outbox!LoseAnswer
    BY <2>1, <2>8, ServerKeeps
  <2>9. CASE \E m \in Outbox!Messages : Outbox!Accept(m) \/ Outbox!ArriveLate(m)
    BY <2>9, ServerKeeps
  <2>10. CASE Outbox!Tick
    BY <2>1, <2>10, OwnerKeeps
  <2>11. CASE \E m \in Outbox!Messages : Outbox!Submit(m) \/ Outbox!Retry(m) \/ Outbox!Discard(m)
    BY <2>11, OwnerKeeps
  <2> QED
    BY <1>2, <2>2, <2>3, <2>4, <2>5, <2>6, <2>7, <2>8, <2>9, <2>10, <2>11, Zenon DEF Outbox!Next
<1> QED BY <1>1, <1>2

\* Only the runner posts, for the account it started under.
LEMMA PostsForItsOwner ==
  ASSUME OutboxInv, [Outbox!Next]_(Outbox!vars)
  PROVE  post'.answer = "sent" /\ post # post' => run.gen = epoch
<1>1. post \in Posts
  BY DEF OutboxInv
<1>2. CASE UNCHANGED Outbox!vars
  BY <1>2 DEF Outbox!vars
<1>3. CASE UNCHANGED post
  BY <1>3
<1>4. CASE Outbox!Item
  BY <1>4 DEF Outbox!Item
<1>5. CASE Outbox!Kill \/ Outbox!Answered
  <2>1. post' = Outbox!NoPost
    BY <1>5 DEF Outbox!Kill, Outbox!Answered
  <2> QED BY <2>1 DEF Outbox!NoPost
<1>6. CASE Outbox!Refuse \/ Outbox!Unauthorized \/ Outbox!LoseRequest \/ Outbox!LoseAnswer
  <2>1. \E a \in {"no", "401", "net"} : post' = [post EXCEPT !.answer = a]
    BY <1>6 DEF Outbox!Refuse, Outbox!Unauthorized, Outbox!LoseRequest, Outbox!LoseAnswer, Outbox!Fail
  <2> QED BY <1>1, <2>1 DEF Posts
<1>7. CASE \E m \in Outbox!Messages : Outbox!Accept(m)
  BY <1>1, <1>7 DEF Outbox!Accept, Posts
<1>8. CASE Outbox!SignIn \/ Outbox!Prepare \/ Outbox!SignOut \/ Outbox!List \/ Outbox!Pass \/ Outbox!Tick
  BY <1>8 DEF Outbox!SignIn, Outbox!Prepare, Outbox!SignOut, Outbox!List, Outbox!Pass, Outbox!Tick,
              Outbox!runner
<1>9. CASE \E m \in Outbox!Messages : \/ Outbox!Submit(m) \/ Outbox!Retry(m)
                                      \/ Outbox!Discard(m) \/ Outbox!ArriveLate(m)
  BY <1>9 DEF Outbox!Submit, Outbox!Retry, Outbox!Discard, Outbox!ArriveLate, Outbox!runner
<1> QED
  BY <1>2, <1>4, <1>5, <1>6, <1>7, <1>8, <1>9, Zenon DEF Outbox!Next

\* Nothing typed is forgotten, a run passes by nothing and posts for nobody else.
THEOREM OutboxKeeps ==
  ASSUME MaxGeneration \in Nat, MaxMessages \in Nat \ {0}
  PROVE  Outbox!Spec => [](Outbox!NothingForgotten /\ Outbox!FlushInOrder) /\ Outbox!NeverForAnother
<1>1. Outbox!Init => OutboxInv
  BY OutboxInit
<1>2. OutboxInv /\ [Outbox!Next]_(Outbox!vars) => OutboxInv'
  BY OutboxNext
<1>3. OutboxInv => Outbox!NothingForgotten /\ Outbox!FlushInOrder
  BY DEF OutboxInv
<1>4. OutboxInv /\ [Outbox!Next]_(Outbox!vars) =>
        [post'.answer = "sent" /\ post # post' => run.gen = epoch]_(Outbox!vars)
  BY PostsForItsOwner
<1> QED BY <1>1, <1>2, <1>3, <1>4, PTL DEF Outbox!Spec, Outbox!NeverForAnother
=============================================================================
