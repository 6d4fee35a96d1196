------------------------------ MODULE MCAccounts ------------------------------
(* Accounts: the sign-in sessions of one (Sessions), how it proves who it is *)
(* (SignIn), what its phone keeps of a session (MobileSession) and of what   *)
(* it typed (MobileOutbox), the people of a group whose operations run one   *)
(* at a time (GroupMembership), an account that is deleted (AccountDeletion),*)
(* a person who is reported (Moderation), who is online (Presence) and where *)
(* a phone's notifications go (PushDevices).  Each behaviour chooses a focus *)
(* and moves that component alone.  What Sessions and the composition promise *)
(* is proved here; what the others do, in PeopleProofs.                      *)
EXTENDS Sessions, TLC, TLAPS

CONSTANTS
  t1, t2, t3, u2, n1, n2, x1, x2,                                            \* of the sets below
  Entrants, Emails, MaxFailures, Threshold, PerWindow, MaxAttempts, NoEmail, \* SignIn
  Users, Founders, Creator, Operation, Listeners, ApiNodes, ServedBy, SocketNode,
  MaxMembers, MaxAdds, NoUser,                                               \* GroupMembership
  Handlers, MaxCrashes,                                                      \* AccountDeletion
  Moderators, Reports, Visits, MaxFilings, MaxTime, Days,                    \* Moderation
  Conns, Hosts, NodeOf, MaxDeaths, MaxSettings,                              \* Presence
  Accounts, MaxLogins, MaxPushes,                                            \* PushDevices
  NoId

VARIABLES
  focus,
  iLink, iCode, iVerifyToken, iVerified, iAttempts, iDelayed, iCodeFailures, iTask,
  pHead, pEnded, pLogins, pGeneration, pFamily, pAccess, pKeystore, pQueue, pRefresh,
  pRequest, pRestored, pRevoking, pAdrift, pReused, pMishap,
  oGeneration, oReady, oOutbox, oTyped, oLogged, oRefused, oGone, oRun, oAgain, oCounts,
  oPost, oAdrift, oRejected, oKills,
  gActive, gRole, gJoined, gClock, gSerial, gReq, gSocket, gHears,
  dDeleted, dProfile, dSharing, dExclusive, dChat, dInserting, dGroup, dActive, dTexts, dReq,
  dBegun, dGot, dCrashes,
  rNow, rReport, rFilings, rPerson, rVerdicts, rPage, rConsole, rSession, rExcused,
  lSocket, lReady, lEntries, lOnline, lJob, lVisible, lTold, lUp, lSettings, lAdrift,
  wOwner, wLive, wRow, wPhone, wKnown, wLeaving, wReg, wUnreg, wEnding, wPush, wPushes

signInVars == <<iLink, iCode, iVerifyToken, iVerified, iAttempts, iDelayed, iCodeFailures,
                iTask>>
phoneVars == <<pHead, pEnded, pLogins, pGeneration, pFamily, pAccess, pKeystore, pQueue,
               pRefresh, pRequest, pRestored, pRevoking, pAdrift, pReused, pMishap>>
outboxVars == <<oGeneration, oReady, oOutbox, oTyped, oLogged, oRefused, oGone, oRun,
                oAgain, oCounts, oPost, oAdrift, oRejected, oKills>>
groupVars == <<gActive, gRole, gJoined, gClock, gSerial, gReq, gSocket, gHears>>
deletionVars == <<dDeleted, dProfile, dSharing, dExclusive, dChat, dInserting, dGroup, dActive,
                  dTexts, dReq, dBegun, dGot, dCrashes>>
reportVars == <<rNow, rReport, rFilings, rPerson, rVerdicts, rPage, rConsole, rSession, rExcused>>
onlineVars == <<lSocket, lReady, lEntries, lOnline, lJob, lVisible, lTold, lUp, lSettings, lAdrift>>
pushVars == <<wOwner, wLive, wRow, wPhone, wKnown, wLeaving, wReg, wUnreg, wEnding, wPush, wPushes>>

\* The modules PeopleProofs is about.  One email, two guesses at a time, a delay
\* after one failure.  Two founders and two others, one operation on the group at
\* a time, one who listens on another node.  Two requests about an account, of
\* either person, and a crash.  Two moderators, a report filed twice, a sign-in.
\* Two connections on two nodes, one of which may die.  Two accounts that sign in
\* on a phone one after the other, and a push.  In a phone's session, one sign-in
\* and two refreshes.  In its outbox, two messages, a sign-in, a sign-out and
\* another sign-in, one kill; a 401 is final (two, for one message, in MCProgress).
People == INSTANCE PeopleProofs WITH
  Logins <- Visits, Requests <- {Operation}, Online <- Listeners, Nodes <- ApiNodes, None <- NoId,
  active <- gActive, role <- gRole, joined <- gJoined, clock <- gClock, serial <- gSerial,
  req <- gReq, socket <- gSocket, hears <- gHears,
  link <- iLink, code <- iCode, verifyToken <- iVerifyToken, verified <- iVerified,
  attempts <- iAttempts, delayed <- iDelayed, codeFailures <- iCodeFailures, task <- iTask,
  deleted <- dDeleted, profile <- dProfile, sharing <- dSharing, exclusive <- dExclusive,
  chat <- dChat, inserting <- dInserting, group <- dGroup, inside <- dActive,
  texts <- dTexts, ask <- dReq, begun <- dBegun, got <- dGot, crashes <- dCrashes,
  now <- rNow, report <- rReport, filings <- rFilings, person <- rPerson,
  verdicts <- rVerdicts, page <- rPage, console <- rConsole, session <- rSession,
  excused <- rExcused,
  stream <- lSocket, ready <- lReady, entries <- lEntries, online <- lOnline, job <- lJob,
  visible <- lVisible, told <- lTold, up <- lUp, settings <- lSettings, adrift <- lAdrift,
  owner <- wOwner, live <- wLive, row <- wRow, phone <- wPhone, known <- wKnown,
  leaving <- wLeaving, reg <- wReg, unreg <- wUnreg, ending <- wEnding, push <- wPush,
  pushes <- wPushes,
  Callers <- Requests, MaxSignIns <- 1, MaxRotations <- 2,
  head <- pHead, ended <- pEnded, logins <- pLogins, generation <- pGeneration,
  family <- pFamily, access <- pAccess, keystore <- pKeystore, queue <- pQueue,
  refresh <- pRefresh, calls <- pRequest, restored <- pRestored, revoking <- pRevoking,
  straying <- pAdrift, reused <- pReused, mishap <- pMishap,
  MaxMessages <- 2, MaxGeneration <- 3, MaxUnauthorized <- 1, MaxKills <- 1,
  epoch <- oGeneration, prepared <- oReady, outbox <- oOutbox, typed <- oTyped,
  logged <- oLogged, refused <- oRefused, gone <- oGone, run <- oRun, again <- oAgain,
  counts <- oCounts, post <- oPost, lost <- oAdrift, rejected <- oRejected, kills <- oKills

\* The listener's socket is on another node.
OnOneNode == [r \in {Operation} |-> n1]
ListenersElsewhere == [u \in Users |-> IF u = u2 THEN n2 ELSE n1]
OnTwoNodes == [c \in Conns |-> IF c = x1 THEN n1 ELSE n2]

ASSUME AccountsAssumption ==
  /\ Founders \subseteq Users /\ Creator \in Founders /\ Listeners \subseteq Users
  /\ ServedBy \in [{Operation} -> ApiNodes] /\ SocketNode \in [Users -> ApiNodes]
  /\ People!IsFiniteSet(Users) /\ MaxMembers \in Nat
  /\ People!Cardinality(Founders) <= MaxMembers /\ MaxAdds \in Nat /\ NoUser \notin Users
  /\ People!SignInAssumption /\ MaxCrashes \in Nat
  /\ People!DeskAssumption /\ People!OnlineAssumption /\ People!PushAssumption

Symmetry == Permutations(Requests)

\* Tokens are interchangeable: they are created in this order.
InOrder ==
  /\ family[t2] # NoFamily => family[t1] # NoFamily
  /\ family[t3] # NoFamily => family[t2] # NoFamily

AccountsInit ==
  /\ focus \in {"sessions", "door", "phone", "outbox", "group", "deletion",
               "reports", "online", "push"}
  /\ Init /\ People!Door!Init /\ People!Phone!Init /\ People!Outbox!Init /\ People!Init
  /\ People!Deletion!Init /\ (focus # "deletion" => ~dGroup /\ dActive = {})
  /\ People!Desk!Init /\ People!Status!Init /\ People!Push!Init

AccountsNext ==
  /\ UNCHANGED focus
  /\ \/ /\ focus = "sessions" /\ Next /\ InOrder'
        /\ UNCHANGED <<signInVars, phoneVars, outboxVars, groupVars,
                       deletionVars, reportVars, onlineVars, pushVars>>
     \/ /\ focus = "door" /\ People!Door!Next
        /\ UNCHANGED <<vars, phoneVars, outboxVars, groupVars,
                       deletionVars, reportVars, onlineVars, pushVars>>
     \/ /\ focus = "phone" /\ People!Phone!Next
        /\ UNCHANGED <<vars, signInVars, outboxVars, groupVars,
                       deletionVars, reportVars, onlineVars, pushVars>>
     \/ /\ focus = "outbox" /\ People!Outbox!Next
        /\ UNCHANGED <<vars, signInVars, phoneVars, groupVars,
                       deletionVars, reportVars, onlineVars, pushVars>>
     \/ /\ focus = "group" /\ People!Next
        /\ UNCHANGED <<vars, signInVars, phoneVars, outboxVars,
                       deletionVars, reportVars, onlineVars, pushVars>>
     \/ /\ focus = "deletion" /\ People!Deletion!Next
        /\ UNCHANGED <<vars, signInVars, phoneVars, outboxVars, groupVars,
                       reportVars, onlineVars, pushVars>>
     \/ /\ focus = "reports" /\ People!Desk!Next
        /\ UNCHANGED <<vars, signInVars, phoneVars, outboxVars, groupVars,
                       deletionVars, onlineVars, pushVars>>
     \/ /\ focus = "online" /\ People!Status!Next
        /\ UNCHANGED <<vars, signInVars, phoneVars, outboxVars, groupVars,
                       deletionVars, reportVars, pushVars>>
     \/ /\ focus = "push" /\ People!Push!Next
        /\ UNCHANGED <<vars, signInVars, phoneVars, outboxVars, groupVars,
                       deletionVars, reportVars, onlineVars>>

AccountsSpec ==
  AccountsInit
  /\ [][AccountsNext]_<<focus, vars, signInVars, phoneVars, outboxVars, groupVars,
                        deletionVars, reportVars, onlineVars, pushVars>>

-----------------------------------------------------------------------------
\* An emailed code withstands a bounded number of wrong guesses (users.ts:216).
GuessesBounded == People!Door!GuessesBounded

\* The refresh token in the keystore is the live one of its family
\* (session.ts:143), and no spent one is presented again unless an answer was
\* lost (:200).
PhoneSessionSound == People!Phone!StoredIsCurrent /\ People!Phone!NeverReused

\* What is typed on the phone stays in its outbox until it is sent, refused or
\* wiped (store.ts:217); a flush skips nothing (flush.ts:30) and never posts
\* for another account (flush.ts:45).
PhoneAccountSound ==
  /\ [](PhoneSessionSound /\ People!Outbox!NothingForgotten /\ People!Outbox!FlushInOrder)
  /\ People!Outbox!NeverForAnother

\* A deleted account is in no chat again (live-users.ts:17) and keeps nothing
\* written after it (account.ts:57); a report filed gets one verdict
\* (moderation.service.ts:129) and who is restricted keeps no session (:201); a
\* contact's last word is the current state (presence.service.ts:95); a session
\* that ended gets no push (devices.ts:65, registration.ts:31); a group whose
\* operations run one at a time has an admin and keeps its limit
\* (conversations.ts:482, conversations.service.ts:192).
PeopleSound ==
  /\ People!Deletion!NoWayBackIn /\ People!Deletion!ChatAsAnswered /\ People!Deletion!StaysErased
  /\ People!Desk!HandledOnce /\ People!Desk!SessionsEnd
  /\ People!Status!NoGhosts /\ People!Status!LastWord
  /\ People!Push!NeverLeftBound /\ People!Push!NoMorePreviews
  /\ People!AlwaysAnAdmin /\ People!WithinLimit

(******************************* The sessions ******************************)

\* What a request at a label knows: a refresh at the gate names a token of
\* its family, a sign-in holds a family that nothing else knows of.
Linked ==
  /\ \A t \in live : family[t] # NoFamily
  /\ \A r \in Requests :
       /\ At(r, "idle") => req[r].fam = NoFamily /\ req[r].op = "none"
       /\ At(r, "gate") => /\ req[r].op = "refresh"
                           /\ req[r].tok \in Tokens
                           /\ family[req[r].tok] = req[r].fam
                           /\ req[r].fam # NoFamily
       /\ req[r].op = "login" =>
            /\ req[r].at \in {"issue", "insert"}
            /\ req[r].fam # NoFamily
            /\ Of(req[r].fam) = {}
            /\ \A s \in Requests : s # r => req[s].fam # req[r].fam
       /\ req[r].at \in {"issue", "insert"} =>
            req[r].op \in {"login", "refresh"} /\ req[r].fam # NoFamily
       /\ req[r].op = "refresh" => req[r].at \in {"gate", "issue", "insert"}

IInv == TypeOK /\ OneHeir /\ Linked

Record == [op : Ops \cup {"none"}, at : Labels \cup {"idle"},
           tok : Tokens \cup {NoToken}, fam : Families \cup {NoFamily},
           node : Nodes \cup {NoNode}, pw : 0..MaxChanges]

LEMMA InitInv == Init => IInv
<1> SUFFICES ASSUME Init PROVE IInv OBVIOUS
<1>0. Idle \in Record BY SessionsAssumption DEF Record, Idle
<1>1. TypeOK
  <2>1. req \in [Requests -> Record] BY <1>0 DEF Init
  <2>2. password \in 0..MaxChanges /\ era \in [Families -> 0..MaxChanges]
    BY SessionsAssumption DEF Init
  <2>3. family \in [Tokens -> Families \cup {NoFamily}] BY DEF Init
  <2>4. /\ cache \in [Nodes -> States \cup {NoState}]
        /\ reading \in [Nodes -> States \cup {NoState}]
    BY DEF Init
  <2> QED BY <2>1, <2>2, <2>3, <2>4 DEF Init, TypeOK, Record
<1>2. OneHeir BY DEF Init, OneHeir, Issuing, Idle
<1>3. Linked BY DEF Init, Linked, Idle, At
<1> QED BY <1>1, <1>2, <1>3 DEF IInv

\* Starting a request keeps the types.
LEMMA BeginType ==
  ASSUME TypeOK, NEW r \in Requests, NEW op \in Ops, NEW label \in Labels,
         NEW t \in Tokens \cup {NoToken}, NEW f \in Families \cup {NoFamily},
         NEW n \in Nodes, Begin(r, op, label, t, f, n)
  PROVE  /\ req' \in [Requests -> Record]
         /\ req'[r] = [op |-> op, at |-> label, tok |-> t, fam |-> f,
                       node |-> n, pw |-> password]
         /\ \A s \in Requests : s # r => req'[s] = req[s]
BY DEF TypeOK, Begin, Record

LEMMA GotoType ==
  ASSUME TypeOK, NEW r \in Requests, NEW label \in Labels, Goto(r, label)
  PROVE  /\ req' \in [Requests -> Record]
         /\ req'[r].at = label /\ req'[r].op = req[r].op
         /\ req'[r].tok = req[r].tok /\ req'[r].fam = req[r].fam
         /\ req'[r].pw = req[r].pw /\ req'[r].node = req[r].node
         /\ \A s \in Requests : s # r => req'[s] = req[s]
BY DEF TypeOK, Goto, Record

LEMMA DoneType ==
  ASSUME TypeOK, NEW r \in Requests, Done(r)
  PROVE  /\ req' \in [Requests -> Record]
         /\ req'[r] = Idle
         /\ \A s \in Requests : s # r => req'[s] = req[s]
BY SessionsAssumption DEF TypeOK, Done, Record, Idle

\* A step that starts a request, other than a sign-in, of a family that has
\* tokens (or of none) and touches no row keeps the invariant.
LEMMA BeginKeeps ==
  ASSUME IInv, NEW r \in Requests, NEW op \in Ops \ {"login"},
         NEW label \in Labels \ {"issue", "insert"},
         NEW t \in Tokens \cup {NoToken}, NEW f \in Families \cup {NoFamily},
         NEW n \in Nodes, Begin(r, op, label, t, f, n), At(r, "idle"),
         f # NoFamily => Of(f) # {},
         label = "gate" => t \in Tokens /\ family[t] = f /\ f # NoFamily,
         op = "refresh" <=> label = "gate",
         UNCHANGED <<rows, auth>>
  PROVE  IInv'
<1>0. TypeOK BY DEF IInv
<1>1. /\ req' \in [Requests -> Record]
      /\ req'[r] = [op |-> op, at |-> label, tok |-> t, fam |-> f,
                    node |-> n, pw |-> password]
      /\ \A s \in Requests : s # r => req'[s] = req[s]
  BY <1>0, BeginType
<1>2. TypeOK' BY <1>0, <1>1 DEF TypeOK, rows, user, auth, Record
<1>3. OneHeir' BY <1>1 DEF IInv, OneHeir, Issuing, rows, Of
<1>4. Linked' BY <1>1 DEF IInv, Linked, At, rows, Of, Labels, Ops
<1> QED BY <1>2, <1>3, <1>4 DEF IInv

\* A step that moves a request on between labels that hold no right to a
\* token, and only takes tokens away, keeps the invariant.
LEMMA GotoKeeps ==
  ASSUME IInv, NEW r \in Requests, NEW label \in {"revoke", "invalidate", "publish"},
         Goto(r, label), req[r].op \notin {"login", "refresh"}, ~At(r, "idle"),
         UNCHANGED family, live' \subseteq live,
         password' \in 0..MaxChanges, era' \in [Families -> 0..MaxChanges],
         restricted' \in BOOLEAN, deleted' \in BOOLEAN,
         cache' \in [Nodes -> States \cup {NoState}], UNCHANGED <<reading, notices>>
  PROVE  IInv'
<1>0. TypeOK /\ label \in Labels BY DEF IInv, Labels
<1>1. /\ req' \in [Requests -> Record]
      /\ req'[r].at = label /\ req'[r].op = req[r].op /\ req'[r].fam = req[r].fam
      /\ \A s \in Requests : s # r => req'[s] = req[s]
  BY <1>0, GotoType
<1>2. TypeOK' BY <1>0, <1>1 DEF TypeOK, Record
<1>3. OneHeir' BY <1>1 DEF IInv, OneHeir, Issuing, Of
<1>4. Linked' BY <1>0, <1>1 DEF IInv, Linked, At, Of
<1> QED BY <1>2, <1>3, <1>4 DEF IInv

\* A step that ends a request and only takes tokens away keeps the invariant.
LEMMA DoneKeeps ==
  ASSUME IInv, NEW r \in Requests, Done(r),
         UNCHANGED <<family, user, era, reading>>, live' \subseteq live,
         cache' \in [Nodes -> States \cup {NoState}], notices' \subseteq Nodes
  PROVE  IInv'
<1>0. TypeOK BY DEF IInv
<1>1. /\ req' \in [Requests -> Record] /\ req'[r] = Idle
      /\ \A s \in Requests : s # r => req'[s] = req[s]
  BY <1>0, DoneType
<1>2. TypeOK' BY <1>0, <1>1 DEF TypeOK, Record, user
<1>3. OneHeir' BY <1>1 DEF IInv, OneHeir, Issuing, Of, Idle
<1>4. Linked' BY <1>1 DEF IInv, Linked, At, Of, Idle
<1> QED BY <1>2, <1>3, <1>4 DEF IInv

LEMMA StartLoginKeeps ==
  ASSUME IInv, NEW r \in Requests, NEW f \in Families, NEW n \in Nodes,
         StartLogin(r, f, n)
  PROVE  IInv'
<1>0. TypeOK /\ "login" \in Ops /\ "issue" \in Labels BY DEF IInv, Ops, Labels
<1>1. /\ req' \in [Requests -> Record]
      /\ req'[r] = [op |-> "login", at |-> "issue", tok |-> NoToken, fam |-> f,
                    node |-> n, pw |-> password]
      /\ \A s \in Requests : s # r => req'[s] = req[s]
  BY <1>0, BeginType DEF StartLogin
<1>2. TypeOK' BY <1>0, <1>1 DEF TypeOK, StartLogin, rows, user, auth, Record
<1>3. OneHeir' BY <1>1 DEF IInv, OneHeir, Issuing, Of, StartLogin, rows
<1>4. Linked' BY <1>1, SessionsAssumption DEF IInv, Linked, At, Of, StartLogin, rows
<1> QED BY <1>2, <1>3, <1>4 DEF IInv

LEMMA SpendKeeps ==
  ASSUME IInv, NEW r \in Requests, Spend(r)
  PROVE  IInv'
<1>0. TypeOK BY DEF IInv
<1>1. CASE req[r].tok \notin live
  <2>1. Done(r) /\ live' \subseteq live /\ UNCHANGED <<family, user, era, reading>>
        /\ cache' \in [Nodes -> States \cup {NoState}] /\ notices' \subseteq Nodes
    BY <1>0, <1>1 DEF Spend, TypeOK, auth
  <2> QED BY <2>1, DoneKeeps
<1>2. CASE req[r].tok \in live
  <2>0. Goto(r, "issue") /\ live' = live \ {req[r].tok} /\ At(r, "gate")
        /\ UNCHANGED <<family, era, user, auth>>
    BY <1>2 DEF Spend
  <2>1. /\ req' \in [Requests -> Record]
        /\ req'[r].at = "issue" /\ req'[r].op = req[r].op /\ req'[r].fam = req[r].fam
        /\ \A s \in Requests : s # r => req'[s] = req[s]
    BY <1>0, <2>0, GotoType DEF Labels
  <2>2. /\ req[r].op = "refresh" /\ req[r].tok \in Of(req[r].fam)
        /\ req[r].fam \in Families
    BY <1>0, <2>0 DEF IInv, Linked, At, Of, TypeOK, Record, Labels
  <2>3. TypeOK' BY <1>0, <2>0, <2>1 DEF TypeOK, Record, user, auth
  <2>4. OneHeir' BY <1>2, <2>0, <2>1, <2>2 DEF IInv, OneHeir, Issuing, Of
  <2>5. Linked' BY <2>0, <2>1, <2>2 DEF IInv, Linked, At, Of
  <2> QED BY <2>3, <2>4, <2>5 DEF IInv
<1> QED BY <1>1, <1>2

LEMMA ReadUserKeeps ==
  ASSUME IInv, NEW r \in Requests, ReadUser(r)
  PROVE  IInv'
<1>0. TypeOK BY DEF IInv
<1>1. CASE restricted
  BY <1>0, <1>1, DoneKeeps DEF ReadUser, rows, user, auth, TypeOK
<1>2. CASE ~restricted
  <2>0. Goto(r, "insert") /\ At(r, "issue") /\ UNCHANGED <<rows, auth>>
    BY <1>2 DEF ReadUser
  <2>1. /\ req' \in [Requests -> Record]
        /\ req'[r].at = "insert" /\ req'[r].op = req[r].op /\ req'[r].fam = req[r].fam
        /\ \A s \in Requests : s # r => req'[s] = req[s]
    BY <1>0, <2>0, GotoType DEF Labels
  <2>3. TypeOK' BY <1>0, <2>0, <2>1 DEF TypeOK, Record, rows, user, auth
  <2>4. OneHeir' BY <2>0, <2>1 DEF IInv, OneHeir, Issuing, Of, rows, At
  <2>5. Linked' BY <2>0, <2>1 DEF IInv, Linked, At, Of, rows
  <2> QED BY <2>3, <2>4, <2>5 DEF IInv
<1> QED BY <1>1, <1>2

LEMMA InsertTokenKeeps ==
  ASSUME IInv, NEW r \in Requests, NEW t \in Tokens, InsertToken(r, t)
  PROVE  IInv'
<1>0. TypeOK BY DEF IInv
<1>1. /\ req' \in [Requests -> Record] /\ req'[r] = Idle
      /\ \A s \in Requests : s # r => req'[s] = req[s]
  BY <1>0, DoneType DEF InsertToken
<1>2. req[r].fam \in Families /\ req[r].pw \in 0..MaxChanges
  BY <1>0 DEF IInv, Linked, InsertToken, At, TypeOK
<1>3. /\ family' \in [Tokens -> Families \cup {NoFamily}]
      /\ family'[t] = req[r].fam /\ live' = live \cup {t} /\ t \notin live
      /\ \A u \in Tokens : u # t => family'[u] = family[u]
  BY <1>0, <1>2 DEF InsertToken, TypeOK, IInv, Linked
<1>4. TypeOK'
  BY <1>0, <1>1, <1>2, <1>3 DEF TypeOK, InsertToken, Record, user, auth
<1>5. Issuing(r, req[r].fam) BY DEF InsertToken, Issuing, At
<1>6. OneHeir'
  BY <1>0, <1>1, <1>2, <1>3, <1>5 DEF IInv, OneHeir, Issuing, Of, Idle, TypeOK
<1>7. Linked'
  BY <1>0, <1>1, <1>2, <1>3, SessionsAssumption
     DEF IInv, Linked, At, Of, Idle, TypeOK, InsertToken
<1> QED BY <1>4, <1>6, <1>7 DEF IInv

LEMMA CommitChangeKeeps ==
  ASSUME IInv, NEW r \in Requests, CommitChange(r)
  PROVE  IInv'
<1>1. /\ password' \in 0..MaxChanges /\ live' \subseteq live
      /\ era' \in [Families -> 0..MaxChanges]
  BY SessionsAssumption
     DEF IInv, TypeOK, CommitChange, SetPassword, RevokeAllExcept
<1> QED BY <1>1, GotoKeeps DEF CommitChange, At, auth, IInv, TypeOK

LEMMA CommitResetKeeps ==
  ASSUME IInv, NEW r \in Requests, CommitReset(r)
  PROVE  IInv'
<1>1. password' \in 0..MaxChanges
  BY SessionsAssumption DEF IInv, TypeOK, CommitReset, SetPassword
<1> QED BY <1>1, GotoKeeps DEF CommitReset, At, auth, IInv, TypeOK

LEMMA ModerateKeeps ==
  ASSUME IInv, NEW r \in Requests, Restrict(r) \/ Lift(r) \/ Erase(r)
  PROVE  IInv'
<1>1. live' \subseteq live BY DEF Restrict, Lift, Erase, RevokeAllExcept
<1>2. restricted' \in BOOLEAN /\ deleted' \in BOOLEAN
  BY DEF Restrict, Lift, Erase, IInv, TypeOK
<1> QED BY <1>1, <1>2, GotoKeeps DEF Restrict, Lift, Erase, At, auth, IInv, TypeOK

LEMMA InvalidateKeeps ==
  ASSUME IInv, NEW r \in Requests, Invalidate(r)
  PROVE  IInv'
<1>1. cache' \in [Nodes -> States \cup {NoState}]
  BY DEF IInv, TypeOK, Invalidate
<1>2. req[r].op \notin {"login", "refresh"}
  BY DEF IInv, Linked, Invalidate, At
<1>3. CASE req[r].op = "lift"
  <2>1. Done(r) BY <1>3 DEF Invalidate, AfterInvalidate
  <2> QED BY <1>1, <2>1, DoneKeeps DEF Invalidate, rows, user, IInv, TypeOK
<1>4. CASE req[r].op # "lift"
  <2>1. PICK label \in {"revoke", "publish"} : Goto(r, label)
    BY <1>4 DEF Invalidate, AfterInvalidate
  <2> QED
    BY <1>1, <1>2, <2>1, GotoKeeps DEF Invalidate, At, rows, user, IInv, TypeOK
<1> QED BY <1>3, <1>4

LEMMA RevokeKeeps ==
  ASSUME IInv, NEW r \in Requests, Revoke(r)
  PROVE  IInv'
<1>1. live' \subseteq live BY DEF Revoke, RevokeAllExcept
<1>2. CASE req[r].op = "logout"
  BY <1>1, <1>2, DoneKeeps DEF Revoke, auth, IInv, TypeOK
<1>3. CASE req[r].op # "logout"
  BY <1>1, <1>3, GotoKeeps DEF Revoke, At, user, auth, IInv, TypeOK
<1> QED BY <1>2, <1>3

\* Steps that leave the rows and the requests alone.
LEMMA CacheKeeps ==
  ASSUME IInv, UNCHANGED <<rows, req>>,
         cache' \in [Nodes -> States \cup {NoState}],
         reading' \in [Nodes -> States \cup {NoState}], notices' \subseteq Nodes
  PROVE  IInv'
BY DEF IInv, TypeOK, OneHeir, Linked, rows, user, Issuing, Of, At

LEMMA NodeKeeps ==
  ASSUME IInv, NEW n \in Nodes,
         StartRead(n) \/ FinishRead(n) \/ Expire(n) \/ HearEnded(n)
  PROVE  IInv'
<1>1. StateNow \in States BY DEF IInv, TypeOK, StateNow, States
<1> QED
  BY <1>1, CacheKeeps
     DEF StartRead, FinishRead, Expire, HearEnded, IInv, TypeOK

LEMMA CrashKeeps ==
  ASSUME IInv, NEW n \in Nodes, Crash(n)
  PROVE  IInv'
<1>1. Idle \in Record BY SessionsAssumption DEF Record, Idle
<1>2. /\ req' \in [Requests -> Record]
      /\ \A r \in Requests : req'[r] = Idle \/ req'[r] = req[r]
  BY <1>1 DEF Crash, IInv, TypeOK, Record
<1>3. TypeOK' BY <1>2 DEF IInv, TypeOK, Crash, Record, rows, user
<1>4. OneHeir' BY <1>2 DEF IInv, OneHeir, Issuing, Idle, Crash, rows, Of
<1>5. Linked' BY <1>2 DEF IInv, Linked, Idle, Crash, rows, At, Of
<1> QED BY <1>3, <1>4, <1>5 DEF IInv

LEMMA ServeKeeps ==
  ASSUME IInv, NEW r \in Requests, Serve(r)
  PROVE  IInv'
<1>1. ASSUME NEW n \in Nodes, NEW f \in Families, StartLogin(r, f, n) PROVE IInv'
  BY <1>1, StartLoginKeeps
<1>2. ASSUME NEW n \in Nodes, NEW t \in Tokens,
             StartRefresh(r, t, n) \/ StartLogout(r, t, n)
      PROVE  IInv'
  <2>1. family[t] \in Families \cup {NoFamily} /\ t \in Of(family[t])
    BY DEF IInv, TypeOK, Of
  <2>2. CASE StartRefresh(r, t, n)
    BY <2>1, <2>2, BeginKeeps DEF StartRefresh, Ops, Labels
  <2>3. CASE StartLogout(r, t, n)
    BY <2>1, <2>3, BeginKeeps DEF StartLogout, Ops, Labels
  <2> QED BY <1>2, <2>2, <2>3
<1>3. ASSUME NEW n \in Nodes, NEW f \in Families \cup {NoFamily}, StartChange(r, f, n)
      PROVE  IInv'
  <2>1. f # NoFamily => Of(f) # {} BY <1>3 DEF StartChange
  <2> QED BY <1>3, <2>1, BeginKeeps DEF StartChange, Ops, Labels
<1>4. ASSUME NEW n \in Nodes, StartReset(r, n) PROVE IInv'
  BY <1>4, BeginKeeps DEF StartReset, Ops, Labels
<1>5. ASSUME NEW n \in Nodes, NEW op \in {"restrict", "lift", "delete"},
             StartModerate(r, op, n)
      PROVE  IInv'
  BY <1>5, BeginKeeps DEF StartModerate, Ops, Labels
<1>6. CASE Publish(r)
  BY <1>6, DoneKeeps DEF Publish, rows, IInv, TypeOK
<1> QED
  BY <1>1, <1>2, <1>3, <1>4, <1>5, <1>6, SpendKeeps, ReadUserKeeps, InsertTokenKeeps,
     CommitChangeKeeps, CommitResetKeeps, ModerateKeeps, InvalidateKeeps, RevokeKeeps
     DEF Serve

LEMMA NextInv == IInv /\ [Next]_vars => IInv'
<1> SUFFICES ASSUME IInv, [Next]_vars PROVE IInv' OBVIOUS
<1>1. CASE UNCHANGED vars
  BY <1>1, CacheKeeps DEF vars, rows, user, IInv, TypeOK
<1>2. CASE \E r \in Requests : Serve(r) BY <1>2, ServeKeeps
<1>3. CASE \E n \in Nodes : \/ StartRead(n) \/ FinishRead(n) \/ Expire(n)
                             \/ HearEnded(n) \/ Crash(n)
  BY <1>3, NodeKeeps, CrashKeeps
<1> QED BY <1>1, <1>2, <1>3 DEF Next

LEMMA Invariance == Spec => []IInv
BY InitInv, NextInv, PTL DEF Spec

\* Types.
THEOREM TypesHold == Spec => []TypeOK
<1>1. IInv => TypeOK BY DEF IInv
<1> QED BY <1>1, Invariance, PTL

\* A session never has two heirs: whatever the number of tabs that refresh
\* with one token, nodes that crash and operations that end sessions.
THEOREM SessionsNeverFork == Spec => []OneHeir
<1>1. IInv => OneHeir BY DEF IInv
<1> QED BY <1>1, Invariance, PTL

\* No step makes a request that extends a dead family.
LEMMA DeadNotIssued ==
  ASSUME IInv, NEW f \in Families, Dead(f), NEW r \in Requests, Serve(r)
  PROVE  \A s \in Requests : ~Issuing(s, f)'
<1>0. TypeOK BY DEF IInv
<1>1. ASSUME NEW op, NEW label \in Labels \ {"issue", "insert"}, NEW t, NEW g, NEW n,
             Begin(r, op, label, t, g, n)
      PROVE  \A s \in Requests : ~Issuing(s, f)'
  BY <1>0, <1>1 DEF Begin, TypeOK, Dead, Issuing
<1>2. ASSUME NEW label \in Labels \ {"issue", "insert"}, Goto(r, label)
      PROVE  \A s \in Requests : ~Issuing(s, f)'
  BY <1>0, <1>2 DEF Goto, TypeOK, Dead, Issuing
<1>3. ASSUME Done(r) PROVE \A s \in Requests : ~Issuing(s, f)'
  BY <1>0, <1>3 DEF Done, TypeOK, Dead, Issuing, Idle
<1>4. ASSUME NEW g \in Families, NEW n \in Nodes, StartLogin(r, g, n)
      PROVE  \A s \in Requests : ~Issuing(s, f)'
  <2>1. g # f BY <1>4 DEF StartLogin, Dead
  <2> QED BY <1>0, <1>4, <2>1 DEF StartLogin, Begin, TypeOK, Dead, Issuing
<1>5. CASE Spend(r)
  <2>1. CASE req[r].tok \in live /\ Goto(r, "issue")
    <3>1. req[r].tok \in Of(req[r].fam)
      BY <1>5 DEF Spend, IInv, Linked, At, Of
    <3>2. req[r].fam # f BY <2>1, <3>1 DEF Dead
    <3> QED BY <1>0, <2>1, <3>2 DEF Goto, TypeOK, Dead, Issuing
  <2> QED BY <1>3, <1>5, <2>1 DEF Spend
<1>6. CASE ReadUser(r)
  <2>1. req[r].fam # f BY <1>6 DEF ReadUser, At, Dead, Issuing
  <2>2. CASE Goto(r, "insert") BY <1>0, <2>1, <2>2 DEF Goto, TypeOK, Dead, Issuing
  <2> QED BY <1>3, <1>6, <2>2 DEF ReadUser
<1>7. {"gate", "revoke", "commit", "invalidate", "publish"} \subseteq Labels \ {"issue", "insert"}
  BY DEF Labels
<1>8. ASSUME NEW n \in Nodes, \E t \in Tokens : StartRefresh(r, t, n) \/ StartLogout(r, t, n)
      PROVE  \A s \in Requests : ~Issuing(s, f)'
  BY <1>1, <1>7, <1>8 DEF StartRefresh, StartLogout
<1>9. ASSUME NEW n \in Nodes,
             \/ \E g \in Families \cup {NoFamily} : StartChange(r, g, n)
             \/ StartReset(r, n)
             \/ \E op \in {"restrict", "lift", "delete"} : StartModerate(r, op, n)
      PROVE  \A s \in Requests : ~Issuing(s, f)'
  BY <1>1, <1>7, <1>9 DEF StartChange, StartReset, StartModerate
<1>10. CASE \E t \in Tokens : InsertToken(r, t) BY <1>3, <1>10 DEF InsertToken
<1>11. CASE CommitChange(r) \/ CommitReset(r) \/ Restrict(r) \/ Lift(r) \/ Erase(r)
  BY <1>2, <1>7, <1>11 DEF CommitChange, CommitReset, Restrict, Lift, Erase
<1>12. CASE Invalidate(r) \/ Revoke(r) \/ Publish(r)
  BY <1>2, <1>3, <1>7, <1>12 DEF Invalidate, Revoke, Publish, AfterInvalidate
<1> QED BY <1>4, <1>5, <1>6, <1>8, <1>9, <1>10, <1>11, <1>12 DEF Serve

\* A family without a live token or a request about to write one stays dead.
LEMMA DeadStep ==
  ASSUME IInv, [Next]_vars, NEW f \in Families, Dead(f)
  PROVE  Dead(f)'
<1>1. ASSUME NEW r \in Requests, NEW t \in Tokens, InsertToken(r, t)
      PROVE  Of(f)' = Of(f) /\ live' \cap Of(f)' = {}
  <2>1. req[r].fam # f BY <1>1 DEF Dead, Issuing, InsertToken, At
  <2>2. Of(f)' = Of(f) /\ t \notin Of(f)
    BY <1>1, <2>1, SessionsAssumption DEF InsertToken, Of, IInv, TypeOK
  <2> QED BY <1>1, <2>2 DEF InsertToken, Dead
<1>2. ASSUME live' \subseteq live, UNCHANGED family
      PROVE  Of(f)' = Of(f) /\ live' \cap Of(f)' = {}
  BY <1>2 DEF Of, Dead
<1>3. CASE UNCHANGED vars BY <1>2, <1>3 DEF vars, Dead, Issuing
<1>4. ASSUME NEW r \in Requests, Serve(r) PROVE Dead(f)'
  <2>1. Of(f)' = Of(f) /\ live' \cap Of(f)' = {}
    <3>1. CASE \E t \in Tokens : InsertToken(r, t) BY <1>1, <3>1
    <3>2. CASE ~\E t \in Tokens : InsertToken(r, t)
      <4>1. live' \subseteq live /\ UNCHANGED family
        BY <1>4, <3>2
           DEF Serve, StartLogin, StartRefresh, StartLogout, StartChange, StartReset,
               StartModerate, Spend, ReadUser, CommitChange, CommitReset, Restrict, Lift,
               Erase, Invalidate, Revoke, Publish, RevokeAllExcept, rows
      <4> QED BY <1>2, <4>1
    <3> QED BY <3>1, <3>2
  <2> QED BY <1>4, <2>1, DeadNotIssued DEF Dead
<1>5. ASSUME NEW n \in Nodes,
             StartRead(n) \/ FinishRead(n) \/ Expire(n) \/ HearEnded(n) \/ Crash(n)
      PROVE  Dead(f)'
  <2>1. UNCHANGED rows /\ (UNCHANGED req \/ Crash(n))
    BY <1>5 DEF StartRead, FinishRead, Expire, HearEnded, Crash
  <2>2. \A s \in Requests : req'[s] = req[s] \/ req'[s] = Idle
    BY <2>1 DEF Crash
  <2>3. \A s \in Requests : ~Issuing(s, f)' BY <2>2 DEF Dead, Issuing, Idle
  <2> QED BY <1>2, <2>1, <2>3 DEF Dead, rows
<1> QED BY <1>3, <1>4, <1>5 DEF Next

\* No replay of an old token, and no refresh racing a logout or a change of
\* the password, revives a session that nobody is about to extend.
THEOREM DeadSessionsStay == Spec => DeadSessionsStayDead
<1>1. IInv /\ [Next]_vars => [\A f \in Families : Dead(f) => Dead(f)']_vars
  BY DeadStep
<1> QED BY <1>1, Invariance, PTL DEF Spec, DeadSessionsStayDead

(************************** The accounts together **************************)
(* Each component's theorem carries over to the composition: a step of it is *)
(* a step of one component and a stutter of the others.                      *)

LEMMA OneMoves ==
  [AccountsNext]_<<focus, vars, signInVars, phoneVars, outboxVars, groupVars,
                   deletionVars, reportVars, onlineVars, pushVars>> =>
    /\ [Next]_vars
    /\ [People!Door!Next]_(People!Door!vars)
    /\ [People!Next]_(People!vars)
    /\ [People!Deletion!Next]_(People!Deletion!vars)
    /\ [People!Desk!Next]_(People!Desk!vars)
    /\ [People!Status!Next]_(People!Status!vars)
    /\ [People!Push!Next]_(People!Push!vars)
    /\ [People!Phone!Next]_(People!Phone!vars)
    /\ [People!Outbox!Next]_(People!Outbox!vars)
<1>1. UNCHANGED signInVars => UNCHANGED People!Door!vars
  BY DEF signInVars, People!Door!vars
<1>2. UNCHANGED groupVars => UNCHANGED People!vars
  BY DEF groupVars, People!vars, People!rowvars, People!netvars
<1>3. UNCHANGED deletionVars => UNCHANGED People!Deletion!vars
  BY DEF deletionVars, People!Deletion!vars
<1>4. UNCHANGED reportVars => UNCHANGED People!Desk!vars
  BY DEF reportVars, People!Desk!vars
<1>5. UNCHANGED onlineVars => UNCHANGED People!Status!vars
  BY DEF onlineVars, People!Status!vars
<1>6. UNCHANGED pushVars => UNCHANGED People!Push!vars
  BY DEF pushVars, People!Push!vars
<1>7. UNCHANGED phoneVars => UNCHANGED People!Phone!vars
  BY DEF phoneVars, People!Phone!vars
<1>8. UNCHANGED outboxVars => UNCHANGED People!Outbox!vars
  BY DEF outboxVars, People!Outbox!vars
<1> QED
  BY <1>1, <1>2, <1>3, <1>4, <1>5, <1>6, <1>7, <1>8, Zenon DEF AccountsNext

\* Among the accounts, a session never has two heirs and a dead one stays dead,
\* and an emailed code withstands a bounded number of guesses.
THEOREM SignedInSound == AccountsSpec => [](OneHeir /\ GuessesBounded) /\ DeadSessionsStayDead
<1>1. AccountsInit => Init /\ People!Door!Init
  BY DEF AccountsInit
<1>2. AccountsSpec => Spec
  BY <1>1, OneMoves, PTL DEF AccountsSpec, Spec
<1>3. AccountsSpec => People!Door!Spec
  BY <1>1, OneMoves, PTL DEF AccountsSpec, People!Door!Spec
<1>4. People!SignInAssumption
  BY AccountsAssumption
<1>5. People!Door!Spec => []People!GuessesBounded
  BY AccountsAssumption, <1>4, People!GuessesStayBounded
<1>6. People!GuessesBounded => GuessesBounded
  BY DEF People!GuessesBounded, GuessesBounded
<1> QED BY <1>2, <1>3, <1>5, <1>6, SessionsNeverFork, DeadSessionsStay, PTL

\* Among the accounts, the phone stays in the session its keystore holds and ends
\* none by a spent token, and what is typed is sent in order, for its author, or
\* kept.
THEOREM PhoneSound == AccountsSpec => PhoneAccountSound
<1>1. AccountsInit => People!Phone!Init /\ People!Outbox!Init
  BY DEF AccountsInit
<1>2. AccountsSpec => People!Phone!Spec
  BY <1>1, OneMoves, PTL DEF AccountsSpec, People!Phone!Spec
<1>3. AccountsSpec => People!Outbox!Spec
  BY <1>1, OneMoves, PTL DEF AccountsSpec, People!Outbox!Spec
<1>4. People!PhoneAssumption
  BY DEF People!PhoneAssumption
<1>5. People!Phone!Spec => [](People!Phone!StoredIsCurrent /\ People!Phone!NeverReused)
  BY AccountsAssumption, <1>4, People!SessionKeeps
<1>6. People!Outbox!Spec =>
        [](People!Outbox!NothingForgotten /\ People!Outbox!FlushInOrder)
        /\ People!Outbox!NeverForAnother
  BY AccountsAssumption, People!OutboxKeeps
<1> QED BY <1>2, <1>3, <1>5, <1>6, PTL DEF PhoneAccountSound, PhoneSessionSound

\* Among the accounts, everything other people are promised of an account holds:
\* its deletion, reports about it, its presence, its phone's notifications and
\* its groups.
THEOREM OthersSound == AccountsSpec => []PeopleSound
<1>1. AccountsInit =>
        /\ People!Init /\ People!Deletion!Init /\ People!Desk!Init
        /\ People!Status!Init /\ People!Push!Init
  BY DEF AccountsInit
<1>2. AccountsSpec => People!Spec
  BY <1>1, OneMoves, PTL DEF AccountsSpec, People!Spec
<1>3. AccountsSpec => People!Deletion!Spec
  BY <1>1, OneMoves, PTL DEF AccountsSpec, People!Deletion!Spec
<1>4. AccountsSpec => People!Desk!Spec
  BY <1>1, OneMoves, PTL DEF AccountsSpec, People!Desk!Spec
<1>5. AccountsSpec => People!Status!Spec
  BY <1>1, OneMoves, PTL DEF AccountsSpec, People!Status!Spec
<1>6. AccountsSpec => People!Push!Spec
  BY <1>1, OneMoves, PTL DEF AccountsSpec, People!Push!Spec
<1>7. /\ People!DeskAssumption /\ People!OnlineAssumption /\ People!PushAssumption
      /\ MaxCrashes \in Nat
  BY AccountsAssumption
<1>8. People!Deletion!Spec /\ People!Desk!Spec /\ People!Status!Spec /\ People!Push!Spec
      /\ People!Spec => []People!PeopleSound
  BY AccountsAssumption, <1>7, People!PeopleStaySound
<1>9. \A q, r \in {Operation} : q = r
  OBVIOUS
<1>10. People!Spec => []gSerial
  BY AccountsAssumption, <1>9, People!OneAtATime
<1>11. People!PeopleSound /\ gSerial => PeopleSound
  BY DEF People!PeopleSound, PeopleSound
<1> QED BY <1>2, <1>3, <1>4, <1>5, <1>6, <1>8, <1>10, <1>11, PTL
=============================================================================
