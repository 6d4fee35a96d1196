------------------------------ MODULE Sessions ------------------------------
(* One account's sign-in sessions: refresh-token families, the password,   *)
(* restrictions by moderators, deletion, and each node's cache of what     *)
(* access tokens are still good for.                                       *)
(* apps/api/src/auth, db/refresh-tokens.ts, moderation, users/account.     *)
(*                                                                         *)
(* Every SQL statement is a step; a request that awaits one is at a label. *)
(* A request may die at any label (the process crashes).  No clock: instead *)
(* of its second of issue an access token carries the number of password   *)
(* changes before it, and the 15 s of a cache entry are the action Expire. *)
EXTENDS Integers, FiniteSets

CONSTANTS
  Tokens,     \* refresh tokens, each created at most once
  Families,   \* sessions: all the tokens descended from one sign-in
  Requests,   \* requests the API serves at the same time
  Nodes,      \* API processes, each with a cache
  MaxChanges, \* bound on changes of the password
  NoToken, NoFamily, NoNode, NoState

ASSUME SessionsAssumption ==
  /\ MaxChanges \in Nat
  /\ NoToken \notin Tokens /\ NoFamily \notin Families /\ NoNode \notin Nodes

VARIABLES
  live,      \* refresh tokens whose row has revoked_at NULL
  family,    \* family[t]: the family_id of t's row, NoFamily before its INSERT
  password,  \* number of changes of the password so far
  restricted,\* banned_at or suspended_until of the user is set
  deleted,   \* deleted_at of the user is set
  req,       \* the requests being served
  era,       \* era[f]: the password that session f was last proved with
  cache,     \* cache[n]: node n's copy of the token state, or NoState
  reading,   \* reading[n]: the row a cache miss of n has read and not cached
  notices    \* nodes that session.ended has been sent to and not reached

vars == <<live, family, password, restricted, deleted, req,
          era, cache, reading, notices>>

user == <<password, restricted, deleted>>
rows == <<live, family, era, user>>
auth == <<cache, reading, notices>>

States == [validFrom : 0..MaxChanges, refused : BOOLEAN]
Ops == {"login", "refresh", "logout", "change", "reset", "restrict", "lift", "delete"}
Labels == {"gate", "issue", "insert", "revoke", "commit", "invalidate", "publish"}

Idle == [op |-> "none", at |-> "idle", tok |-> NoToken, fam |-> NoFamily,
         node |-> NoNode, pw |-> 0]

TypeOK ==
  /\ live \subseteq Tokens
  /\ family \in [Tokens -> Families \cup {NoFamily}]
  /\ password \in 0..MaxChanges /\ restricted \in BOOLEAN /\ deleted \in BOOLEAN
  /\ req \in [Requests -> [op : Ops \cup {"none"}, at : Labels \cup {"idle"},
                           tok : Tokens \cup {NoToken},
                           fam : Families \cup {NoFamily},
                           node : Nodes \cup {NoNode}, pw : 0..MaxChanges]]
  /\ era \in [Families -> 0..MaxChanges]
  /\ cache \in [Nodes -> States \cup {NoState}]
  /\ reading \in [Nodes -> States \cup {NoState}]
  /\ notices \subseteq Nodes

Init ==
  /\ live = {} /\ family = [t \in Tokens |-> NoFamily]
  /\ password = 0 /\ restricted = FALSE /\ deleted = FALSE
  /\ req = [r \in Requests |-> Idle]
  /\ era = [f \in Families |-> 0]
  /\ cache = [n \in Nodes |-> NoState] /\ reading = [n \in Nodes |-> NoState]
  /\ notices = {}

(***************************** The tables *********************************)

Of(f) == {t \in Tokens : family[t] = f}

BeginShort(r, op, label, t, f, n) ==
  req' = [req EXCEPT ![r] =
            [op |-> op, at |-> label, tok |-> t, fam |-> f, node |-> n]]
Begin(r, op, label, t, f, n) ==
  req' = [req EXCEPT ![r] =
            [op |-> op, at |-> label, tok |-> t, fam |-> f, node |-> n, pw |-> password]]
Goto(r, label) == req' = [req EXCEPT ![r].at = label]
Done(r) == req' = [req EXCEPT ![r] = Idle]
At(r, label) == req[r].at = label

\* db/refresh-tokens.ts
RevokeAllExcept(f) == live' = {t \in live : f # NoFamily /\ family[t] = f}

(************************ Signing in and refreshing ***********************)

\* login() or verifyLoginLink() up to issueSession: the password was checked
\* against the row as it is now; the checking itself is module SignIn.
StartLogin(r, f, n) ==
  /\ At(r, "idle") /\ Of(f) = {} /\ \A s \in Requests : req[s].fam # f
  /\ ~deleted
  /\ Begin(r, "login", "issue", NoToken, f, n)
  /\ UNCHANGED <<rows, auth>>

StartRefresh(r, t, n) ==
  /\ At(r, "idle") /\ family[t] # NoFamily
  /\ Begin(r, "refresh", "gate", t, family[t], n)
  /\ UNCHANGED <<rows, auth>>

SpendUnchecked(r) ==
  /\ At(r, "gate") /\ live' = live \ {req[r].tok} /\ Goto(r, "issue")
  /\ UNCHANGED <<family, era, user, auth>>

SpendWithGrace(r) ==
  /\ At(r, "gate") /\ live' = live \ Of(req[r].fam) /\ Goto(r, "issue")
  /\ UNCHANGED <<family, era, user, auth>>

\* The conditional UPDATE that lets one caller through, and what is done
\* with everybody else: the whole family ends.
Spend(r) ==
  /\ At(r, "gate")
  /\ \/ /\ req[r].tok \in live
        /\ live' = live \ {req[r].tok} /\ Goto(r, "issue")
     \/ /\ req[r].tok \notin live
        /\ live' = live \ Of(req[r].fam) /\ Done(r)
  /\ UNCHANGED <<family, era, user, auth>>

\* issueSession reads the user ...
ReadUser(r) ==
  /\ At(r, "issue")
  /\ IF restricted THEN Done(r) ELSE Goto(r, "insert")
  /\ UNCHANGED <<rows, auth>>

\* ... and inserts the token in a statement of its own.
InsertToken(r, t) ==
  /\ At(r, "insert") /\ family[t] = NoFamily
  /\ family' = [family EXCEPT ![t] = req[r].fam]
  /\ live' = live \cup {t}
  /\ era' = IF req[r].op = "login" THEN [era EXCEPT ![req[r].fam] = req[r].pw] ELSE era
  /\ Done(r)
  /\ UNCHANGED <<user, auth>>

StartLogout(r, t, n) ==
  /\ At(r, "idle") /\ family[t] # NoFamily
  /\ Begin(r, "logout", "revoke", t, family[t], n)
  /\ UNCHANGED <<rows, auth>>

(************************* Ending the other sessions **********************)

\* resetPassword and changePassword end here what they have read; the token
\* of changePassword's own session is looked up before its transaction.
StartChange(r, f, n) ==
  /\ At(r, "idle") /\ password < MaxChanges /\ ~deleted
  /\ f # NoFamily => Of(f) # {}
  /\ Begin(r, "change", "commit", NoToken, f, n)
  /\ UNCHANGED <<rows, auth>>

StartReset(r, n) ==
  /\ At(r, "idle") /\ password < MaxChanges /\ ~deleted
  /\ Begin(r, "reset", "commit", NoToken, NoFamily, n)
  /\ UNCHANGED <<rows, auth>>

\* A moderator resolves a report with a suspension or a ban, or lifts one;
\* the person deletes the account.
StartModerate(r, op, n) ==
  /\ At(r, "idle")
  /\ \/ op = "restrict" /\ ~restricted
     \/ op = "lift" /\ restricted
     \/ op = "delete" /\ ~deleted
  /\ Begin(r, op, "commit", NoToken, NoFamily, n)
  /\ UNCHANGED <<rows, auth>>

SetPassword ==
  /\ password < MaxChanges /\ password' = password + 1

\* changePassword's transaction: the password and the other sessions at once.
CommitChange(r) ==
  /\ At(r, "commit") /\ req[r].op = "change"
  /\ SetPassword /\ RevokeAllExcept(req[r].fam)
  /\ era' = IF req[r].fam = NoFamily THEN era ELSE [era EXCEPT ![req[r].fam] = password']
  /\ Goto(r, "invalidate")
  /\ UNCHANGED <<family, restricted, deleted, auth>>

\* resetPassword sets the password first and ends the sessions later.
CommitReset(r) ==
  /\ At(r, "commit") /\ req[r].op = "reset"
  /\ SetPassword /\ Goto(r, "invalidate")
  /\ UNCHANGED <<live, family, restricted, deleted, era, auth>>

Restrict(r) ==
  /\ At(r, "commit") /\ req[r].op = "restrict"
  /\ restricted' = TRUE /\ Goto(r, "revoke")
  /\ UNCHANGED <<live, family, password, deleted, era, auth>>

Lift(r) ==
  /\ At(r, "commit") /\ req[r].op = "lift"
  /\ restricted' = FALSE /\ Goto(r, "invalidate")
  /\ UNCHANGED <<live, family, password, deleted, era, auth>>

Erase(r) ==
  /\ At(r, "commit") /\ req[r].op = "delete"
  /\ deleted' = TRUE /\ RevokeAllExcept(NoFamily) /\ Goto(r, "invalidate")
  /\ UNCHANGED <<family, password, restricted, era, auth>>

\* tokenState.invalidate on this node, and what the handler does next.
AfterInvalidate(op) ==
  CASE op = "reset" -> "revoke" [] op = "lift" -> "idle" [] OTHER -> "publish"

Invalidate(r) ==
  /\ At(r, "invalidate")
  /\ cache' = [cache EXCEPT ![req[r].node] = NoState]
  /\ IF AfterInvalidate(req[r].op) = "idle" THEN Done(r)
     ELSE Goto(r, AfterInvalidate(req[r].op))
  /\ UNCHANGED <<rows, reading, notices>>

\* revokeFamily of logout, revokeAllForUser of a reset and of a restriction.
Revoke(r) ==
  /\ At(r, "revoke")
  /\ \/ req[r].op = "logout" /\ live' = live \ Of(req[r].fam) /\ Done(r)
     \/ req[r].op = "reset" /\ RevokeAllExcept(NoFamily) /\ Goto(r, "publish")
     \/ req[r].op = "restrict" /\ RevokeAllExcept(NoFamily) /\ Goto(r, "invalidate")
  /\ UNCHANGED <<family, era, user, auth>>

\* session.ended to every node; a publish that fails is swallowed.
Publish(r) ==
  /\ At(r, "publish") /\ notices' \in {Nodes, notices} /\ Done(r)
  /\ UNCHANGED <<rows, cache, reading>>

(***************************** Access tokens ******************************)

StateNow == [validFrom |-> password, refused |-> restricted \/ deleted]

StartRead(n) ==
  /\ cache[n] = NoState /\ reading[n] = NoState
  /\ reading' = [reading EXCEPT ![n] = StateNow]
  /\ UNCHANGED <<rows, req, cache, notices>>

FinishRead(n) ==
  /\ reading[n] # NoState
  /\ cache' = [cache EXCEPT ![n] = reading[n]]
  /\ reading' = [reading EXCEPT ![n] = NoState]
  /\ UNCHANGED <<rows, req, notices>>

NeverExpire(n) == FALSE /\ UNCHANGED vars

Expire(n) ==
  /\ cache[n] # NoState
  /\ cache' = [cache EXCEPT ![n] = NoState]
  /\ UNCHANGED <<rows, req, reading, notices>>

\* session.ended reaches a node: its cache forgets the state.
HearEnded(n) ==
  /\ n \in notices /\ notices' = notices \ {n}
  /\ cache' = [cache EXCEPT ![n] = NoState]
  /\ UNCHANGED <<rows, req, reading>>

(******************************* Crashes **********************************)

\* A node restarts: its requests stop where they are, its cache is gone.
Crash(n) ==
  /\ req' = [r \in Requests |-> IF req[r].node = n THEN Idle ELSE req[r]]
  /\ cache' = [cache EXCEPT ![n] = NoState]
  /\ reading' = [reading EXCEPT ![n] = NoState]
  /\ notices' = notices \ {n}
  /\ UNCHANGED <<rows>>

Serve(r) ==
  \/ \E n \in Nodes :
       \/ \E f \in Families : StartLogin(r, f, n)
       \/ \E t \in Tokens : StartRefresh(r, t, n) \/ StartLogout(r, t, n)
       \/ \E f \in Families \cup {NoFamily} : StartChange(r, f, n)
       \/ StartReset(r, n)
       \/ \E op \in {"restrict", "lift", "delete"} : StartModerate(r, op, n)
  \/ Spend(r) \/ ReadUser(r) \/ (\E t \in Tokens : InsertToken(r, t))
  \/ CommitChange(r) \/ CommitReset(r) \/ Restrict(r) \/ Lift(r) \/ Erase(r)
  \/ Invalidate(r) \/ Revoke(r) \/ Publish(r)

Next ==
  \/ \E r \in Requests : Serve(r)
  \/ \E n \in Nodes :
       \/ StartRead(n) \/ FinishRead(n) \/ Expire(n) \/ HearEnded(n) \/ Crash(n)

Spec == Init /\ [][Next]_vars

\* Node.js gets to every pending answer, and an entry of the cache is used
\* for CACHE_MS only.
Fairness ==
  \A n \in Nodes : WF_vars(FinishRead(n)) /\ WF_vars(Expire(n))

FairSpec == Spec /\ Fairness

(****************************** Properties ********************************)

Issuing(r, f) == req[r].at \in {"issue", "insert"} /\ req[r].fam = f

\* A session has at most one heir: one live token, or one request that has
\* spent the last token (or just signed in) and not yet written the next.
\* Two tabs refreshing with the same token never fork the session.
OneHeir ==
  \A f \in Families :
    /\ \A t, u \in live \cap Of(f) : t = u
    /\ \A r, s \in Requests : Issuing(r, f) /\ Issuing(s, f) => r = s
    /\ live \cap Of(f) # {} => \A r \in Requests : ~Issuing(r, f)

\* A session that has no live token and no request about to write one never
\* comes back: no replay of an old token, and no refresh, logout or change of
\* the password racing another, revives it or lets a request extend it.
Dead(f) == Of(f) # {} /\ live \cap Of(f) = {} /\ \A r \in Requests : ~Issuing(r, f)

DeadSessionsStayDead == [][\A f \in Families : Dead(f) => Dead(f)']_vars

\* What must not work any more stops working on every node for good: the
\* access tokens of a deleted account, and those signed before a change of
\* the password, even when the broadcast is lost, the handler dies before it
\* or a read that raced it is cached after it.
RefusedForGood ==
  /\ <>[](deleted => \A n \in Nodes : cache[n] # NoState => cache[n].refused)
  /\ <>[](\A n \in Nodes : cache[n] # NoState => cache[n].validFrom >= password)

\* "every *other* session ends, this one carries on" (auth.service.ts:251)
\* after a change of the password, and every one after a reset: when no
\* reset is half-way, every live token belongs to a session proved with the
\* present password.
SettledPassword ==
  \A r \in Requests : req[r].op = "reset" => req[r].at = "commit"
OldPasswordSessionsEnd ==
  SettledPassword => \A t \in live : era[family[t]] = password

\* "Changes made on this node take effect at once"
\* (token-state.service.ts:120): once the handler that deleted the account
\* has invalidated its node's cache, that cache does not accept it.
EffectiveAtOnce ==
  \A r \in Requests :
    (req[r].op = "delete" /\ At(r, "publish")) =>
      (cache[req[r].node] # NoState => cache[req[r].node].refused)
=============================================================================
