----------------------------- MODULE PushDevices ------------------------------
(* Where a phone's notifications go: its push token registered under a login   *)
(* session, sign-ins and sign-outs of two accounts on that phone, sessions     *)
(* that end elsewhere, and the messages pushed meanwhile.                      *)
(* apps/mobile/src: push/{registration,PushProvider}, logout of AuthContext;   *)
(* apps/api/src: notifications/{notifications.controller,notifications.service,*)
(* fcm-push.channel}.ts, db/devices.ts, revoke* of db/refresh-tokens.ts.       *)
(*                                                                             *)
(* One phone with one token.  The two statements that end a session are two    *)
(* steps; mutes, blocks, and chats on screen only keep a message from being    *)
(* pushed and are left out.                                                    *)
EXTENDS Integers

CONSTANTS Accounts, MaxLogins, MaxPushes, None

VARIABLES
  owner,   \* owner[f]: the account of login f on this phone
  live,    \* logins with a live refresh token
  row,     \* devices: the account and the login the token is bound to
  phone,   \* the login on the phone, or 0
  known,   \* registered: the token as the phone remembers it
  leaving, \* the phone's sign-out: "no", "unregister", then "logout"
  reg,     \* reg[f]: the registration f asked for
  unreg,   \* accounts whose DELETE of the token is on its way
  ending,  \* ending[f]: the end of the session of f, and what is to do
  push,    \* a message pushed: whom for, and the login its device was found under
  pushes

vars == <<owner, live, row, phone, known, leaving, reg, unreg, ending, push, pushes>>
server == <<live, row>>
app == <<phone, known, leaving>>

Logins == 1..MaxLogins
NoRow == [user |-> None, login |-> 0]
NoPush == [to |-> None, at |-> "idle", login |-> 0, dead |-> FALSE]

TypeOK ==
  /\ owner \in [Logins -> Accounts \cup {None}] /\ live \subseteq Logins
  /\ row \in [user : Accounts \cup {None}, login : 0..MaxLogins] /\ phone \in 0..MaxLogins
  /\ known \in BOOLEAN /\ leaving \in {"no", "unregister", "logout"}
  /\ reg \in [Logins -> {"none", "sent", "checked", "stored", "done", "refused"}]
  /\ unreg \subseteq Accounts /\ ending \in [Logins -> {"no", "asked", "revoked", "done"}]
  /\ push \in [to : Accounts \cup {None}, at : {"idle", "begun", "listed"}, login : 0..MaxLogins,
               dead : BOOLEAN]
  /\ pushes \in 0..MaxPushes

Init ==
  /\ owner = [f \in Logins |-> None] /\ live = {} /\ row = NoRow /\ phone = 0 /\ known = FALSE
  /\ leaving = "no" /\ reg = [f \in Logins |-> "none"] /\ unreg = {}
  /\ ending = [f \in Logins |-> "no"] /\ push = NoPush /\ pushes = 0

(******************************* The phone ********************************)

\* Signing in; PushProvider forgets what it registered and registers again.
SignIn(f, a) ==
  /\ phone = 0 /\ owner[f] = None /\ \A g \in 1..(f - 1) : owner[g] # None
  /\ owner' = [owner EXCEPT ![f] = a] /\ live' = live \cup {f} /\ phone' = f /\ known' = FALSE
  /\ UNCHANGED <<row, leaving, reg, unreg, ending, push, pushes>>
RegisterToken ==
  /\ phone # 0 /\ leaving = "no" /\ ~known /\ reg[phone] \in {"none", "refused"}
  /\ reg' = [reg EXCEPT ![phone] = "sent"]
  /\ UNCHANGED <<owner, server, app, unreg, ending, push, pushes>>

\* unregisterToken: it waits for a registration, or for two seconds.
Unregister ==
  /\ phone # 0 /\ leaving = "no" /\ leaving' = "unregister"
  /\ UNCHANGED <<owner, server, phone, known, reg, unreg, ending, push, pushes>>
Forget ==
  /\ leaving = "unregister" /\ leaving' = "logout" /\ known' = FALSE
  /\ unreg' = IF known THEN unreg \cup {owner[phone]} ELSE unreg
  /\ UNCHANGED <<owner, server, phone, reg, ending, push, pushes>>
Logout ==
  /\ leaving = "logout" /\ leaving' = "no" /\ phone' = 0
  /\ ending' = [ending EXCEPT ![phone] = IF @ = "no" THEN "asked" ELSE @]
  /\ UNCHANGED <<owner, server, known, reg, unreg, push, pushes>>

(****************************** Registration ******************************)

\* registerDevice: the session is live; the token is bound to it; still live?
FamilyLive(f) == f \in live
CheckSession(f) ==
  /\ reg[f] = "sent" /\ reg' = [reg EXCEPT ![f] = IF FamilyLive(f) THEN "checked" ELSE "refused"]
  /\ UNCHANGED <<owner, server, app, unreg, ending, push, pushes>>
Bind(f) ==
  /\ reg[f] = "checked" /\ reg' = [reg EXCEPT ![f] = "stored"]
  /\ row' = [user |-> owner[f], login |-> f]
  /\ UNCHANGED <<owner, live, app, unreg, ending, push, pushes>>
RecheckNever(f) ==
  /\ reg[f] = "stored" /\ reg' = [reg EXCEPT ![f] = "done"]
  /\ known' = (known \/ phone = f)
  /\ UNCHANGED <<owner, server, phone, leaving, unreg, ending, push, pushes>>
Recheck(f) ==
  \/ FamilyLive(f) /\ RecheckNever(f)
  \/ /\ reg[f] = "stored" /\ ~FamilyLive(f) /\ reg' = [reg EXCEPT ![f] = "refused"]
     /\ row' = IF row.user = owner[f] THEN NoRow ELSE row
     /\ UNCHANGED <<owner, live, app, unreg, ending, push, pushes>>

\* unregisterDevice: only the account's own.
Delete(a) ==
  /\ a \in unreg /\ unreg' = unreg \ {a} /\ row' = IF row.user = a THEN NoRow ELSE row
  /\ UNCHANGED <<owner, live, app, reg, ending, push, pushes>>
LoseDelete(a) ==
  /\ a \in unreg /\ unreg' = unreg \ {a}
  /\ UNCHANGED <<owner, server, app, reg, ending, push, pushes>>

(*************************** Sessions that end ****************************)

\* A session is ended from elsewhere, with the others of its account or alone.
EndElsewhere(f) ==
  /\ f \in live /\ ending[f] = "no" /\ ending' = [ending EXCEPT ![f] = "asked"]
  /\ UNCHANGED <<owner, server, app, reg, unreg, push, pushes>>

\* revokeFamily: the tokens, and then the phones bound to them.
Revoke(f) ==
  /\ ending[f] = "asked" /\ ending' = [ending EXCEPT ![f] = "revoked"] /\ live' = live \ {f}
  /\ UNCHANGED <<owner, row, app, reg, unreg, push, pushes>>
Unbind(f) ==
  /\ ending[f] = "revoked" /\ ending' = [ending EXCEPT ![f] = "done"]
  /\ row' = IF row.login = f THEN NoRow ELSE row
  /\ UNCHANGED <<owner, live, app, reg, unreg, push, pushes>>
Expire(f) ==
  /\ f \in live /\ ending[f] = "no" /\ live' = live \ {f}
  /\ UNCHANGED <<owner, row, app, reg, unreg, ending, push, pushes>>

(********************************* Pushing ********************************)

Notify(a) ==
  /\ push.at = "idle" /\ pushes < MaxPushes /\ pushes' = pushes + 1
  /\ push' = [NoPush EXCEPT !.to = a, !.at = "begun"]
  /\ UNCHANGED <<owner, server, app, reg, unreg, ending>>

\* listPushDevices; dead: the session it was found under had ended.
ListEvery ==
  /\ push.at = "begun"
  /\ push' = IF row.user = push.to
               THEN [push EXCEPT !.at = "listed", !.login = row.login, !.dead = row.login \notin live]
               ELSE NoPush
  /\ UNCHANGED <<owner, server, app, reg, unreg, ending, pushes>>
List ==
  \/ row.login \in live /\ ListEvery
  \/ /\ push.at = "begun" /\ row.login \notin live /\ push' = NoPush
     /\ UNCHANGED <<owner, server, app, reg, unreg, ending, pushes>>

\* The message is sent; a token of an app no longer there is deleted.
AfterPost == {row, NoRow}
Send ==
  /\ push.at = "listed" /\ push' = NoPush /\ row' \in AfterPost
  /\ UNCHANGED <<owner, live, app, reg, unreg, ending, pushes>>

Next ==
  \/ RegisterToken \/ Unregister \/ Forget \/ Logout \/ List \/ Send
  \/ \E f \in Logins :
       \/ \E a \in Accounts : SignIn(f, a)
       \/ CheckSession(f) \/ Bind(f) \/ Recheck(f)
       \/ EndElsewhere(f) \/ Revoke(f) \/ Unbind(f) \/ Expire(f)
  \/ \E a \in Accounts : Delete(a) \/ LoseDelete(a) \/ Notify(a)

Spec == Init /\ [][Next]_vars

(******************************* Properties *******************************)

\* "an offline or interrupted sign-out cannot leave it bound"
\* (registration.ts:31): with no registration or revocation at work, the token
\* is not bound to a session that was ended.
NeverLeftBound ==
  (\A f \in Logins : reg[f] \notin {"checked", "stored"} /\ ending[f] # "revoked")
  => row.login = 0 \/ ending[row.login] # "done"

\* "never gets another preview, even though nothing deleted its row"
\* (devices.ts:65): nothing is pushed under a session that ended before.
NoMorePreviews == push.at = "listed" => ~push.dead
=============================================================================
