---------------------------- MODULE MobileSession ---------------------------
(* The phone's session: the access token in memory, the rotating refresh     *)
(* token in the keystore, the single refresh under way, and the requests     *)
(* that wait for it.  apps/mobile/src/auth (session, AuthContext) and        *)
(* packages/shared/src/api-client.ts.                                        *)
(*                                                                           *)
(* A step is what runs between two awaits.  A refresh token is the family    *)
(* of its sign-in and how often it was rotated; what the server keeps of it  *)
(* is an abstraction of module Sessions.                                     *)
EXTENDS Naturals, Sequences, FiniteSets

CONSTANTS
  Requests,      \* API calls at the same time
  MaxLogins,     \* bound on sign-ins
  MaxRotations   \* bound on the refreshes of one sign-in

VARIABLES
  head,      \* server: the live token of each family, 0 before the sign-in
  ended,     \* server: families that are over
  logins,    \* sign-ins the server has answered and the phone has not begun
  generation,\* of the session manager
  family,    \* whose session it is, 0 when signed out
  access,    \* family of the access token in memory, 0 for none
  keystore,  \* the refresh token stored, or None
  queue,     \* the keystore's queue of writes and clears
  refresh,   \* of each generation, its refresh under way
  request,   \* the API calls
  restored,  \* what AuthContext shows before there is a user
  revoking,  \* tokens whose /auth/logout is on its way
  adrift,    \* refreshes nobody waits for that may still arrive
  reused,    \* families that ended because a spent token came in
  mishap     \* an answer was lost, the app killed, or a token read that was
             \* about to be cleared

vars == <<head, ended, logins, generation, family, access, keystore, queue, refresh,
          request, restored, revoking, adrift, reused, mishap>>
server == <<head, ended, logins, reused>>
phone  == <<generation, family, access, restored>>

SignIns     == 1..MaxLogins
Generations == 0..(2 * MaxLogins)
Token(f, n) == [family |-> f, n |-> n]
None        == Token(0, 0)
Pairs       == [family : 0..MaxLogins, n : 0..MaxRotations]

NoRefresh == [at |-> "none", token |-> None]
Free      == [at |-> "free", for |-> 0, gen |-> 0, as |-> 0, tries |-> 0]
Write(t, g) == [do |-> "write", token |-> t, gen |-> g]
Wipe(how)   == [do |-> how, token |-> None, gen |-> 0]

TypeOK ==
  /\ head \in [SignIns -> 0..MaxRotations] /\ ended \subseteq SignIns
  /\ logins \subseteq SignIns /\ reused \subseteq ended
  /\ generation \in Generations /\ {family, access} \subseteq 0..MaxLogins
  /\ keystore \in Pairs /\ revoking \subseteq Pairs /\ adrift \subseteq Pairs
  /\ queue \in Seq([do : {"write", "clear", "logout"}, token : Pairs, gen : Generations])
  /\ refresh \in [Generations -> [at : {"none", "read", "sent", "ok", "no", "net", "store"},
                                  token : Pairs]]
  /\ request \in [Requests -> [at : {"free", "wait", "sent"}, for : 0..MaxLogins,
                               gen : Generations, as : 0..MaxLogins, tries : 0..1]]
  /\ restored \in {"loading", "offline", "done"} /\ mishap \in BOOLEAN

Init ==
  /\ head = [f \in SignIns |-> 0] /\ ended = {} /\ logins = {} /\ reused = {}
  /\ generation = 0 /\ family = 0 /\ access = 0 /\ keystore = None /\ queue = <<>>
  /\ refresh = [g \in Generations |-> NoRefresh]
  /\ request = [r \in Requests |-> Free] /\ restored = "done"
  /\ revoking = {} /\ adrift = {} /\ mishap = FALSE

(******************************* The server *******************************)

\* /auth/login: a family starts.  The form waits for one sign-in at a time.
SigningIn == logins # {} \/ \E i \in DOMAIN queue : queue[i].do = "write" /\ queue[i].token.n = 1

Login(f) ==
  /\ head[f] = 0 /\ \A g \in SignIns : g < f => head[g] # 0
  /\ family = 0 /\ ~SigningIn /\ generation + 2 \in Generations
  /\ head' = [head EXCEPT ![f] = 1] /\ logins' = logins \cup {f}
  /\ UNCHANGED <<ended, reused, phone, keystore, queue, refresh, request, revoking, adrift, mishap>>

\* /auth/refresh: the live token is rotated; a spent one ends its family.
Rotates(t) == t.family \notin ended /\ head[t.family] = t.n
Present(t) ==
  /\ head' = IF Rotates(t) THEN [head EXCEPT ![t.family] = @ + 1] ELSE head
  /\ ended' = IF Rotates(t) THEN ended ELSE ended \cup {t.family}
  /\ reused' = IF Rotates(t) \/ t.family \in ended THEN reused ELSE reused \cup {t.family}
  /\ UNCHANGED logins

Answer(g) ==
  LET t == refresh[g].token IN
  /\ refresh[g].at = "sent" /\ t.n < MaxRotations /\ Present(t)
  /\ refresh' = [refresh EXCEPT ![g] =
       IF Rotates(t) THEN [at |-> "ok", token |-> Token(t.family, t.n + 1)]
       ELSE [@ EXCEPT !.at = "no"]]
  /\ UNCHANGED <<phone, keystore, queue, request, revoking, adrift, mishap>>

\* Lost on the way or timed out; a lost request may still arrive.
Lose(g) ==
  /\ refresh[g].at \in {"sent", "ok", "no"} /\ mishap' = TRUE
  /\ adrift' = IF refresh[g].at = "sent" THEN adrift \cup {refresh[g].token} ELSE adrift
  /\ refresh' = [refresh EXCEPT ![g].at = "net"]
  /\ UNCHANGED <<server, phone, keystore, queue, request, revoking>>

ArriveLate(t) ==
  /\ t \in adrift /\ t.n < MaxRotations /\ adrift' = adrift \ {t} /\ Present(t)
  /\ UNCHANGED <<phone, keystore, queue, refresh, request, revoking, mishap>>

Revoke(t) ==
  /\ t \in revoking /\ revoking' = revoking \ {t}
  /\ ended' = ended \cup {t.family} \/ UNCHANGED ended
  /\ UNCHANGED <<head, logins, reused, phone, keystore, queue, refresh, request, adrift, mishap>>

(**************************** The session manager *************************)

\* clearLocal, synchronous part.
Clear(how) ==
  /\ generation + 1 \in Generations /\ generation' = generation + 1
  /\ family' = 0 /\ access' = 0 /\ queue' = Append(queue, Wipe(how))

\* The keystore is faster than a sign-in over the network.
Prompt == queue = <<>> /\ \A g \in Generations : refresh[g].at # "read"

\* start(): the generation is bumped, then the token is written.
Start(f) ==
  /\ Prompt
  /\ f \in logins /\ logins' = logins \ {f}
  /\ generation + 1 \in Generations /\ generation' = generation + 1
  /\ queue' = Append(queue, Write(Token(f, 1), generation'))
  /\ UNCHANGED <<head, ended, reused, family, access, restored, keystore, refresh, request,
                 revoking, adrift, mishap>>

\* logout(), after which AuthContext ignores a restore under way.
Logout ==
  /\ family # 0 \/ restored # "done"
  /\ Clear("logout") /\ restored' = "done"
  /\ UNCHANGED <<server, keystore, refresh, request, revoking, adrift, mishap>>

\* Requests that wait for the refresh of g send, or fail.
Resume(g, f) ==
  request' = [r \in Requests |->
    IF request[r].at # "wait" \/ request[r].gen # g THEN request[r]
    ELSE IF f = 0 THEN Free ELSE [request[r] EXCEPT !.at = "sent", !.as = f]]
Finish(g) == refresh' = [refresh EXCEPT ![g] = NoRefresh]

\* A queued keystore task has its turn; what waits for it goes on.  A write
\* looks at the generation before and after.
ForRefresh(t, g) == refresh[g] = [at |-> "store", token |-> t]
Stored(t, g, f) ==
  IF ForRefresh(t, g) THEN Finish(g) /\ Resume(g, f) ELSE UNCHANGED <<refresh, request>>

StoreClear ==
  /\ queue # <<>> /\ Head(queue).do # "write" /\ queue' = Tail(queue) /\ keystore' = None
  /\ revoking' = IF Head(queue).do = "clear" \/ keystore = None THEN revoking
                 ELSE revoking \cup {keystore}
  /\ UNCHANGED <<server, phone, refresh, request, adrift, mishap>>

\* The bug of writing whatever the generation is by now.
StoreUnchecked ==
  /\ queue # <<>> /\ Head(queue).do = "write" /\ queue' = Tail(queue)
  /\ keystore' = Head(queue).token
  /\ Stored(Head(queue).token, Head(queue).gen, 0)
  /\ UNCHANGED <<server, phone, revoking, adrift, mishap>>

StoreWrite ==
  /\ queue # <<>> /\ Head(queue).do = "write" /\ queue' = Tail(queue)
  /\ LET t == Head(queue).token
         g == Head(queue).gen
     IN \/ /\ g = generation /\ keystore' = t
           /\ family' = t.family /\ access' = t.family /\ restored' = "done"
           /\ Stored(t, g, t.family) /\ UNCHANGED revoking
        \/ /\ g # generation
           /\ keystore' = keystore \/ (queue' # <<>> /\ keystore' = t)
           /\ revoking' = revoking \cup {t} /\ Stored(t, g, 0)
           /\ UNCHANGED <<family, access, restored>>
  /\ UNCHANGED <<server, generation, adrift, mishap>>

\* The bug of a refresh for every caller.
JoinNobody == refresh' = [refresh EXCEPT ![generation] = [NoRefresh EXCEPT !.at = "read"]]

\* refreshNow: joins the refresh of this generation or starts it.
Join == refresh' = [refresh EXCEPT ![generation] =
                      IF @.at = "none" THEN [NoRefresh EXCEPT !.at = "read"] ELSE @]

\* The token is read past the queue, so it may be one about to be cleared.
Read(g) ==
  /\ refresh[g].at = "read"
  /\ mishap' = (mishap \/ \E i \in DOMAIN queue : queue[i].do # "write")
  /\ IF keystore = None
     THEN /\ Clear("clear") /\ Finish(g) /\ Resume(g, 0)
          /\ restored' = IF g = generation THEN "done" ELSE restored
     ELSE /\ refresh' = [refresh EXCEPT ![g] = [at |-> "sent", token |-> keystore]]
          /\ UNCHANGED <<phone, queue, request>>
  /\ UNCHANGED <<server, keystore, revoking, adrift>>

Rotated(g) ==
  /\ refresh[g].at = "ok"
  /\ IF g # generation
     THEN /\ revoking' = revoking \cup {refresh[g].token} /\ Finish(g) /\ Resume(g, 0)
          /\ UNCHANGED queue
     ELSE /\ queue' = Append(queue, Write(refresh[g].token, g))
          /\ refresh' = [refresh EXCEPT ![g].at = "store"] /\ UNCHANGED <<revoking, request>>
  /\ UNCHANGED <<server, phone, keystore, adrift, mishap>>

Refused(g) ==
  /\ refresh[g].at = "no" /\ Finish(g) /\ Resume(g, 0)
  /\ IF g = generation
     THEN Clear("clear") /\ restored' = "done"
     ELSE UNCHANGED <<phone, queue>>
  /\ UNCHANGED <<server, keystore, revoking, adrift, mishap>>

Unreachable(g) ==
  /\ refresh[g].at = "net" /\ Finish(g) /\ Resume(g, 0)
  /\ restored' = IF restored = "loading" /\ g = generation THEN "offline" ELSE restored
  /\ UNCHANGED <<server, generation, family, access, keystore, queue, revoking, adrift, mishap>>

\* The app starts again: what the keystore holds is turned back into a session.
Kill ==
  /\ mishap' = TRUE /\ generation + 1 \in Generations /\ generation' = generation + 1
  /\ family' = 0 /\ access' = 0 /\ queue' = <<>> /\ logins' = {}
  /\ \/ keystore' = keystore
     \/ queue # <<>> /\ Head(queue) = Write(Head(queue).token, generation)
        /\ keystore' = Head(queue).token
  /\ restored' = IF keystore' = None THEN "done" ELSE "loading"
  /\ adrift' = adrift \cup {refresh[g].token : g \in {h \in Generations : refresh[h].at = "sent"}}
  /\ refresh' = [g \in Generations |->
       IF g = generation' /\ keystore' # None THEN [NoRefresh EXCEPT !.at = "read"] ELSE NoRefresh]
  /\ request' = [r \in Requests |-> Free]
  /\ UNCHANGED <<head, ended, reused, revoking>>

Retry ==
  /\ restored = "offline" /\ restored' = "loading" /\ Join
  /\ UNCHANGED <<server, generation, family, access, keystore, queue, request, revoking, adrift, mishap>>

(******************************* The requests *****************************)

\* authedFetch for a screen of the user: with the token in memory, or after a
\* refresh when that is about to expire.
Call(r) ==
  /\ request[r].at = "free" /\ family # 0
  /\ \/ /\ request' = [request EXCEPT ![r] = [Free EXCEPT !.at = "sent", !.for = family, !.as = access]]
        /\ UNCHANGED refresh
     \/ /\ request' = [request EXCEPT ![r] = [Free EXCEPT !.at = "wait", !.for = family, !.gen = generation]]
        /\ Join
  /\ UNCHANGED <<server, phone, keystore, queue, revoking, adrift, mishap>>

\* Any answer but a first 401 is the caller's.
Answered(r) ==
  /\ request[r].at = "sent"
  /\ request' = [request EXCEPT ![r] = Free]
  /\ UNCHANGED <<server, phone, keystore, queue, refresh, revoking, adrift, mishap>>

Unauthorized(r) ==
  /\ request[r].at = "sent" /\ request[r].tries = 0 /\ Join
  /\ request' = [request EXCEPT ![r].at = "wait", ![r].gen = generation, ![r].tries = 1]
  /\ UNCHANGED <<server, phone, keystore, queue, revoking, adrift, mishap>>

Next ==
  \/ Logout \/ StoreClear \/ StoreWrite \/ Kill \/ Retry
  \/ \E f \in SignIns : Login(f) \/ Start(f)
  \/ \E g \in Generations : Answer(g) \/ Lose(g) \/ Read(g) \/ Rotated(g) \/ Refused(g) \/ Unreachable(g)
  \/ \E t \in adrift : ArriveLate(t)
  \/ \E t \in revoking : Revoke(t)
  \/ \E r \in Requests : Call(r) \/ Answered(r) \/ Unauthorized(r)

Spec == Init /\ [][Next]_vars

(****************************** Properties ********************************)

\* "a late write can never land after the clear() of a logout (or over a newer
\* login's token)" (session.ts:141): with nothing queued, what the keystore
\* holds is the session the phone is in or is restoring.
StoredIsCurrent ==
  queue = <<>> => IF family # 0 THEN keystore.family = family
                  ELSE restored = "done" => keystore = None

\* "a burst of requests rotates the token once" (session.ts:86): unless an
\* answer was lost or the app killed, no spent token is presented, which would
\* end the session.
NeverReused == reused # {} => mishap

\* "the rest belongs to the old account and must never go out as the new one"
\* (flush.ts:47).
SentAsItsCaller ==
  \A r \in Requests : request[r].at = "sent" => request[r].as = request[r].for
=============================================================================
