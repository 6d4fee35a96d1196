---------------------------- MODULE MobileOutbox ---------------------------
(* The phone's outbox: every text goes to SQLite first and a runner sends    *)
(* what is queued, one run at a time, for the account it started under.      *)
(* apps/mobile/src/outbox/flush.ts, data/outboxRunner.ts, DataProvider.tsx,  *)
(* hydrate.ts, queryClient.ts and the outbox of db/store.ts.                 *)
(*                                                                           *)
(* A step is what runs between two awaits; SQL statements run one after      *)
(* another (db/sql.ts).  The app may be killed at any time.  The account's   *)
(* generation is odd while somebody is signed in.                            *)
EXTENDS Naturals, Sequences, SequencesExt

CONSTANTS
  MaxMessages,      \* bound on what is typed
  MaxGeneration,    \* bound on sign-ins and sign-outs
  MaxUnauthorized,  \* MAX_UNAUTHORIZED
  MaxKills          \* bound on kills of the app

VARIABLES
  generation, \* of the session
  ready,      \* the store has been prepared for the account
  outbox,     \* rows by position: a message and whether it is "queued" or "failed"
  typed, logged, refused, gone, \* messages typed, on the server, ever refused,
              \* discarded by hand or wiped with their account
  run,        \* the flush under way: its generation, its list, where it is
  again,      \* another pass is asked for
  counts,     \* the runner's unauthorized map
  post,       \* the POST of the run
  adrift,     \* lost requests that may still arrive
  rejected,   \* how many 401s in a row a message has had
  kills

vars == <<generation, ready, outbox, typed, logged, refused, gone, run, again,
          counts, post, adrift, rejected, kills>>

\* The clientMsgIds, numbered in the order of typing.
Messages == 1..MaxMessages

session == <<generation, ready>>
fates   == <<typed, logged, refused, gone>>
runner  == <<run, again, counts, post>>

Idle   == [at |-> "idle", gen |-> 0, list |-> <<>>, done |-> 0]
NoPost == [msg |-> 0, answer |-> "none"]
NoCounts == [m \in Messages |-> 0]
Row(m, s) == [msg |-> m, state |-> s]
Queued == {outbox[i].msg : i \in {j \in DOMAIN outbox : outbox[j].state = "queued"}}
Stored == {outbox[i].msg : i \in DOMAIN outbox}

TypeOK ==
  /\ generation \in 0..MaxGeneration /\ ready \in BOOLEAN /\ again \in BOOLEAN
  /\ outbox \in Seq([msg : Messages, state : {"queued", "failed"}])
  /\ typed \subseteq Messages /\ logged \subseteq typed /\ refused \subseteq typed
  /\ gone \subseteq typed /\ adrift \subseteq typed /\ Stored \subseteq typed
  /\ run.at \in {"idle", "list", "item", "wait"} /\ run.gen \in 0..MaxGeneration
  /\ run.done \in 0..Len(run.list)
  /\ counts \in [Messages -> 0..MaxUnauthorized]
  /\ rejected \in [Messages -> 0..MaxUnauthorized] /\ kills \in 0..MaxKills

Init ==
  /\ generation = 0 /\ ready = FALSE /\ outbox = <<>>
  /\ typed = {} /\ logged = {} /\ refused = {} /\ gone = {}
  /\ run = Idle /\ again = FALSE /\ counts = NoCounts /\ post = NoPost
  /\ adrift = {} /\ rejected = NoCounts /\ kills = 0

SignedIn == generation % 2 = 1
PositionOf(m) == CHOOSE i \in DOMAIN outbox : outbox[i].msg = m
Delete(m) == IF m \in Stored THEN RemoveAt(outbox, PositionOf(m)) ELSE outbox
Mark(m, s) == [i \in DOMAIN outbox |->
                 IF outbox[i].msg = m THEN Row(m, s) ELSE outbox[i]]

(******************************* The account ******************************)

SignIn ==
  /\ ~SignedIn /\ generation < MaxGeneration /\ generation' = generation + 1
  /\ UNCHANGED <<ready, outbox, fates, runner, adrift, rejected, kills>>

\* prepareStoreForUser: a store of nobody's or of another account is wiped.
\* A sign-out leaves no owner, so only the store of a restart is kept.
Prepare ==
  /\ SignedIn /\ ~ready /\ ready' = TRUE
  /\ UNCHANGED <<generation, outbox, fates, runner, adrift, rejected, kills>>

\* Signing out bumps the generation and wipes the store; a run goes on.
SignOut ==
  /\ SignedIn /\ generation < MaxGeneration /\ generation' = generation + 1
  /\ ready' = FALSE /\ outbox' = <<>> /\ gone' = gone \cup Stored
  /\ UNCHANGED <<typed, logged, refused, runner, adrift, rejected, kills>>

\* The process ends; SQLite and the keystore stay.
Kill ==
  /\ kills < MaxKills /\ kills' = kills + 1
  /\ ready' = FALSE /\ run' = Idle /\ again' = FALSE /\ counts' = NoCounts
  /\ post' = NoPost
  /\ adrift' = IF post.answer = "sent" THEN adrift \cup {post.msg} ELSE adrift
  /\ UNCHANGED <<generation, outbox, fates, rejected>>

(******************************* The runner *******************************)

\* flush(): one run at a time.  For another account it comes after the run.
Flush ==
  IF run.at = "idle"
  THEN run' = [Idle EXCEPT !.at = "list", !.gen = generation] /\ UNCHANGED again
  ELSE again' = TRUE /\ UNCHANGED run

\* When a run ends the map of 401s is cleared, and what another account
\* asked for meanwhile starts.
EndRun ==
  /\ counts' = NoCounts /\ again' = FALSE
  /\ run' = IF again /\ run.gen # generation /\ SignedIn
            THEN [Idle EXCEPT !.at = "list", !.gen = generation] ELSE Idle

List ==
  /\ run.at = "list"
  /\ run' = [run EXCEPT !.at = "item", !.list = outbox, !.done = 0]
  /\ again' = FALSE
  /\ UNCHANGED <<session, outbox, fates, counts, post, adrift, rejected, kills>>

\* The next item of the list as it was read, while the account is the same.
ItemUnchecked ==
  /\ run.at = "item" /\ run.done < Len(run.list)
  /\ LET item == run.list[run.done + 1] IN
     IF item.state # "queued"
     THEN run' = [run EXCEPT !.done = @ + 1] /\ UNCHANGED post
     ELSE /\ post' = [msg |-> item.msg, answer |-> "sent"]
          /\ run' = [run EXCEPT !.at = "wait"]
  /\ UNCHANGED <<session, outbox, fates, again, counts, adrift, rejected, kills>>

Item ==
  /\ run.at = "item" /\ run.done < Len(run.list)
  /\ LET item == run.list[run.done + 1] IN
     \/ /\ item.state # "queued"
        /\ run' = [run EXCEPT !.done = @ + 1] /\ UNCHANGED <<again, counts, post>>
     \/ /\ item.state = "queued" /\ run.gen = generation
        /\ post' = [msg |-> item.msg, answer |-> "sent"]
        /\ run' = [run EXCEPT !.at = "wait"] /\ UNCHANGED <<again, counts>>
     \/ /\ item.state = "queued" /\ run.gen # generation
        /\ EndRun /\ UNCHANGED post
  /\ UNCHANGED <<session, outbox, fates, adrift, rejected, kills>>

\* The list is done: again if asked for and the account is still the same.
Pass ==
  /\ run.at = "item" /\ run.done = Len(run.list)
  /\ IF again /\ run.gen = generation
     THEN run' = [run EXCEPT !.at = "list"] /\ UNCHANGED <<again, counts>>
     ELSE EndRun
  /\ UNCHANGED <<session, outbox, fates, post, adrift, rejected, kills>>

\* The server: the message, a refusal, a 401; or the network.
Accept(m) ==
  /\ post = [msg |-> m, answer |-> "sent"] /\ post' = [post EXCEPT !.answer = "ok"]
  /\ logged' = logged \cup {m}
  /\ UNCHANGED <<session, outbox, typed, refused, gone, run, again, counts, adrift,
                 rejected, kills>>

Fail(why) ==
  /\ post.answer = "sent" /\ post' = [post EXCEPT !.answer = why]
  /\ UNCHANGED <<session, outbox, fates, run, again, counts, rejected, kills>>

Refuse == post.msg \notin logged /\ Fail("no") /\ UNCHANGED adrift
Unauthorized == Fail("401") /\ UNCHANGED adrift
LoseRequest == Fail("net") /\ adrift' = adrift \cup {post.msg}

LoseAnswer ==
  /\ post.answer = "ok" /\ post' = [post EXCEPT !.answer = "net"]
  /\ UNCHANGED <<session, outbox, fates, run, again, counts, adrift, rejected, kills>>

ArriveLate(m) ==
  /\ m \in adrift /\ adrift' = adrift \ {m}
  /\ logged' = logged \cup {m} \/ UNCHANGED logged
  /\ UNCHANGED <<session, outbox, typed, refused, gone, runner, rejected, kills>>

Step == run' = [run EXCEPT !.at = "item", !.done = @ + 1] /\ UNCHANGED again

\* The bug of going on after a lost answer.
AnsweredSkips ==
  /\ run.at = "wait" /\ post.answer \notin {"none", "sent"} /\ post' = NoPost
  /\ outbox' = IF post.answer = "ok" THEN Delete(post.msg) ELSE outbox
  /\ Step
  /\ UNCHANGED <<session, fates, counts, adrift, rejected, kills>>

\* The bug of removing a row whatever came of its request.
AnsweredForgets ==
  /\ run.at = "wait" /\ post.answer \notin {"none", "sent"} /\ post' = NoPost
  /\ outbox' = Delete(post.msg) /\ Step
  /\ UNCHANGED <<session, fates, counts, adrift, rejected, kills>>

Answered ==
  /\ run.at = "wait" /\ post' = NoPost
  /\ LET m == post.msg IN
     \/ /\ post.answer = "ok" /\ outbox' = Delete(m) /\ Step
        /\ counts' = [counts EXCEPT ![m] = 0] /\ rejected' = [rejected EXCEPT ![m] = 0]
        /\ UNCHANGED refused
     \/ /\ post.answer = "no" /\ outbox' = Mark(m, "failed") /\ Step
        /\ refused' = refused \cup {m} /\ UNCHANGED <<counts, rejected>>
     \/ /\ post.answer = "401" /\ counts[m] + 1 >= MaxUnauthorized
        /\ outbox' = Mark(m, "failed") /\ refused' = refused \cup {m} /\ Step
        /\ counts' = [counts EXCEPT ![m] = 0] /\ rejected' = [rejected EXCEPT ![m] = 0]
     \/ /\ post.answer = "401" /\ counts[m] + 1 < MaxUnauthorized
        /\ rejected' = [rejected EXCEPT ![m] = IF @ = MaxUnauthorized THEN @ ELSE @ + 1]
        /\ EndRun /\ UNCHANGED <<outbox, refused>>
     \/ /\ post.answer = "net" /\ EndRun /\ UNCHANGED <<outbox, refused, rejected>>
  /\ UNCHANGED <<session, typed, logged, gone, adrift, kills>>

(********************************* The owner ******************************)

Submit(m) ==
  /\ ready /\ typed = 1..(m - 1) /\ typed' = typed \cup {m}
  /\ outbox' = Append(outbox, Row(m, "queued")) /\ Flush
  /\ UNCHANGED <<session, logged, refused, gone, counts, post, adrift, rejected, kills>>

Retry(m) ==
  /\ ready /\ m \in Stored \ Queued /\ outbox' = Mark(m, "queued") /\ Flush
  /\ UNCHANGED <<session, fates, counts, post, adrift, rejected, kills>>

Discard(m) ==
  /\ ready /\ m \in Stored /\ outbox' = Delete(m) /\ gone' = gone \cup {m}
  /\ UNCHANGED <<session, typed, logged, refused, runner, adrift, rejected, kills>>

\* A resume, the network coming back, or the interval of DataProvider.
NeverTick == FALSE /\ UNCHANGED vars
Tick ==
  /\ ready /\ Flush
  /\ UNCHANGED <<session, outbox, fates, counts, post, adrift, rejected, kills>>

Next ==
  \/ SignIn \/ Prepare \/ SignOut \/ Kill
  \/ List \/ Item \/ Pass \/ Answered \/ Tick
  \/ Refuse \/ Unauthorized \/ LoseRequest \/ LoseAnswer
  \/ \E m \in Messages : Submit(m) \/ Retry(m) \/ Discard(m) \/ Accept(m) \/ ArriveLate(m)

Spec == Init /\ [][Next]_vars

\* The runner runs, the interval passes, and a message sent over and over is
\* at last handled by the server and its answer received.
Fairness ==
  /\ WF_vars(Prepare) /\ WF_vars(List \/ Item \/ Pass) /\ WF_vars(Tick)
  /\ WF_vars(Answered) /\ WF_vars(\E m \in Messages : Accept(m))
  /\ \A m \in Messages : SF_vars(Answered /\ post = [msg |-> m, answer |-> "ok"])
  /\ \A m \in Messages : SF_vars(Accept(m))
FairSpec == Spec /\ Fairness

(****************************** Properties ********************************)

\* "the one table that must never be dropped silently" (store.ts:62): what was
\* typed is on the server or in the outbox until its author gives it up or
\* signs out, whenever the app is killed.
NothingForgotten == typed \subseteq logged \cup Stored \cup gone

\* "a later message can never overtake an earlier one" (flush.ts:30): all that
\* a run has passed by was sent, refused or given up.
FlushInOrder ==
  \A i \in 1..run.done : run.list[i].msg \in logged \cup refused \cup gone

\* A run for an old account posts nothing more (flush.ts:45).
NeverForAnother ==
  [][post'.answer = "sent" /\ post # post' => run.gen = generation]_vars

\* What is queued is in time sent, refused or given up, whatever is lost.
Drains == \A m \in Messages : []<>(m \in Queued => ~SignedIn)

\* "How many 401s in a row one message may get before it is marked failed"
\* (flush.ts:19), "kept by the runner across runs" (flush.ts:15).
GivesUp == \A m \in Messages : rejected[m] < MaxUnauthorized
=============================================================================
