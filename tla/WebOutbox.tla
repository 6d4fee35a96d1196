----------------------------- MODULE WebOutbox -----------------------------
(* How a browser tab sends what its owner types: the composer's own attempt, *)
(* the IndexedDB outbox, and the flush that follows a reconnect.             *)
(* apps/web/src/features/chat (ChatPane, outboxFlush, RealtimeProvider) and  *)
(* lib (outbox, realtime).                                                   *)
(*                                                                           *)
(* A step is what runs between two awaits.  The server answers a resent      *)
(* clientMsgId with the message it has (module MessageLog).  What the tab    *)
(* shows of the conversation is module WebTimeline.                          *)
EXTENDS Naturals, Sequences, SequencesExt

CONSTANTS
  MaxMessages, \* bound on what the owner types
  MaxFaults    \* bound on lost requests of the composer, and on reloads

VARIABLES
  logged,   \* messages the server has
  coming,   \* those of them whose message.new is not out yet
  socket,   \* "closed" or "open"
  pane,     \* ChatPane is mounted
  typed,    \* messages submitted so far
  pending,  \* the bubbles of the pane that are not confirmed
  outbox,   \* the IndexedDB queue by queuedAt
  posts,    \* POSTs under way: who waits, and for what answer
  adrift,   \* POSTs nobody waits for that may still reach the server
  sync,     \* the catch-up: what it does, its listing, how much of it is done
  dropped,  \* what the server refused, and what a reload cut off
  faults

vars == <<logged, coming, socket, pane, typed, pending, outbox, posts, adrift,
          sync, dropped, faults>>

\* The clientMsgIds, numbered in the order of typing.
Messages == 1..MaxMessages

server == <<logged, coming>>
tab    == <<pane, typed, pending>>

Post(m, who, answer) == [msg |-> m, by |-> who, answer |-> answer]
Idle == [at |-> "idle", queue |-> <<>>, sent |-> 0]
NoBubbles == [m \in Messages |-> "none"]

TypeOK ==
  /\ coming \subseteq logged /\ logged \subseteq typed /\ typed \subseteq Messages
  /\ socket \in {"closed", "open"} /\ pane \in BOOLEAN
  /\ pending \in [Messages -> {"none", "sending", "failed"}]
  /\ outbox \in Seq(Messages) /\ IsInjective(outbox)
  /\ posts \subseteq [msg : Messages, by : {"pane", "flush"},
                      answer : {"none", "ok", "no", "net"}]
  /\ sync.at \in {"idle", "list", "send", "wait"}
  /\ sync.queue \in Seq(Messages) /\ sync.sent \in 0..Len(sync.queue)
  /\ adrift \subseteq Messages /\ dropped \subseteq Messages
  /\ faults \in 0..MaxFaults

Init ==
  /\ logged = {} /\ coming = {} /\ socket = "closed" /\ pane = FALSE
  /\ typed = {} /\ pending = NoBubbles /\ outbox = <<>>
  /\ posts = {} /\ adrift = {} /\ sync = Idle /\ dropped = {}
  /\ faults = 0

Fault == faults < MaxFaults /\ faults' = faults + 1

\* lib/outbox.ts: the key is the clientMsgId, a new put is last by queuedAt.
PositionOf(m) == CHOOSE i \in DOMAIN outbox : outbox[i] = m
Dequeue(m) == IF m \in Range(outbox) THEN RemoveAt(outbox, PositionOf(m)) ELSE outbox
Enqueue(m) == Append(Dequeue(m), m)

(************************* The server and the network *********************)

Commit(m) ==
  /\ logged' = logged \cup {m}
  /\ coming' = IF m \in logged THEN coming ELSE coming \cup {m}

Answer(p, a) == posts' = (posts \ {p}) \cup {[p EXCEPT !.answer = a]}

Accept(p) ==
  /\ p.answer = "none" /\ Commit(p.msg) /\ Answer(p, "ok")
  /\ UNCHANGED <<socket, tab, outbox, adrift, sync, dropped, faults>>

\* An ApiError: no longer a member, not valid, slowed down.
Refuse(p) ==
  /\ p.answer = "none" /\ p.msg \notin logged /\ Answer(p, "no")
  /\ UNCHANGED <<server, socket, tab, outbox, adrift, sync, dropped, faults>>

\* The request or its answer is lost; a lost request may still arrive.
Lose(p) ==
  /\ p.answer \in {"none", "ok", "no"} /\ Answer(p, "net")
  /\ adrift' = IF p.answer = "none" THEN adrift \cup {p.msg} ELSE adrift
  /\ IF p.by = "pane" THEN Fault ELSE UNCHANGED faults
  /\ UNCHANGED <<server, socket, tab, outbox, sync, dropped>>

ArriveLate(m) ==
  /\ m \in adrift /\ adrift' = adrift \ {m}
  /\ \/ Commit(m)
     \/ m \notin logged /\ UNCHANGED server
  /\ UNCHANGED <<socket, tab, outbox, posts, sync, dropped, faults>>

\* message.new of an own message, if it reaches a mounted pane.
Hear(m) ==
  /\ m \in coming /\ coming' = coming \ {m}
  /\ \/ /\ socket = "open" /\ pane
        /\ pending' = [pending EXCEPT ![m] = "none"] /\ outbox' = Dequeue(m)
     \/ UNCHANGED <<pending, outbox>>
  /\ UNCHANGED <<logged, socket, pane, typed, posts, adrift, sync, dropped, faults>>

(*************************** Catching up **********************************)

\* RealtimeClient.open and its 'open' event: RealtimeProvider starts a
\* catch-up unless one is running.  It begins with the gap sync, which never
\* rejects and is module WebTimeline.
Connect ==
  /\ socket = "closed" /\ socket' = "open"
  /\ sync' = IF sync.at = "idle" THEN [Idle EXCEPT !.at = "list"] ELSE sync
  /\ UNCHANGED <<server, tab, outbox, posts, adrift, dropped, faults>>

Drop ==
  /\ socket = "open" /\ socket' = "closed"
  /\ UNCHANGED <<server, tab, outbox, posts, adrift, sync, dropped, faults>>

ListOutbox ==
  /\ sync.at = "list"
  /\ sync' = IF outbox = <<>> THEN Idle ELSE [Idle EXCEPT !.at = "send", !.queue = outbox]
  /\ UNCHANGED <<server, socket, tab, outbox, posts, adrift, dropped, faults>>

FlushSend ==
  /\ sync.at = "send" /\ sync' = [sync EXCEPT !.at = "wait"]
  /\ posts' = posts \cup {Post(sync.queue[sync.sent + 1], "flush", "none")}
  /\ UNCHANGED <<server, socket, tab, outbox, adrift, dropped, faults>>

NextInQueue ==
  IF sync.sent + 1 = Len(sync.queue) THEN Idle
  ELSE [sync EXCEPT !.at = "send", !.sent = @ + 1]

\* The bug that the break of flushOutbox is there against.
FlushSkipsAhead(p) ==
  /\ p.by = "flush" /\ p.answer # "none" /\ posts' = posts \ {p}
  /\ outbox' = IF p.answer = "net" THEN outbox ELSE Dequeue(p.msg)
  /\ dropped' = IF p.answer = "no" THEN dropped \cup {p.msg} ELSE dropped
  /\ sync' = NextInQueue
  /\ UNCHANGED <<server, socket, tab, adrift, faults>>

FlushAnswered(p) ==
  /\ p.by = "flush" /\ p.answer # "none" /\ posts' = posts \ {p}
  /\ outbox' = IF p.answer = "net" THEN outbox ELSE Dequeue(p.msg)
  /\ dropped' = IF p.answer = "no" THEN dropped \cup {p.msg} ELSE dropped
  /\ sync' = IF p.answer = "net" THEN Idle ELSE NextInQueue
  /\ UNCHANGED <<server, socket, tab, adrift, faults>>

(******************************* The pane *********************************)

\* Mounted or left for another page; the bubbles are the pane's own state.
OpenPane ==
  /\ ~pane /\ pane' = TRUE
  /\ UNCHANGED <<server, socket, typed, pending, outbox, posts, adrift, sync, dropped, faults>>

ClosePane ==
  /\ pane /\ pane' = FALSE /\ pending' = NoBubbles
  /\ UNCHANGED <<server, socket, typed, outbox, posts, adrift, sync, dropped, faults>>

TrySend(m) ==
  /\ pending' = [pending EXCEPT ![m] = "sending"]
  /\ posts' = posts \cup {Post(m, "pane", "none")}
  /\ UNCHANGED <<server, socket, pane, outbox, adrift, sync, dropped, faults>>

Submit(m) == pane /\ typed = 1..(m - 1) /\ typed' = typed \cup {m} /\ TrySend(m)
Retry(m)  == pane /\ pending[m] = "failed" /\ UNCHANGED typed /\ TrySend(m)

Bubble(p) ==
  pending' = [pending EXCEPT ![p.msg] =
                IF p.answer = "ok" \/ @ = "none" THEN "none" ELSE "failed"]

\* The bug of taking a lost answer for a refusal.
PaneForgets(p) ==
  /\ p.by = "pane" /\ p.answer # "none" /\ posts' = posts \ {p} /\ Bubble(p)
  /\ outbox' = IF p.answer = "ok" THEN Dequeue(p.msg) ELSE outbox
  /\ dropped' = IF p.answer = "no" THEN dropped \cup {p.msg} ELSE dropped
  /\ UNCHANGED <<server, socket, pane, typed, adrift, sync, faults>>

\* The end of trySend, mounted or not.
PaneAnswered(p) ==
  /\ p.by = "pane" /\ p.answer # "none" /\ posts' = posts \ {p} /\ Bubble(p)
  /\ outbox' = CASE p.answer = "ok"  -> Dequeue(p.msg)
                 [] p.answer = "net" -> Enqueue(p.msg)
                 [] p.answer = "no"  -> outbox
  /\ dropped' = IF p.answer = "no" THEN dropped \cup {p.msg} ELSE dropped
  /\ UNCHANGED <<server, socket, pane, typed, adrift, sync, faults>>

\* The tab is reloaded: IndexedDB stays, the rest is gone.
Reload ==
  /\ socket' = "closed" /\ pane' = FALSE /\ pending' = NoBubbles
  /\ posts' = {} /\ sync' = Idle
  /\ adrift' = adrift \cup {p.msg : p \in {q \in posts : q.answer = "none"}}
  /\ dropped' = dropped \cup {p.msg : p \in {q \in posts : q.by = "pane"}}
  /\ Fault /\ UNCHANGED <<server, typed, outbox>>

Client ==
  \/ Connect \/ ListOutbox \/ FlushSend
  \/ \E p \in posts : FlushAnswered(p) \/ PaneAnswered(p)

Next ==
  \/ \E p \in posts : Accept(p) \/ Refuse(p) \/ Lose(p)
  \/ \E m \in Messages : Submit(m) \/ Retry(m) \/ ArriveLate(m) \/ Hear(m)
  \/ Client \/ Drop \/ OpenPane \/ ClosePane \/ Reload

Spec == Init /\ [][Next]_vars

\* Requests are answered and the tab carries on; nobody need do anything.
Fairness ==
  /\ WF_vars(Connect) /\ WF_vars(ListOutbox \/ FlushSend)
  /\ WF_vars(\E p \in posts : Accept(p))
  /\ WF_vars(\E p \in posts : FlushAnswered(p) \/ PaneAnswered(p))
FairSpec == Spec /\ Fairness

(****************************** Properties ********************************)

\* Nothing typed is forgotten behind its author's back: it is on the server,
\* queued, or its request is still under way, unless the server refused it or
\* a reload cut its first request off (trySend, the handler of message.new and
\* flushOutbox all take messages out of the outbox).
NothingForgotten ==
  typed \subseteq logged \cup Range(outbox) \cup dropped \cup {p.msg : p \in posts}

\* "stopping at the first one that still can't be sent rather than skipping
\* ahead" (outboxFlush.ts:24): all that a flush has passed was sent or refused.
FlushInOrder ==
  \A i \in 1..sync.sent : sync.queue[i] \in logged \cup dropped

\* What is queued is sent "the moment the connection comes back"
\* (ChatPane.tsx:725): while the socket stays open nothing stays queued.
OutboxDrains ==
  <>[](socket = "open") => \A m \in Messages : m \in Range(outbox) ~> m \notin Range(outbox)
=============================================================================
