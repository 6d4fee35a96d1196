---------------------------- MODULE WebTimeline ----------------------------
(* What a browser tab shows of one conversation: the history query, live     *)
(* events, the answers to its own sends, and the gap sync after a reconnect. *)
(* apps/web/src/features/chat (ChatPane, RealtimeProvider, gapSync,          *)
(* messagesCache) and lib (realtime, lastSeenSeq).                           *)
(*                                                                           *)
(* Messages are their seq numbers.  The server publishes message.new after   *)
(* its commit, in no particular order, to the sockets it has registered; an  *)
(* event published and one received are one step, for one lost on the way is *)
(* as if published to no socket.                                             *)
EXTENDS Naturals, FiniteSets, FiniteSetsExt

CONSTANTS
  MaxSeq,    \* bound on the messages of the conversation
  PageSize,  \* messages of a history page
  GapPage,   \* messages of a gap-sync page
  MaxPages   \* gap-sync pages of one catch-up

VARIABLES
  last,     \* seq of the newest message on the server
  coming,   \* committed messages whose message.new is not out yet
  mine,     \* committed messages whose sender, this tab, has no answer yet
  socket,   \* "closed", "open" (handshake done) or "ready" (registered)
  pane,     \* ChatPane is mounted: only then are events merged
  query,    \* the history query: the answer it will bring, or NoAnswer
  loaded,   \* what the query cache holds, or NotLoaded
  cursor,   \* the `before` its oldest page was asked with, 0 for the newest page
  bookmark, \* last-seen seq in localStorage, 0 when there is none
  sync      \* the gap sync: whether it runs, where it is, what it has

vars == <<last, coming, mine, socket, pane, query, loaded, cursor, bookmark, sync>>

Seqs == 1..MaxSeq
NotLoaded == {0}    \* 0 is no seq
NoAnswer  == [seqs |-> {0}, before |-> 0]
NoSync    == [on |-> FALSE, after |-> 0, got |-> {}, pages |-> 0]

TypeOK ==
  /\ last \in 0..MaxSeq /\ coming \subseteq 1..last /\ mine \subseteq 1..last
  /\ socket \in {"closed", "open", "ready"} /\ pane \in BOOLEAN
  /\ loaded \in SUBSET Seqs \cup {NotLoaded}
  /\ query \in [seqs : SUBSET Seqs, before : 0..MaxSeq] \cup {NoAnswer}
  /\ cursor \in 0..MaxSeq
  /\ bookmark \in 0..last
  /\ sync \in [on : BOOLEAN, after : 0..MaxSeq, got : SUBSET Seqs, pages : 0..MaxPages]

Init ==
  /\ last = 0 /\ coming = {} /\ mine = {} /\ socket = "closed" /\ pane = FALSE
  /\ query = NoAnswer /\ loaded = NotLoaded /\ cursor = 0 /\ bookmark = 0 /\ sync = NoSync

Latest(a, b) == IF a > b THEN a ELSE b

(***************************** The cache **********************************)

\* appendToLatestPage: nothing to append to before the history is loaded.
Appended(seqs) == IF loaded = NotLoaded THEN loaded ELSE loaded \cup seqs

\* recordSeenSeq never moves back; a mounted pane calls it for its last row.
SeenNoGuard(seqs, seen) == IF seqs \in {{}, NotLoaded} THEN seen ELSE Max(seqs)
Seen(seqs, seen) == IF seqs \in {{}, NotLoaded} THEN seen ELSE Latest(seen, Max(seqs))

Show(seqs, seen) ==
  loaded' = seqs /\ bookmark' = IF pane THEN Seen(seqs, seen) ELSE seen

(***************************** The server *********************************)

Append ==
  /\ last < MaxSeq /\ last' = last + 1 /\ coming' = coming \cup {last'}

TheySend ==
  Append /\ UNCHANGED <<mine, socket, pane, query, loaded, cursor, bookmark, sync>>

ISend ==
  /\ Append /\ mine' = mine \cup {last'}
  /\ UNCHANGED <<socket, pane, query, loaded, cursor, bookmark, sync>>

\* trySend or the flush has its answer, or the answer is lost.
Sent(i) ==
  /\ i \in mine /\ mine' = mine \ {i}
  /\ Show(Appended({i}), bookmark) \/ UNCHANGED <<loaded, bookmark>>
  /\ UNCHANGED <<last, coming, socket, pane, query, cursor, sync>>

\* message.new leaves the server; ChatPane's handler if it reaches one.
Hear(i) ==
  /\ i \in coming /\ coming' = coming \ {i}
  /\ IF socket = "ready" /\ pane
     THEN Show(Appended({i}), Latest(bookmark, i))
     ELSE UNCHANGED <<loaded, bookmark>>
  /\ UNCHANGED <<last, mine, socket, pane, query, cursor, sync>>

(************************ The socket and the gap sync *********************)

\* RealtimeClient's 'open': RealtimeProvider starts a catch-up unless one is
\* running; without a bookmark there is nothing to catch up on.
Connect ==
  /\ socket = "closed" /\ socket' = "open"
  /\ sync' = IF sync.on \/ bookmark = 0 THEN sync
             ELSE [NoSync EXCEPT !.on = TRUE, !.after = bookmark]
  /\ UNCHANGED <<last, coming, mine, pane, query, loaded, cursor, bookmark>>

\* gateway.handleConnection has read the memberships and registers.
Register ==
  /\ socket = "open" /\ socket' = "ready"
  /\ UNCHANGED <<last, coming, mine, pane, query, loaded, cursor, bookmark, sync>>

Drop ==
  /\ socket # "closed" /\ socket' = "closed"
  /\ UNCHANGED <<last, coming, mine, pane, query, loaded, cursor, bookmark, sync>>

\* One page of syncOne; the last one hands everything collected to the cache.
SyncPage ==
  /\ sync.on
  /\ LET end  == IF sync.after + GapPage < last THEN sync.after + GapPage ELSE last
         all  == sync.got \cup (sync.after + 1)..end
         seen == Latest(bookmark, end)
     IN IF end < last /\ sync.pages + 1 < MaxPages
        THEN /\ sync' = [sync EXCEPT !.got = all, !.after = end, !.pages = @ + 1]
             /\ bookmark' = seen /\ UNCHANGED loaded
        ELSE sync' = NoSync /\ Show(Appended(all), seen)
  /\ UNCHANGED <<last, coming, mine, socket, pane, query, cursor>>

\* A page fails: what was collected is shown, the rest is left for later.
SyncFails ==
  /\ sync.on /\ sync' = NoSync /\ Show(Appended(sync.got), bookmark)
  /\ UNCHANGED <<last, coming, mine, socket, pane, query, cursor>>

(******************************* The pane *********************************)

OpenPane ==
  /\ ~pane /\ pane' = TRUE /\ bookmark' = Seen(loaded, bookmark)
  /\ UNCHANGED <<last, coming, mine, socket, query, loaded, cursor, sync>>

ClosePane ==
  /\ pane /\ pane' = FALSE
  /\ UNCHANGED <<last, coming, mine, socket, query, loaded, cursor, bookmark, sync>>

\* The history query: the newest page; on a refetch the oldest page loaded,
\* after which getNextPageParam says that there is no other; or one page
\* further back, put in front of what was loaded when it was asked for.
OnePage(before) ==
  LET end == IF before = 0 THEN last ELSE before - 1
  IN Latest(1, end + 1 - PageSize)..end

Ask(seqs, before) ==
  /\ pane /\ query = NoAnswer /\ query' = [seqs |-> seqs, before |-> before]
  /\ UNCHANGED <<last, coming, mine, socket, pane, loaded, cursor, bookmark, sync>>

Fetch == Ask(OnePage(cursor), cursor)

FetchOlder ==
  /\ loaded \notin {{}, NotLoaded} /\ Min(loaded) > 1
  /\ Ask(OnePage(Min(loaded)) \cup loaded, Min(loaded))

\* The answer takes the place of what was loaded.
ShowPages ==
  /\ query # NoAnswer /\ query' = NoAnswer
  /\ Show(query.seqs, bookmark) /\ cursor' = query.before
  /\ UNCHANGED <<last, coming, mine, socket, pane, sync>>

\* The cache of a pane left for long is collected.
Forget ==
  /\ ~pane /\ query = NoAnswer /\ loaded' = NotLoaded /\ cursor' = 0
  /\ UNCHANGED <<last, coming, mine, socket, pane, query, bookmark, sync>>

\* A reload keeps localStorage only.
Reload ==
  /\ socket' = "closed" /\ pane' = FALSE /\ query' = NoAnswer /\ loaded' = NotLoaded
  /\ cursor' = 0 /\ mine' = {} /\ sync' = NoSync
  /\ UNCHANGED <<last, coming, bookmark>>

Next ==
  \/ TheySend \/ ISend \/ Connect \/ Register \/ Drop \/ SyncPage \/ SyncFails
  \/ OpenPane \/ ClosePane \/ Fetch \/ FetchOlder \/ ShowPages
  \/ Forget \/ Reload
  \/ \E i \in Seqs : Sent(i) \/ Hear(i)

Spec == Init /\ [][Next]_vars

(****************************** Properties ********************************)

\* The tab waits for nothing: all that is on its way has arrived.
Settled ==
  socket = "ready" /\ ~sync.on /\ coming = {} /\ mine = {} /\ query = NoAnswer

\* RealtimeProvider.tsx:110 "catches this tab up on everything it missed while
\* disconnected": what a settled tab shows has no hole before its bookmark.
NoHoles ==
  Settled /\ loaded \notin {{}, NotLoaded} => Min(loaded)..bookmark \subseteq loaded

\* "deliberately monotonic" (lastSeenSeq.ts:37), whichever of the pane, an
\* event, a late answer or a page of the gap sync writes it.
BookmarkMonotonic == [][bookmark' >= bookmark]_vars
=============================================================================
