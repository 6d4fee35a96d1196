--------------------------- MODULE MobileTimeline ---------------------------
(* What the phone shows and keeps of one conversation: the list in memory    *)
(* (react-query) and its copy in SQLite, filled by the newest page, older    *)
(* pages, live events and the answers to own sends.                          *)
(* apps/mobile/src/data (hooks, messagesState, outboxRunner, jump),          *)
(* realtime (events, RealtimeProvider) and the messages of db/store.ts.      *)
(*                                                                           *)
(* Messages are their seq numbers.  Statements on the store run in the order *)
(* they are issued, so a write is part of the step that issues it.           *)
EXTENDS Naturals, FiniteSets, FiniteSetsExt

CONSTANTS
  MaxSeq,   \* bound on the messages of the conversation
  PageSize, \* messages of a page
  Cap,      \* MAX_MESSAGES_PER_CONVERSATION
  Hydrated  \* HYDRATE_COUNT

VARIABLES
  last,    \* seq of the newest message on the server
  coming,  \* committed messages whose message.new is not out yet
  mine,    \* own messages whose answer is not here yet
  socket,  \* "closed" or "ready"
  screen,  \* the conversation is on screen
  shown,   \* the messages in memory, or NotLoaded
  hasMore, \* what the last page said of older ones
  stored,  \* the messages in SQLite
  query,   \* the newest page on its way, or NoPage
  late,    \* a newest page that another one has replaced
  older,   \* an older page on its way
  stale    \* the list was invalidated and not read again

vars == <<last, coming, mine, socket, screen, shown, hasMore, stored, query, late,
          older, stale>>
memory == <<shown, hasMore, stale>>
fetches == <<query, late, older>>

Seqs == 1..MaxSeq
NotLoaded == {0}   \* 0 is no seq
NoPage    == {0}
Loaded    == shown # NotLoaded

TypeOK ==
  /\ last \in 0..MaxSeq /\ coming \subseteq 1..last /\ mine \subseteq 1..last
  /\ socket \in {"closed", "ready"} /\ {screen, hasMore, stale} \subseteq BOOLEAN
  /\ stored \subseteq 1..last /\ Cardinality(stored) <= Cap
  /\ {shown, query, late, older} \subseteq SUBSET (1..last) \cup {NoPage}

Init ==
  /\ last = 0 /\ coming = {} /\ mine = {} /\ socket = "closed" /\ screen = FALSE
  /\ shown = NotLoaded /\ hasMore = FALSE /\ stored = {} /\ stale = FALSE
  /\ query = NoPage /\ late = NoPage /\ older = NoPage

Newest(s, n) == {i \in s : Cardinality({j \in s : j > i}) < n}

(******************************* The copies *******************************)

Reaches(s, page) == page # {} /\ Max(s) >= Min(page) - 1

\* mergeLatestPage: what is loaded stays if it joins the page without a hole.
Kept(page) ==
  IF ~Loaded \/ shown = {} THEN {}
  ELSE IF page = {} THEN shown
  ELSE IF Reaches(shown, page) THEN {i \in shown : i < Min(page)} ELSE {}

\* saveLatestPage: likewise, then cut to the cap.
SavedLatest(page) ==
  Newest(page \cup (IF stored # {} /\ page # {} /\ ~Reaches(stored, page) THEN {} ELSE stored), Cap)

\* appendLive: only what is stored or directly follows it.
Joins(i) == IF stored = {} THEN i = 1 ELSE i = Max(stored) + 1
SavedLive(i) == IF i \in stored \/ Joins(i) THEN Newest(stored \cup {i}, Cap) ELSE stored

(******************************* The server *******************************)

Append == last < MaxSeq /\ last' = last + 1 /\ coming' = coming \cup {last'}

TheySend ==
  Append /\ UNCHANGED <<mine, socket, screen, memory, stored, fetches>>

ISend ==
  /\ Append /\ mine' = mine \cup {last'}
  /\ UNCHANGED <<socket, screen, memory, stored, fetches>>

Page(before) == Newest(1..(before - 1), PageSize)

(******************************* The phone ********************************)

\* useQuery and invalidateQueries: a fetch starts for a list that is on
\* screen.  With something loaded it takes the place of one under way, whose
\* page is still saved; with nothing loaded the one under way goes on.
Ask(page) ==
  IF query = NoPage THEN query' = page /\ stale' = FALSE /\ UNCHANGED late
  ELSE IF Loaded THEN query' = page /\ stale' = FALSE /\ late' = query
  ELSE UNCHANGED <<query, late, stale>>

Invalidate ==
  IF screen THEN Ask(Page(last + 1)) ELSE stale' = TRUE /\ UNCHANGED <<query, late>>

NeverFetch == FALSE /\ UNCHANGED vars

\* The interval of useLiveInterval, and a mount.
Fetch ==
  /\ screen /\ query = NoPage /\ Ask(Page(last + 1))
  /\ UNCHANGED <<last, coming, mine, socket, screen, shown, hasMore, stored, older>>

Open ==
  /\ ~screen /\ screen' = TRUE
  /\ IF Loaded /\ ~stale THEN UNCHANGED <<query, late, stale>> ELSE Ask(Page(last + 1))
  /\ UNCHANGED <<last, coming, mine, socket, shown, hasMore, stored, older>>

Close ==
  /\ screen /\ screen' = FALSE
  /\ UNCHANGED <<last, coming, mine, socket, memory, stored, fetches>>

\* The on-device copy is shown until the server answers.
Hydrate ==
  /\ screen /\ ~Loaded /\ stored # {}
  /\ shown' = Newest(stored, Hydrated) /\ hasMore' = TRUE
  /\ UNCHANGED <<last, coming, mine, socket, screen, stale, stored, fetches>>

ShowLatest ==
  /\ query # NoPage /\ query' = NoPage
  /\ shown' = Kept(query) \cup query
  /\ hasMore' = IF Kept(query) # {} THEN hasMore
                ELSE query # {} /\ Min(query) > 1
  /\ stored' = SavedLatest(query)
  /\ UNCHANGED <<last, coming, mine, socket, screen, late, older, stale>>

SaveLate ==
  /\ late # NoPage /\ late' = NoPage /\ stored' = SavedLatest(late)
  /\ UNCHANGED <<last, coming, mine, socket, screen, memory, query, older>>

FailLatest ==
  /\ query # NoPage /\ query' = NoPage
  /\ UNCHANGED <<last, coming, mine, socket, screen, memory, stored, late, older>>

\* loadPage: one older page at a time, asked for before the oldest loaded.
AskOlder ==
  /\ screen /\ Loaded /\ shown # {} /\ hasMore /\ older = NoPage
  /\ older' = Page(Min(shown))
  /\ UNCHANGED <<last, coming, mine, socket, screen, memory, stored, query, late>>

ShowOlder ==
  /\ older # NoPage /\ older' = NoPage
  /\ shown' = older \cup IF Loaded THEN shown ELSE {}
  /\ hasMore' = (older # {} /\ Min(older) > 1)
  /\ stored' = Newest(stored \cup older, Cap)
  /\ UNCHANGED <<last, coming, mine, socket, screen, query, late, stale>>

FailOlder ==
  /\ older # NoPage /\ older' = NoPage
  /\ UNCHANGED <<last, coming, mine, socket, screen, memory, stored, query, late>>

\* recordMessage, or the answer is lost.
Sent(i) ==
  /\ i \in mine /\ mine' = mine \ {i}
  /\ \/ /\ shown' = IF Loaded THEN shown \cup {i} ELSE shown
        /\ stored' = SavedLive(i)
     \/ UNCHANGED <<shown, stored>>
  /\ UNCHANGED <<last, coming, socket, screen, hasMore, stale, fetches>>

\* applyRealtimeEvent of message.new, if the phone is connected.
SkipsAhead(i) == Loaded /\ shown # {} /\ i > Max(shown) + 1

Hear(i) ==
  /\ i \in coming /\ coming' = coming \ {i}
  /\ \/ /\ socket = "closed" /\ UNCHANGED <<query, late, stale, shown, stored>>
     \/ /\ socket = "ready" /\ SkipsAhead(i) /\ Invalidate /\ UNCHANGED <<shown, stored>>
     \/ /\ socket = "ready" /\ ~SkipsAhead(i)
        /\ shown' = IF Loaded THEN shown \cup {i} ELSE shown
        /\ stored' = SavedLive(i) /\ UNCHANGED <<query, late, stale>>
  /\ UNCHANGED <<last, mine, socket, screen, hasMore, older>>

\* realtime.ready, and catchUp; the same on a resume.
CatchUp ==
  /\ Loaded \/ screen
  /\ socket' = "ready" /\ Invalidate
  /\ UNCHANGED <<last, coming, mine, screen, shown, hasMore, stored, older>>

Drop ==
  /\ socket = "ready" /\ socket' = "closed"
  /\ UNCHANGED <<last, coming, mine, screen, memory, stored, fetches>>

\* The app is killed; or its user signs out, which empties the store; or the
\* list is collected and an inbox without this conversation was saved.
Restart ==
  /\ socket' = "closed" /\ screen' = FALSE
  /\ shown' = NotLoaded /\ hasMore' = FALSE /\ stale' = FALSE
  /\ query' = NoPage /\ late' = NoPage /\ older' = NoPage /\ mine' = {}
  /\ stored' \in {stored, {}}
  /\ UNCHANGED <<last, coming>>

Next ==
  \/ TheySend \/ ISend \/ Fetch \/ Open \/ Close \/ Hydrate \/ ShowLatest
  \/ SaveLate \/ FailLatest \/ AskOlder \/ ShowOlder \/ FailOlder
  \/ CatchUp \/ Drop \/ Restart
  \/ \E i \in Seqs : Sent(i) \/ Hear(i)

Spec == Init /\ [][Next]_vars

\* A list on screen is read again and again, and not all reads fail.
Fairness == WF_vars(Fetch) /\ SF_vars(ShowLatest)
FairSpec == Spec /\ Fairness

(****************************** Properties ********************************)

\* However events, pages and answers overtake each other, a conversation left
\* on screen comes to show its newest message (hooks.ts, useMessages: the
\* refetch is the safety net of the socket).
TailShows ==
  []<>(last = MaxSeq /\ screen => shown # NotLoaded /\ MaxSeq \in shown)

\* "the cache is always one contiguous run and the offline view can never
\* present a hole" (store.ts:142).
StoreContiguous == stored # {} => stored = Min(stored)..Max(stored)
=============================================================================
