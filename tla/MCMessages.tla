------------------------------ MODULE MCMessages ------------------------------
(* Messages: the store of the API (MessageLog), what a browser tab shows of  *)
(* a conversation (WebTimeline), a picked file (Attachments) and the keys of *)
(* an encrypted chat (E2ee).  Each behaviour chooses a focus and moves that  *)
(* component alone.                                                          *)
EXTENDS MessageLog, TLC

CONSTANTS
  Slots, Sends, MaxAttempts, MaxRetries, MaxCrashes, None, \* Attachments
  x1, x2,                                                 \* of the sets below
  Browsers, Tabs, BrowserOf, UserOf, MaxPerUser, MaxDevices, MaxKeys, MaxSends, Leaving \* E2ee

VARIABLES
  focus,
  tLast, tComing, tMine, tSocket, tPane, tQuery, tLoaded, tCursor, tBookmark, tSync,
  step, slot, uploaded, attempt, retries, row, stored, sends, message, cleaning, crashes,
  kCurrent, kOneTime, kFallback, kGroup, kWelcomes, kSent, kOn, kStore, kBorn, kMade,
  kUpload, kPending, kTask

viewVars == <<tLast, tComing, tMine, tSocket, tPane, tQuery, tLoaded, tCursor, tBookmark, tSync>>
fileVars == <<step, slot, uploaded, attempt, retries, row, stored, sends, message, cleaning,
              crashes>>
keyVars == <<kCurrent, kOneTime, kFallback, kGroup, kWelcomes, kSent, kOn, kStore, kBorn,
             kMade, kUpload, kPending, kTask>>

\* Three messages in pages of two, and of one for the gap sync.
View == INSTANCE WebTimeline WITH
  MaxSeq <- 3, PageSize <- 2, GapPage <- 1, MaxPages <- 2,
  last <- tLast, coming <- tComing, mine <- tMine, socket <- tSocket, pane <- tPane,
  query <- tQuery, loaded <- tLoaded, cursor <- tCursor, bookmark <- tBookmark, sync <- tSync

\* One file, at most two slots for it, two sends at a time, one crash.
File == INSTANCE Attachments

\* The first person has two browsers, one with two tabs, which may turn
\* encryption off; the second has one.
Keys == INSTANCE E2eeProofs WITH
  current <- kCurrent, oneTime <- kOneTime, fallback <- kFallback, group <- kGroup,
  welcomes <- kWelcomes, sent <- kSent, on <- kOn, store <- kStore, born <- kBorn,
  made <- kMade, upload <- kUpload, pending <- kPending, task <- kTask

\* Both tabs run in one browser; the second browser is another person's.
OneBrowser == [t \in Tabs |-> x1]
TwoPeople == [x \in Browsers |-> IF x = x2 THEN "b" ELSE "a"]

\* The bounds are numbers, and no attachment id is one of the other values.
ASSUME FileAssumption ==
  /\ MaxAttempts \in Nat \ {0} /\ MaxRetries \in Nat /\ MaxCrashes \in Nat
  /\ None \notin Slots /\ "deleted" \notin Slots /\ None # "deleted"
ASSUME KeysAssumption == Keys!E2eeAssumption

\* Requests are interchangeable, and so are conversations.
Symmetry == Permutations(Requests) \cup Permutations(Convs)

MessagesInit ==
  /\ focus \in {"log", "view", "file", "keys"}
  /\ Init /\ View!Init /\ File!Init /\ Keys!Init

MessagesNext ==
  /\ UNCHANGED focus
  /\ \/ focus = "log" /\ Next /\ UNCHANGED <<viewVars, fileVars, keyVars>>
     \/ focus = "view" /\ View!Next /\ UNCHANGED <<vars, fileVars, keyVars>>
     \/ focus = "file" /\ File!Next /\ UNCHANGED <<vars, viewVars, keyVars>>
     \/ focus = "keys" /\ Keys!Next /\ UNCHANGED <<vars, viewVars, fileVars>>

MessagesSpec ==
  MessagesInit /\ [][MessagesNext]_<<focus, vars, viewVars, fileVars, keyVars>>

\* A pane that stays mounted, has loaded its history and never asks for it
\* again: what it shows is up to live events and the gap sync.
LoadedInit ==
  /\ focus = "view" /\ Init /\ File!Init /\ Keys!Init
  /\ tLast = 1 /\ tComing = {} /\ tMine = {} /\ tSocket = "ready" /\ tPane = TRUE
  /\ tQuery = View!NoAnswer /\ tLoaded = {1} /\ tCursor = 0 /\ tBookmark = 1
  /\ tSync = View!NoSync

LoadedSpec ==
  LoadedInit /\ [][MessagesNext /\ UNCHANGED <<tQuery, tPane>>]_<<focus, vars, viewVars, fileVars, keyVars>>

-----------------------------------------------------------------------------
\* What a message carries can be downloaded (db/attachments.ts:65).
StoredWhileSent == File!StoredWhileSent

\* No message key encrypts twice (client.ts:293), who holds a group for a chat
\* holds the recorded one (:182), and what others may claim of a device its
\* browser can use (:261).
ChatKeysSound == Keys!KeysUsedOnce /\ Keys!OneGroup /\ Keys!Usable

\* RealtimeProvider.tsx:110 "catches this tab up on everything it missed while
\* disconnected": what a settled tab shows has no hole before its bookmark.
NoHoles == View!NoHoles
=============================================================================
