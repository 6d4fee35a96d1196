------------------------------ MODULE MCProgress ------------------------------
(* What must happen in the end: the server's calls (CallSignaling, ben with  *)
(* two devices), the media of a call (CallNegotiation), revocation           *)
(* (Sessions) and the phone's outbox; and what must never happen to a        *)
(* message that is changed (MessageChanges).  Each behaviour chooses a focus *)
(* and moves that component alone; the initial states leave every fair       *)
(* action disabled, so that fairness asks nothing of the others.             *)
EXTENDS MessageChanges

CONSTANTS
  u1, u2, ann, ben, a1, b1, b2, k1, w1, NoUser, NoCall, NoConn,
  t1, f1, r1, n1, NoToken, NoFamily, NoNode, NoState

VARIABLES
  focus,
  cCalls, cBlocks, cConn, cWork, cDue, cAnnounced, cTold, cCrashes,
  nPhase, nPc, nSig, nNeeded, nMaking, nApplying, nChain, nAgreed, nPath, nSocket, nWire,
  nChanges, nDrops, nLost,
  sLive, sFamily, sPassword, sRestricted, sDeleted, sReq, sEra, sCache, sReading, sNotices,
  oGeneration, oReady, oOutbox, oTyped, oLogged, oRefused, oGone, oRun, oAgain, oCounts,
  oPost, oAdrift, oRejected, oKills

callVars == <<cCalls, cBlocks, cConn, cWork, cDue, cAnnounced, cTold, cCrashes>>
peerVars == <<nPhase, nPc, nSig, nNeeded, nMaking, nApplying, nChain, nAgreed, nPath,
              nSocket, nWire, nChanges, nDrops, nLost>>
sessionVars == <<sLive, sFamily, sPassword, sRestricted, sDeleted, sReq, sEra, sCache,
                 sReading, sNotices>>
outboxVars == <<oGeneration, oReady, oOutbox, oTyped, oLogged, oRefused, oGone, oRun,
                oAgain, oCounts, oPost, oAdrift, oRejected, oKills>>

\* One call, one handler at a time.
Server == INSTANCE CallSignaling WITH
  Users <- {ann, ben}, Calls <- {k1}, Conns <- {a1, b1, b2},
  Owner <- [c \in {a1, b1, b2} |-> IF c = a1 THEN ann ELSE ben],
  Blockable <- {}, Workers <- {w1}, MaxCrashes <- 0,
  calls <- cCalls, blocks <- cBlocks, conn <- cConn, work <- cWork, due <- cDue,
  announced <- cAnnounced, told <- cTold, crashes <- cCrashes

\* One change of the media, one lost socket.
Peers == INSTANCE CallNegotiation WITH
  MaxChanges <- 1, MaxDrops <- 1, phase <- nPhase, pc <- nPc, sig <- nSig,
  needed <- nNeeded, making <- nMaking, applying <- nApplying, chain <- nChain,
  agreed <- nAgreed, path <- nPath, socket <- nSocket, wire <- nWire,
  changes <- nChanges, drops <- nDrops, lost <- nLost

\* One node's cache of the token state of one person.
Session == INSTANCE Sessions WITH
  Tokens <- {t1}, Families <- {f1}, Requests <- {r1}, Nodes <- {n1}, MaxChanges <- 1,
  live <- sLive, family <- sFamily, password <- sPassword, restricted <- sRestricted,
  deleted <- sDeleted, req <- sReq, era <- sEra, cache <- sCache, reading <- sReading,
  notices <- sNotices

\* One message.
Outbox == INSTANCE MobileOutbox WITH
  MaxMessages <- 1, MaxGeneration <- 3, MaxUnauthorized <- 2, MaxKills <- 1,
  generation <- oGeneration, ready <- oReady, outbox <- oOutbox, typed <- oTyped,
  logged <- oLogged, refused <- oRefused, gone <- oGone, run <- oRun, again <- oAgain,
  counts <- oCounts, post <- oPost, adrift <- oAdrift, rejected <- oRejected, kills <- oKills

\* Ann calls Ben, never the other way.
AnnCalls == cWork[w1].callee # ann

ProgressInit ==
  /\ focus \in {"changes", "calls", "peers", "session", "outbox"}
  /\ Init /\ (focus # "changes" => row.body = "a" /\ files)
  /\ Server!Init /\ Peers!Init /\ Session!Init /\ Outbox!Init

ProgressNext ==
  /\ UNCHANGED focus
  /\ \/ focus = "changes" /\ Next
        /\ UNCHANGED <<callVars, peerVars, sessionVars, outboxVars>>
     \/ focus = "calls" /\ Server!Next /\ AnnCalls'
        /\ UNCHANGED <<vars, peerVars, sessionVars, outboxVars>>
     \/ focus = "peers" /\ Peers!Next
        /\ UNCHANGED <<vars, callVars, sessionVars, outboxVars>>
     \/ focus = "session" /\ Session!Next
        /\ UNCHANGED <<vars, callVars, peerVars, outboxVars>>
     \/ focus = "outbox" /\ Outbox!Next
        /\ UNCHANGED <<vars, callVars, peerVars, sessionVars>>

ProgressSpec ==
  /\ ProgressInit
  /\ [][ProgressNext]_<<focus, vars, callVars, peerVars, sessionVars, outboxVars>>
  /\ Server!Fairness /\ Peers!Fairness /\ Session!Fairness /\ Outbox!Fairness

-----------------------------------------------------------------------------
\* A call nobody answers ends (db/calls.ts:133), one whose side is cut off ends
\* or comes back (:148).
CallsResolve == Server!RingingResolves /\ Server!CutOffResolves

\* An answered call gets its media, also when both sides offer at once
\* (CallEngine.ts:120), and gets it back after a loss (:774).
MediaFlows == Peers!MediaFlows /\ Peers!Recovers

\* What was revoked is refused on every node for good (token-state.service.ts:75).
RefusedForGood == Session!RefusedForGood

\* What is queued on the phone is sent in the end (outbox/flush.ts:93).
Drains == Outbox!Drains
=============================================================================
