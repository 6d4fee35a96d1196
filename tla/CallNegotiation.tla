--------------------------- MODULE CallNegotiation --------------------------
(* The two devices of an accepted 1:1 call: how their CallEngines agree on   *)
(* session descriptions ("perfect negotiation": the callee is the polite     *)
(* peer), find media, lose it and reconnect.                                 *)
(* apps/web/src/features/calls/CallEngine.ts; CallProvider.tsx.              *)
(*                                                                           *)
(* The server relays signals in order and drops those of a device whose      *)
(* socket is down (module CallSignaling).  Of RTCPeerConnection only the     *)
(* signalling state, its negotiation-needed flag and its operations chain    *)
(* are modelled, as the W3C states them.                                     *)
EXTENDS Naturals, Sequences

CONSTANTS
  MaxChanges,  \* bound on added tracks and media losses of a device
  MaxDrops     \* bound on socket drops of a device

VARIABLES
  phase,    \* the engine's phase
  pc,       \* it has a peer connection
  sig,      \* pc.signalingState
  needed,   \* the pc wants to negotiate
  making,   \* makingOffer
  applying, \* the signal in applySignal: "none", "offer" (setRemoteDescription
            \* under way) or "answer" (setLocalDescription under way)
  chain,    \* pendingSignals and signalChain
  agreed,   \* a pc has had both descriptions
  path,     \* media flows between the two
  socket,   \* the device's socket is open
  wire,     \* signals relayed to the device
  changes, drops,
  lost      \* a description was not relayed

vars == <<phase, pc, sig, needed, making, applying, chain, agreed, path, socket, wire,
          changes, drops, lost>>

Devices == {"caller", "callee"}
Polite(d) == d = "callee"
Other(d) == IF d = "caller" THEN "callee" ELSE "caller"
All(x) == [d \in Devices |-> x]
Signals == {"accepted", "offer", "answer", "resume", "ended"}

TypeOK ==
  /\ phase \in [Devices -> {"outgoing", "incoming", "connecting", "active",
                            "reconnecting", "ended"}]
  /\ sig \in [Devices -> {"stable", "have-local-offer", "have-remote-offer"}]
  /\ {pc, needed, making, agreed, socket} \subseteq [Devices -> BOOLEAN] /\ path \in BOOLEAN
  /\ applying \in [Devices -> {"none", "offer", "answer"}]
  /\ chain \in [Devices -> Seq({"offer", "answer"})]
  /\ wire \in [Devices -> Seq(Signals)]
  /\ changes \in [Devices -> 0..MaxChanges] /\ drops \in [Devices -> 0..MaxDrops]
  /\ lost \in BOOLEAN

Init ==
  /\ phase = [d \in Devices |-> IF d = "caller" THEN "outgoing" ELSE "incoming"]
  /\ pc = All(FALSE) /\ sig = All("stable") /\ needed = All(FALSE)
  /\ making = All(FALSE) /\ applying = All("none") /\ chain = All(<<>>)
  /\ agreed = All(FALSE) /\ path = FALSE /\ socket = All(TRUE) /\ wire = All(<<>>)
  /\ changes = All(0) /\ drops = All(0) /\ lost = FALSE

peers == <<pc, sig, needed, making, applying, agreed>>
count == <<changes, drops>>

InCall(d) == phase[d] \in {"connecting", "active", "reconnecting"}
Ended(d) == phase[d] = "ended"

\* send(): a no-op unless both sockets are up.
Send(d, what) ==
  IF socket[d] /\ socket[Other(d)]
  THEN wire' = [wire EXCEPT ![Other(d)] = Append(@, what)] /\ UNCHANGED lost
  ELSE lost' = (lost \/ what \in {"offer", "answer"}) /\ UNCHANGED wire

(******************************** The call ********************************)

\* accept(): the callee answers; startPeer waits for the ICE servers.
Accept ==
  /\ phase["callee"] = "incoming" /\ socket["callee"]
  /\ phase' = [phase EXCEPT !["callee"] = "connecting"]
  /\ wire' = [wire EXCEPT !["caller"] = Append(@, "accepted")]
  /\ UNCHANGED <<peers, chain, path, socket, count, lost>>

\* startPeer: the tracks are added, which makes a negotiation necessary.
StartPeer(d) ==
  /\ phase[d] = "connecting" /\ ~pc[d]
  /\ pc' = [pc EXCEPT ![d] = TRUE] /\ needed' = [needed EXCEPT ![d] = TRUE]
  /\ UNCHANGED <<phase, sig, making, applying, agreed, chain, path, socket, wire, count, lost>>

\* finish(): the pc is closed.
Finish(d) ==
  /\ phase' = [phase EXCEPT ![d] = "ended"] /\ pc' = [pc EXCEPT ![d] = FALSE]
  /\ needed' = [needed EXCEPT ![d] = FALSE] /\ making' = [making EXCEPT ![d] = FALSE]
  /\ applying' = [applying EXCEPT ![d] = "none"] /\ chain' = [chain EXCEPT ![d] = <<>>]
  /\ path' = FALSE /\ UNCHANGED <<sig, agreed>>

HangUp(d) ==
  /\ InCall(d) /\ Finish(d) /\ Send(d, "ended") /\ UNCHANGED <<socket, count>>

\* enterReconnecting's timer: RECONNECT_TIMEOUT_MS without media.
GiveUp(d) ==
  /\ phase[d] = "reconnecting" /\ ~path
  /\ Finish(d) /\ Send(d, "ended") /\ UNCHANGED <<socket, count>>

(****************************** Negotiation *******************************)

\* The pc fires negotiationneeded: stable, and nothing on its chain.
Fire(d) ==
  /\ pc[d] /\ needed[d] /\ sig[d] = "stable" /\ ~making[d] /\ applying[d] = "none"
  /\ making' = [making EXCEPT ![d] = TRUE]
  /\ UNCHANGED <<phase, pc, sig, needed, applying, agreed, chain, path, socket, wire, count, lost>>

\* onnegotiationneeded: setLocalDescription is done and the offer goes out.
Offer(d) ==
  /\ making[d] /\ making' = [making EXCEPT ![d] = FALSE]
  /\ sig' = [sig EXCEPT ![d] = "have-local-offer"] /\ Send(d, "offer")
  /\ UNCHANGED <<phase, pc, needed, applying, agreed, chain, path, socket, count>>

Collides(d) == making[d] \/ sig[d] # "stable"

\* The bug of both sides ignoring: nobody yields.
YieldNobody(d) == Collides(d)
Ignores(d) == ~Polite(d) /\ Collides(d)

\* applySignal of the next signal; a description waits for the one under way.
Apply(d) ==
  /\ pc[d] /\ applying[d] = "none" /\ chain[d] # <<>>
  /\ chain' = [chain EXCEPT ![d] = Tail(@)]
  /\ \/ /\ Head(chain[d]) = "offer" /\ Ignores(d) /\ UNCHANGED peers
     \/ /\ Head(chain[d]) = "offer" /\ ~Ignores(d)
        /\ applying' = [applying EXCEPT ![d] = "offer"]
        /\ UNCHANGED <<pc, sig, needed, making, agreed>>
     \/ /\ Head(chain[d]) = "answer" /\ sig[d] = "have-local-offer"
        /\ sig' = [sig EXCEPT ![d] = "stable"] /\ needed' = [needed EXCEPT ![d] = FALSE]
        /\ agreed' = [agreed EXCEPT ![d] = TRUE] /\ UNCHANGED <<pc, making, applying>>
     \/ /\ Head(chain[d]) = "answer" /\ sig[d] # "have-local-offer" /\ UNCHANGED peers
  /\ UNCHANGED <<phase, path, socket, wire, count, lost>>

\* setRemoteDescription rolls back an offer of one's own.
TakeOffer(d) ==
  /\ applying[d] = "offer" /\ ~making[d]
  /\ sig' = [sig EXCEPT ![d] = "have-remote-offer"]
  /\ applying' = [applying EXCEPT ![d] = "answer"]
  /\ UNCHANGED <<phase, pc, needed, making, agreed, chain, path, socket, wire, count, lost>>

\* The answer goes out.  It may settle what this side wanted as well.
SendAnswer(d) ==
  /\ applying[d] = "answer" /\ applying' = [applying EXCEPT ![d] = "none"]
  /\ sig' = [sig EXCEPT ![d] = "stable"] /\ agreed' = [agreed EXCEPT ![d] = TRUE]
  /\ \E settled \in BOOLEAN : needed' = [needed EXCEPT ![d] = @ /\ ~settled]
  /\ Send(d, "answer")
  /\ UNCHANGED <<phase, pc, making, chain, path, socket, count>>

\* A camera turned on, a screen shared, the network changed.
Renegotiate(d) ==
  /\ phase[d] \in {"active", "reconnecting"} /\ changes[d] < MaxChanges
  /\ changes' = [changes EXCEPT ![d] = @ + 1] /\ needed' = [needed EXCEPT ![d] = TRUE]
  /\ UNCHANGED <<phase, pc, sig, making, applying, agreed, chain, path, socket, wire, drops, lost>>

(********************************* Media **********************************)

\* Both sides agree and ICE finds a path: onConnectionState("connected").
Connect ==
  /\ ~path /\ path' = TRUE
  /\ \A d \in Devices : pc[d] /\ agreed[d] /\ sig[d] = "stable" /\ ~needed[d]
  /\ phase' = [d \in Devices |-> IF InCall(d) THEN "active" ELSE phase[d]]
  /\ UNCHANGED <<peers, chain, socket, wire, count, lost>>

\* "disconnected" or "failed": one restarts ICE before or after the other.
LoseMedia(d) ==
  /\ path /\ changes[d] < MaxChanges /\ changes' = [changes EXCEPT ![d] = @ + 1]
  /\ path' = FALSE
  /\ phase' = [e \in Devices |-> IF phase[e] = "active" THEN "reconnecting" ELSE phase[e]]
  /\ needed' = [e \in Devices |-> pc[e]]
  /\ UNCHANGED <<pc, sig, making, applying, agreed, chain, socket, wire, drops, lost>>

(******************************** Signals *********************************)

Deliver(d) ==
  /\ wire[d] # <<>> /\ wire' = [wire EXCEPT ![d] = Tail(@)]
  /\ LET what == Head(wire[d]) IN
     \/ /\ what = "accepted" /\ phase[d] = "outgoing"
        /\ phase' = [phase EXCEPT ![d] = "connecting"] /\ UNCHANGED <<peers, chain, path>>
     \/ /\ what \in {"offer", "answer"} /\ ~Ended(d)
        /\ chain' = [chain EXCEPT ![d] = Append(@, what)] /\ UNCHANGED <<phase, peers, path>>
     \/ /\ what = "ended" /\ ~Ended(d) /\ Finish(d)
     \/ /\ what = "resume" /\ ~Ended(d)
        /\ needed' = [needed EXCEPT ![d] = @ \/ (pc[d] /\ ~Polite(d))]
        /\ UNCHANGED <<phase, pc, sig, making, applying, agreed, chain, path>>
     \/ Ended(d) /\ UNCHANGED <<phase, peers, chain, path>>
  /\ UNCHANGED <<socket, count, lost>>

\* A socket dies with what was on its way; the next one re-attaches the call,
\* of which the server tells both.  (A device that is not yet in the call does
\* not re-attach it, and the server ends it.)
Drop(d) ==
  /\ InCall(d) /\ socket[d] /\ drops[d] < MaxDrops /\ drops' = [drops EXCEPT ![d] = @ + 1]
  /\ socket' = [socket EXCEPT ![d] = FALSE] /\ wire' = [wire EXCEPT ![d] = <<>>]
  /\ lost' = (lost \/ \E i \in DOMAIN wire[d] : wire[d][i] \in {"offer", "answer"})
  /\ UNCHANGED <<phase, peers, chain, path, changes>>

Resume(d) ==
  /\ ~socket[d] /\ socket' = [socket EXCEPT ![d] = TRUE]
  /\ wire' = IF InCall(d)
             THEN [e \in Devices |-> IF e = d \/ socket[e] THEN Append(wire[e], "resume") ELSE wire[e]]
             ELSE wire
  /\ UNCHANGED <<phase, peers, chain, path, count, lost>>

Engine(d) ==
  \/ StartPeer(d) \/ Fire(d) \/ Offer(d) \/ Apply(d) \/ TakeOffer(d) \/ SendAnswer(d)
  \/ Deliver(d)

Next ==
  \/ Accept \/ Connect
  \/ \E d \in Devices : Engine(d) \/ HangUp(d) \/ GiveUp(d) \/ Renegotiate(d)
                        \/ LoseMedia(d) \/ Drop(d) \/ Resume(d)

Spec == Init /\ [][Next]_vars

\* Engines run, signals arrive, ICE finds a path, sockets come back.
Fairness ==
  /\ WF_vars(Connect) /\ \A d \in Devices : WF_vars(Engine(d)) /\ WF_vars(Resume(d))
FairSpec == Spec /\ Fairness

(****************************** Properties ********************************)

\* "an offer collision resolves itself without a deadlock" (CallEngine.ts:120):
\* with no signal lost an answered call gets its media, and gets it back,
\* unless somebody ends it.
Answered == phase["callee"] = "connecting"
Over == \E d \in Devices : Ended(d)
MediaFlows == []<>(Answered => path \/ lost \/ Over)
Recovers == []<>(phase["caller"] = "reconnecting" => path \/ lost \/ Over)

\* A socket that comes back re-attaches the call "so negotiation can flow
\* again" (CallEngine.ts:268), whatever was lost meanwhile.
NegotiationResumes == []<>(Answered => path \/ Over)
=============================================================================
