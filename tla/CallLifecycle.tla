---------------------------- MODULE CallLifecycle ----------------------------
(***************************************************************************)
(* What the calls table promises, "the single source of truth": a call     *)
(* rings, is answered at most once, ends once and for good, and its end is *)
(* announced after it happened and never twice.                            *)
(***************************************************************************)
CONSTANT Calls

VARIABLES
  phase,  \* how far each call has come
  said    \* the calls whose end has been announced

vars == <<phase, said>>

Init ==
  /\ phase = [k \in Calls |-> "none"]
  /\ said = {}

Ring(k) ==
  /\ phase[k] = "none"
  /\ phase' = [phase EXCEPT ![k] = "ringing"]
  /\ UNCHANGED said

AnswerCall(k) ==
  /\ phase[k] = "ringing"
  /\ phase' = [phase EXCEPT ![k] = "active"]
  /\ UNCHANGED said

(* Hung up, declined, timed out, or cut off with the connection they were  *)
(* bound to: one step may end every call of a connection.                  *)
EndCalls(K) ==
  /\ \A k \in K : phase[k] \in {"ringing", "active"}
  /\ phase' = [k \in Calls |-> IF k \in K THEN "ended" ELSE phase[k]]
  /\ UNCHANGED said

Say(k) ==
  /\ phase[k] = "ended"
  /\ k \notin said
  /\ said' = said \cup {k}
  /\ UNCHANGED phase

Next ==
  \/ \E k \in Calls : Ring(k) \/ AnswerCall(k) \/ Say(k)
  \/ \E K \in SUBSET Calls : EndCalls(K)

Spec == Init /\ [][Next]_vars
=============================================================================
