------------------------------- MODULE MCCalls --------------------------------
(* CallSignaling with one thing at a time in abundance: each behaviour        *)
(* chooses a focus, "people" (two calls of three people), "handlers" (one     *)
(* call of two people, who may block each other, and two handlers at a time)  *)
(* or "restart" (one call of two people, and a restart of the API).          *)
EXTENDS CallSignaling, TLC

CONSTANTS ann, ben, cat, a1, a2, b1, c1, k1, k2, w1, w2

VARIABLE focus

MCOwner ==
  [c \in Conns |-> IF c \in {a1, a2} THEN ann ELSE IF c = b1 THEN ben ELSE cat]
Nobody == {}
AnnAndCat == {<<ann, cat>>, <<cat, ann>>}

OneCall == Cardinality({k \in Calls : calls[k] # NoRow \/ \E w \in Workers : work[w].call = k}) <= 1
OneHandler == Cardinality({w \in Workers : work[w] # Free}) <= 1
WithoutBen == \A w \in Workers : work[w].callee # ben

InFocus ==
  /\ focus = "people" => OneHandler
  /\ focus = "handlers" => OneCall /\ WithoutBen
  /\ focus = "restart" => OneCall /\ OneHandler /\ WithoutBen
  /\ blocks # {} => focus = "handlers" /\ Cardinality(blocks) = 1
  /\ crashes > 0 => focus = "restart"

CallsInit == focus \in {"people", "handlers", "restart"} /\ Init /\ InFocus
CallsNext == Next /\ UNCHANGED focus /\ InFocus'
CallsSpec == CallsInit /\ [][CallsNext]_<<focus, vars>>

\* Everything at once, for what two devices or two handlers break soon.
UnboundSpec == focus = "handlers" /\ Init /\ [][Next /\ UNCHANGED focus]_<<focus, vars>>

\* Ann with her device and cat with hers are interchangeable, too.
Swap == [v \in {ann, cat, a1, c1} |->
           CASE v = ann -> cat [] v = cat -> ann [] v = a1 -> c1 [] v = c1 -> a1]
Symmetry == Permutations({w1, w2}) \cup Permutations({k1, k2}) \cup {Swap}
=============================================================================
