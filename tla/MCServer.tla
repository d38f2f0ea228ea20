------------------------------ MODULE MCServer ------------------------------
(* Instances of Server for TLC. *)
EXTENDS Server, TLC

CONSTANTS r1, r2, l1

NoListenerMax == [l \in Listeners |-> 0]
OneOnFirst == [l \in Listeners |-> IF l = l1 THEN 1 ELSE 0]
OneRule == [l \in Listeners |-> IF l = l1 THEN <<r1>> ELSE <<r2>>]
TwoRules == [l \in Listeners |-> <<r1, r2>>]
NoOperations == {}
AllOperations ==
  [what : {"stop rule", "start rule"}, on : {r1}] \cup [what : {"stop listener", "start listener"}, on : {l1}]
Symmetry == Permutations(Conns) \cup Permutations(Consoles) \cup Permutations(Sources)
=============================================================================
