--------------------------- MODULE MCPolicySteps ---------------------------
(* The instance of PolicySteps that TLC checks. *)
EXTENDS PolicySteps, TLC

CONSTANT s1

(* Beside the row a form adds: a schedule, sooner. *)
MCEntries == {[wait |-> 1, target |-> s1]}

Symmetry == Permutations(Actors)
=============================================================================
