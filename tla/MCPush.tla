------------------------------- MODULE MCPush -------------------------------
(* The instances of Push that TLC checks. *)
EXTENDS Push, TLC

Symmetry == Permutations(Users) \cup Permutations(Browsers) \cup Permutations(Endpoints)
                \cup Permutations(KeyPairs)
=============================================================================
