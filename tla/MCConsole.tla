----------------------------- MODULE MCConsole -----------------------------
(* The instance of Console that TLC checks. *)
EXTENDS Console, TLC

Symmetry == Permutations(Users) \cup Permutations(Tokens) \cup Permutations(Browsers)
                \cup Permutations(Incidents) \cup Permutations(Workers)
=============================================================================
