---------------------------- MODULE MCEscalation ----------------------------
(* The instances of Escalation that TLC checks. *)
EXTENDS Escalation, TLC

(* Every service uses the same policy, so that an edit meets them all. *)
MCPolicyOf == [s \in Services |-> CHOOSE q \in Policies : TRUE]

(* Ids and handlers are interchangeable. *)
Symmetry == Permutations(Incidents) \cup Permutations(Workers)
=============================================================================
