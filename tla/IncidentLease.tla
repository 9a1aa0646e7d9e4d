--------------------------- MODULE IncidentLease ---------------------------
(***************************************************************************)
(* What the escalation promises about one incident's pages, without saying *)
(* how: whoever fires a step holds the incident exclusively, it may pick   *)
(* up an incident only while that is triggered, it pages at most once      *)
(* before letting go, and on letting go the incident's position in its     *)
(* policy has only moved forward.  There is no lease in the code: that the *)
(* handler and the engine behave as if there were one is what Escalation   *)
(* is shown to implement.                                                  *)
(***************************************************************************)
EXTENDS Naturals

CONSTANTS Incidents, MaxSteps, MaxRepeat

VARIABLES
    status,     \* of each incident
    pos,        \* <<repeat_count, current_step>> of each incident
    lease       \* "none", "held", or "paged" when the page has gone out

leaseVars == <<status, pos, lease>>

Positions == (0..MaxRepeat) \X (0..MaxSteps)

Ahead(p, q) == p[1] < q[1] \/ (p[1] = q[1] /\ p[2] <= q[2])

Init ==
    /\ status = [i \in Incidents |-> "free"]
    /\ pos = [i \in Incidents |-> <<0, 0>>]
    /\ lease = [i \in Incidents |-> "none"]

(* Whoever opens an incident holds it from the start. *)
OpenIncident(i) ==
    /\ status[i] = "free"
    /\ lease[i] = "none"
    /\ status' = [status EXCEPT ![i] = "triggered"]
    /\ lease' = [lease EXCEPT ![i] = "held"]
    /\ UNCHANGED pos

(* A batch of triggered incidents that nobody holds is picked up. *)
Grant(batch) ==
    /\ \A i \in batch : status[i] = "triggered" /\ lease[i] = "none"
    /\ lease' = [i \in Incidents |-> IF i \in batch THEN "held" ELSE lease[i]]
    /\ UNCHANGED <<status, pos>>

(* The incident may have been closed since, but it was triggered when held. *)
Page(i) ==
    /\ lease[i] = "held"
    /\ lease' = [lease EXCEPT ![i] = "paged"]
    /\ UNCHANGED <<status, pos>>

Settle(i) ==
    /\ lease[i] # "none"
    /\ lease' = [lease EXCEPT ![i] = "none"]
    /\ \E p \in Positions :
          /\ Ahead(pos[i], p)
          /\ pos' = [pos EXCEPT ![i] = p]
    /\ UNCHANGED status

(* A restart: every lease is lost, and with it the position it was to store. *)
Lose ==
    /\ lease' = [i \in Incidents |-> "none"]
    /\ UNCHANGED <<status, pos>>

Acknowledge(i) ==
    /\ status[i] = "triggered"
    /\ status' = [status EXCEPT ![i] = "acknowledged"]
    /\ UNCHANGED <<pos, lease>>

Resolve(i) ==
    /\ status[i] \in {"triggered", "acknowledged"}
    /\ status' = [status EXCEPT ![i] = "resolved"]
    /\ UNCHANGED <<pos, lease>>

(* Incidents that go with their service; who holds one finds out later. *)
Purge(batch) ==
    /\ \A i \in batch : status[i] \in {"triggered", "acknowledged", "resolved"}
    /\ status' = [i \in Incidents |-> IF i \in batch THEN "deleted" ELSE status[i]]
    /\ pos' = [i \in Incidents |-> IF i \in batch THEN <<0, 0>> ELSE pos[i]]
    /\ UNCHANGED lease

Next ==
    \/ \E i \in Incidents :
          \/ OpenIncident(i) \/ Page(i) \/ Settle(i)
          \/ Acknowledge(i) \/ Resolve(i)
    \/ \E batch \in SUBSET Incidents : Grant(batch) \/ Purge(batch)
    \/ Lose

Spec == Init /\ [][Next]_leaseVars
=============================================================================
