--------------------------- MODULE IncidentStore ---------------------------
(***************************************************************************)
(* The part of the SQLite database the escalation logic lives in: the      *)
(* incidents, services and escalation_policies tables, and the statements  *)
(* internal/db runs on them.  Every statement is one atomic step, because  *)
(* all of them go through the single connection of db.Open and only        *)
(* ReplaceSteps opens a transaction, which holds that connection.          *)
(*                                                                         *)
(* Time is abstracted to what the code compares: next_escalation_at is     *)
(* NULL ("none"), still ahead of the clock ("future") or passed ("due").   *)
(***************************************************************************)
EXTENDS Naturals, FiniteSets

CONSTANTS
    Incidents,      \* the incident ids (uuids) that may ever be drawn
    Services,       \* the services that exist at the start
    Policies,       \* the escalation policies that exist at the start
    PolicyOf,       \* services.escalation_policy_id: set at creation, never updated
    Fingerprints,   \* non-empty fingerprints of alerts
    NoFingerprint,  \* the empty fingerprint: such alerts are never deduplicated
    None,           \* no incident, no service
    MaxSteps,       \* bound: steps of the longest policy
    MaxRepeat       \* bound: largest repeat of a policy

ASSUME StoreAssumption ==
    /\ IsFiniteSet(Incidents)
    /\ PolicyOf \in [Services -> Policies]
    /\ NoFingerprint \notin Fingerprints
    /\ None \notin Incidents
    /\ None \notin Services
    /\ MaxSteps \in Nat
    /\ MaxRepeat \in Nat

VARIABLES
    incidents,      \* the incidents table, by id
    services,       \* ids in the services table
    policies        \* ids in escalation_policies, with steps and repeat

storeVars == <<incidents, services, policies>>

(* "free" is an id not drawn yet, "deleted" one whose row was cascaded away. *)
Statuses == {"free", "triggered", "acknowledged", "resolved", "deleted"}
Closed   == {"acknowledged", "resolved"}
Open     == {"triggered", "acknowledged"}
Present  == {"triggered", "acknowledged", "resolved"}

Row == [status : Statuses,
        svc    : Services \cup {None},
        fp     : Fingerprints \cup {NoFingerprint},
        step   : 0..MaxSteps,
        rep    : 0..MaxRepeat,
        next   : {"none", "future", "due"}]

FreeRow == [status |-> "free", svc |-> None, fp |-> NoFingerprint,
            step |-> 0, rep |-> 0, next |-> "none"]

(* A policy is what fireStep reads of it: how many steps, how many repeats. *)
(* A deleted policy keeps its last record here, and leaves "live".          *)
Policy == [live : BOOLEAN, len : 0..MaxSteps, repeat : 0..MaxRepeat]

FreeIds == {i \in Incidents : incidents[i].status = "free"}

-----------------------------------------------------------------------------
(* Queries. *)

(* The rows OpenIncidentByFingerprint's WHERE clause selects.  It returns the *)
(* newest; created_at has a resolution of one second, so among rows of the    *)
(* same second the one it returns is anybody's guess.                         *)
OpenMatch(s, fp) ==
    {i \in Incidents : /\ fp # NoFingerprint
                       /\ incidents[i].status \in Open
                       /\ incidents[i].svc = s
                       /\ incidents[i].fp = fp}

(* Mutation: the WHERE clause trusts next_escalation_at alone. *)
DueForEscalation_AnyStatus == {i \in Incidents : incidents[i].next = "due"}

DueForEscalation ==
    {i \in Incidents : /\ incidents[i].status = "triggered"
                       /\ incidents[i].next = "due"}

-----------------------------------------------------------------------------
(* Statements on one row: what the UPDATE or INSERT makes of it. *)

(* Mutation: a new row is already due, for the engine to find. *)
CreateIncident_Armed(i, s, fp) ==
    /\ incidents[i].status = "free"
    /\ s \in services
    /\ incidents' = [incidents EXCEPT ![i] =
                        [FreeRow EXCEPT !.status = "triggered", !.svc = s, !.fp = fp,
                                        !.next = "due"]]

(* The foreign key on service_id makes the INSERT fail without the service. *)
CreateIncident(i, s, fp) ==
    /\ incidents[i].status = "free"
    /\ s \in services
    /\ incidents' = [incidents EXCEPT ![i] =
                        [FreeRow EXCEPT !.status = "triggered", !.svc = s, !.fp = fp]]

(* UPDATE ... WHERE id = ?: whatever the status, but only if the row exists. *)
SetNextEscalation(i, step, rep, next) ==
    incidents' = [incidents EXCEPT ![i] =
        IF @.status \in Present
        THEN [@ EXCEPT !.step = step, !.rep = rep, !.next = next]
        ELSE @]

AcknowledgeIncident(i) ==
    incidents' = [incidents EXCEPT ![i] =
        IF @.status = "triggered"
        THEN [@ EXCEPT !.status = "acknowledged", !.next = "none"]
        ELSE @]

ResolveIncident(i) ==
    incidents' = [incidents EXCEPT ![i] =
        IF @.status \in Open
        THEN [@ EXCEPT !.status = "resolved", !.next = "none"]
        ELSE @]

(* The foreign keys cascade to the service's incidents and their events. *)
DeleteService(s) ==
    /\ s \in services
    /\ services' = services \ {s}
    /\ incidents' = [i \in Incidents |->
                        IF incidents[i].svc = s
                        THEN [FreeRow EXCEPT !.status = "deleted"]
                        ELSE incidents[i]]

(* ON DELETE RESTRICT: a policy goes only when no service refers to it. *)
DeletePolicy(q) ==
    /\ policies[q].live
    /\ \A s \in services : PolicyOf[s] # q
    /\ policies' = [policies EXCEPT ![q] = [live |-> FALSE, len |-> 0, repeat |-> @.repeat]]

ReplaceSteps(q, n) ==
    /\ policies[q].live
    /\ policies' = [policies EXCEPT ![q].len = n]

(* The UPDATE of policyUpdate, the handler's first statement. *)
SetRepeat(q, r) ==
    /\ policies[q].live
    /\ policies' = [policies EXCEPT ![q].repeat = r]

-----------------------------------------------------------------------------
StoreTypeOK ==
    /\ incidents \in [Incidents -> Row]
    /\ services \subseteq Services
    /\ policies \in [Policies -> Policy]

StoreInit ==
    /\ incidents = [i \in Incidents |-> FreeRow]
    /\ services = Services
    /\ policies \in [Policies -> {q \in Policy : q.live}]
=============================================================================
