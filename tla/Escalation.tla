----------------------------- MODULE Escalation -----------------------------
(***************************************************************************)
(* How an alert becomes pages.  Webhook handlers (Workers, one goroutine   *)
(* per HTTP request) look for an open incident of the same fingerprint,    *)
(* create one, and fire step 0 of the service's policy.  The engine, one   *)
(* goroutine, wakes on a ticker, reads the incidents whose time has come   *)
(* and fires the next step of each.  Responders acknowledge and resolve,   *)
(* operators edit policies and delete services, at any time in between:    *)
(* no lock and no transaction spans the steps of fireStep or of Ingest.    *)
(*                                                                         *)
(* An actor inside fireStep has a frame fire[p] with a program counter;    *)
(* between two program counters there is one database call or one batch of *)
(* notifications.                                                          *)
(***************************************************************************)
EXTENDS IncidentStore

CONSTANTS
    Workers,    \* webhook requests served at the same time
    Engine,     \* the engine's goroutine
    MaxFaults,  \* bound: failed statements and crashes in a behaviour
    MayEdit     \* whether operators edit policies and delete services

ASSUME ActorAssumption ==
    /\ IsFiniteSet(Workers) /\ Workers # {}
    /\ Engine \notin Workers
    /\ MaxFaults \in Nat
    /\ MayEdit \in BOOLEAN

VARIABLES
    due,        \* Tick: what is left of the snapshot DueForEscalation returned
    fire,       \* fireStep: one frame per actor
    request,    \* Ingest and ResolveByFingerprint: one request per worker
    exhausted,  \* incidents whose timeline says "escalation policy exhausted"
    faults,     \* faults so far
    fired,      \* history: the (repeat, step) pairs paged, per incident
    late,       \* history: pages sent after the incident was closed
    again       \* history: pages sent for a step of a round that had fired before

vars == <<incidents, services, policies, due, fire, request, exhausted,
          faults, fired, late, again>>

Actors    == Workers \cup {Engine}
Positions == (0..MaxRepeat) \X (0..MaxSteps)

Snapshot == [inc : Incidents, step : 0..MaxSteps, rep : 0..MaxRepeat]

Frame == [pc   : {"idle", "load", "policy", "log", "stop", "notify", "commit"},
          inc  : Incidents \cup {None},
          step : 0..MaxSteps,
          rep  : 0..MaxRepeat]

IdleFrame == [pc |-> "idle", inc |-> None, step |-> 0, rep |-> 0]

Request == [pc  : {"idle", "lookup", "create", "match", "close"},
            svc : Services \cup {None},
            fp  : Fingerprints \cup {NoFingerprint},
            inc : Incidents \cup {None}]

IdleRequest == [pc |-> "idle", svc |-> None, fp |-> NoFingerprint, inc |-> None]

Busy(p)    == fire[p].pc # "idle"
Queued(i)  == \E d \in due : d.inc = i
Claimed(i) == Queued(i) \/ \E p \in Actors : Busy(p) /\ fire[p].inc = i

policyOfFrame(p) == PolicyOf[incidents[fire[p].inc].svc]

Goto(p, pc) == fire' = [fire EXCEPT ![p].pc = pc]
Return(p)   == fire' = [fire EXCEPT ![p] = IdleFrame]

-----------------------------------------------------------------------------
(* Engine.Tick: read the due incidents once, then fire them one by one. *)

Tick ==
    /\ ~Busy(Engine)
    /\ due = {}
    /\ DueForEscalation # {}
    /\ due' = {[inc |-> i, step |-> incidents[i].step, rep |-> incidents[i].rep] :
                  i \in DueForEscalation}
    /\ UNCHANGED <<incidents, services, policies, fire, request, exhausted,
                   faults, fired, late, again>>

(* Mutation: fires the current step once more instead of the next. *)
TickNext_SameStep ==
    /\ ~Busy(Engine)
    /\ \E d \in due :
          /\ due' = due \ {d}
          /\ fire' = [fire EXCEPT ![Engine] =
                        [pc |-> "load", inc |-> d.inc, step |-> d.step, rep |-> d.rep]]
    /\ UNCHANGED <<incidents, services, policies, request, exhausted, faults,
                   fired, late, again>>

(* The loop body calls fireStep with the snapshot's position, not the row's. *)
TickNext ==
    /\ ~Busy(Engine)
    /\ \E d \in due :
          /\ due' = due \ {d}
          /\ fire' = [fire EXCEPT ![Engine] =
                        [pc |-> "load", inc |-> d.inc, step |-> d.step + 1, rep |-> d.rep]]
    /\ UNCHANGED <<incidents, services, policies, request, exhausted, faults,
                   fired, late, again>>

-----------------------------------------------------------------------------
(* Engine.fireStep, by whichever actor runs it. *)

(* Mutation: stepIdx > len(steps) for stepIdx >= len(steps). *)
LoadSteps_OffByOne(p) ==
    /\ fire[p].pc = "load"
    /\ IF incidents[fire[p].inc].svc \notin services
       THEN Return(p)
       ELSE Goto(p, IF fire[p].step <= policies[policyOfFrame(p)].len
                    THEN "notify" ELSE "policy")
    /\ UNCHANGED <<incidents, services, policies, due, request, exhausted,
                   faults, fired, late, again>>

(* Mutation: nothing to do for a policy without steps, so just return. *)
LoadSteps_EmptyReturns(p) ==
    /\ fire[p].pc = "load"
    /\ LET len == policies[policyOfFrame(p)].len
       IN  IF incidents[fire[p].inc].svc \notin services \/ len = 0
           THEN Return(p)
           ELSE Goto(p, IF fire[p].step < len THEN "notify" ELSE "policy")
    /\ UNCHANGED <<incidents, services, policies, due, request, exhausted,
                   faults, fired, late, again>>

(* ServiceByID and StepsForPolicy.  A service deleted meanwhile is an error. *)
LoadSteps(p) ==
    /\ fire[p].pc = "load"
    /\ IF incidents[fire[p].inc].svc \notin services
       THEN Return(p)
       ELSE LET len == policies[policyOfFrame(p)].len
            IN  Goto(p, IF fire[p].step < len THEN "notify"
                        ELSE IF len = 0 THEN "log" ELSE "policy")
    /\ UNCHANGED <<incidents, services, policies, due, request, exhausted,
                   faults, fired, late, again>>

(* Mutation: the repeat starts at the second step. *)
LoadPolicy_FromOne(p) ==
    /\ fire[p].pc = "policy"
    /\ IF incidents[fire[p].inc].svc \notin services
       THEN Return(p)
       ELSE IF fire[p].rep < policies[policyOfFrame(p)].repeat
            THEN fire' = [fire EXCEPT ![p] = [pc |-> "load", inc |-> @.inc, step |-> 1, rep |-> @.rep + 1]]
            ELSE Goto(p, "log")
    /\ UNCHANGED <<incidents, services, policies, due, request, exhausted,
                   faults, fired, late, again>>

(* Mutation: the repeat is not counted. *)
LoadPolicy_KeepsRepeat(p) ==
    /\ fire[p].pc = "policy"
    /\ IF incidents[fire[p].inc].svc \notin services
       THEN Return(p)
       ELSE IF fire[p].rep < policies[policyOfFrame(p)].repeat
            THEN fire' = [fire EXCEPT ![p] = [pc |-> "load", inc |-> @.inc, step |-> 0, rep |-> @.rep]]
            ELSE Goto(p, "log")
    /\ UNCHANGED <<incidents, services, policies, due, request, exhausted,
                   faults, fired, late, again>>

(* Mutation: one repeat too few. *)
LoadPolicy_OneShort(p) ==
    /\ fire[p].pc = "policy"
    /\ IF incidents[fire[p].inc].svc \notin services
       THEN Return(p)
       ELSE IF fire[p].rep + 1 < policies[policyOfFrame(p)].repeat
            THEN fire' = [fire EXCEPT ![p] = [pc |-> "load", inc |-> @.inc, step |-> 0, rep |-> @.rep + 1]]
            ELSE Goto(p, "log")
    /\ UNCHANGED <<incidents, services, policies, due, request, exhausted,
                   faults, fired, late, again>>

(* PolicyByID, once the steps have run out: repeat from the top, or stop.    *)
(* With the service gone, and its incidents with it, whatever follows        *)
(* changes no row; its policy may be gone too, which is an error.            *)
LoadPolicy(p) ==
    /\ fire[p].pc = "policy"
    /\ IF incidents[fire[p].inc].svc \notin services
       THEN Return(p)
       ELSE IF fire[p].rep < policies[policyOfFrame(p)].repeat
            THEN fire' = [fire EXCEPT ![p] = [pc |-> "load", inc |-> @.inc, step |-> 0, rep |-> @.rep + 1]]
            ELSE Goto(p, "log")
    /\ UNCHANGED <<incidents, services, policies, due, request, exhausted,
                   faults, fired, late, again>>

(* AddEvent "escalation policy exhausted": needs the incident's row. *)
LogExhausted(p) ==
    /\ fire[p].pc = "log"
    /\ exhausted' = IF incidents[fire[p].inc].status \in Present
                    THEN exhausted \cup {fire[p].inc}
                    ELSE exhausted
    /\ Goto(p, "stop")
    /\ UNCHANGED <<incidents, services, policies, due, request, faults, fired, late, again>>

(* SetNextEscalation with NULL. *)
Stop(p) ==
    /\ fire[p].pc = "stop"
    /\ SetNextEscalation(fire[p].inc, fire[p].step, fire[p].rep, "none")
    /\ Return(p)
    /\ UNCHANGED <<services, policies, due, request, exhausted, faults, fired, late, again>>

(* The loop over the step's targets.  A step "fires" whether or not each    *)
(* channel delivers: a failed send is an event on the timeline, no more.    *)
Notify(p) ==
    /\ fire[p].pc = "notify"
    /\ fired' = IF incidents[fire[p].inc].status \in Present
                THEN [fired EXCEPT ![fire[p].inc] = @ \cup {<<fire[p].rep, fire[p].step>>}]
                ELSE fired
    /\ late' = IF incidents[fire[p].inc].status \in Closed
               THEN [late EXCEPT ![fire[p].inc] = @ + 1]
               ELSE late
    /\ again' = IF <<fire[p].rep, fire[p].step>> \in fired[fire[p].inc]
                THEN again + 1 ELSE again
    /\ Goto(p, "commit")
    /\ UNCHANGED <<incidents, services, policies, due, request, exhausted, faults>>

(* SetNextEscalation with the step's wait from now. *)
Commit(p) ==
    /\ fire[p].pc = "commit"
    /\ SetNextEscalation(fire[p].inc, fire[p].step, fire[p].rep, "future")
    /\ Return(p)
    /\ UNCHANGED <<services, policies, due, request, exhausted, faults, fired, late, again>>

FireStep(p) ==
    \/ LoadSteps(p)
    \/ LoadPolicy(p)
    \/ LogExhausted(p)
    \/ Stop(p)
    \/ Notify(p)
    \/ Commit(p)

-----------------------------------------------------------------------------
(* Webhook handlers: Ingest and ResolveByFingerprint. *)

IdleWorker(w) == request[w].pc = "idle" /\ ~Busy(w)

(* Requests that may still draw an id; keeps the model within Incidents. *)
PendingCreates == {w \in Workers : request[w].pc \in {"lookup", "create"}}
RoomForOne     == Cardinality(PendingCreates) < Cardinality(FreeIds)

(* A handler finds the service by its webhook key and calls Ingest. *)
Ingest(w, s, fp) ==
    /\ IdleWorker(w)
    /\ s \in services
    /\ RoomForOne
    /\ request' = [request EXCEPT ![w] =
                      [pc |-> IF fp = NoFingerprint THEN "create" ELSE "lookup",
                       svc |-> s, fp |-> fp, inc |-> None]]
    /\ UNCHANGED <<incidents, services, policies, due, fire, exhausted, faults,
                   fired, late, again>>

(* A re-fire is logged on the open incident; otherwise go on to create one. *)
Lookup(w) ==
    /\ request[w].pc = "lookup"
    /\ request' = [request EXCEPT ![w] =
                      IF OpenMatch(@.svc, @.fp) # {} THEN IdleRequest
                      ELSE [@ EXCEPT !.pc = "create"]]
    /\ UNCHANGED <<incidents, services, policies, due, fire, exhausted, faults,
                   fired, late, again>>

(* CreateIncident, then TriggerIncident: fireStep(inc, 0, 0) in this goroutine. *)
Create(w) ==
    /\ request[w].pc = "create"
    /\ \E i \in Incidents :
          /\ CreateIncident(i, request[w].svc, request[w].fp)
          /\ fire' = [fire EXCEPT ![w] = [pc |-> "load", inc |-> i, step |-> 0, rep |-> 0]]
    /\ request' = [request EXCEPT ![w] = IdleRequest]
    /\ UNCHANGED <<services, policies, due, exhausted, faults, fired, late, again>>

(* The INSERT fails on its foreign key: the service is gone. *)
CreateFails(w) ==
    /\ request[w].pc = "create"
    /\ request[w].svc \notin services
    /\ request' = [request EXCEPT ![w] = IdleRequest]
    /\ UNCHANGED <<incidents, services, policies, due, fire, exhausted, faults,
                   fired, late, again>>

(* Alertmanager reports the alert resolved. *)
SourceResolved(w, s, fp) ==
    /\ IdleWorker(w)
    /\ s \in services
    /\ fp # NoFingerprint
    /\ request' = [request EXCEPT ![w] =
                      [pc |-> "match", svc |-> s, fp |-> fp, inc |-> None]]
    /\ UNCHANGED <<incidents, services, policies, due, fire, exhausted, faults,
                   fired, late, again>>

MatchResolved(w) ==
    /\ request[w].pc = "match"
    /\ LET found == OpenMatch(request[w].svc, request[w].fp)
       IN  \/ /\ found = {}
              /\ request' = [request EXCEPT ![w] = IdleRequest]
           \/ \E i \in found :
                 request' = [request EXCEPT ![w].pc = "close", ![w].inc = i]
    /\ UNCHANGED <<incidents, services, policies, due, fire, exhausted, faults,
                   fired, late, again>>

ResolveMatched(w) ==
    /\ request[w].pc = "close"
    /\ ResolveIncident(request[w].inc)
    /\ request' = [request EXCEPT ![w] = IdleRequest]
    /\ UNCHANGED <<services, policies, due, fire, exhausted, faults, fired, late, again>>

RequestStep(w) ==
    \/ Lookup(w)
    \/ Create(w)
    \/ CreateFails(w)
    \/ MatchResolved(w)
    \/ ResolveMatched(w)

-----------------------------------------------------------------------------
(* Responders (web page, push button, Slack) and operators. *)

Acknowledge(i) ==
    /\ incidents[i].status \in Present
    /\ AcknowledgeIncident(i)
    /\ UNCHANGED <<services, policies, due, fire, request, exhausted, faults, fired, late, again>>

Resolve(i) ==
    /\ incidents[i].status \in Present
    /\ ResolveIncident(i)
    /\ UNCHANGED <<services, policies, due, fire, request, exhausted, faults, fired, late, again>>

(* The timeline goes with the incident, and the history with it. *)
RemoveService(s) ==
    /\ MayEdit
    /\ DeleteService(s)
    /\ exhausted' = {i \in exhausted : incidents[i].svc # s}
    /\ fired' = [i \in Incidents |-> IF incidents[i].svc = s THEN {} ELSE fired[i]]
    /\ late' = [i \in Incidents |-> IF incidents[i].svc = s THEN 0 ELSE late[i]]
    /\ UNCHANGED <<policies, due, fire, request, faults, again>>

(* policyUpdate runs SetRepeat and then ReplaceSteps, each on its own. *)
EditPolicy(q) ==
    /\ MayEdit
    /\ \/ \E r \in 0..MaxRepeat : SetRepeat(q, r)
       \/ \E n \in 0..MaxSteps : ReplaceSteps(q, n)
       \/ DeletePolicy(q)
    /\ UNCHANGED <<incidents, services, due, fire, request, exhausted, faults,
                   fired, late, again>>

(* The clock passes an incident's next_escalation_at. *)
Elapse(i) ==
    /\ incidents[i].next = "future"
    /\ incidents' = [incidents EXCEPT ![i].next = "due"]
    /\ UNCHANGED <<services, policies, due, fire, request, exhausted, faults, fired, late, again>>

-----------------------------------------------------------------------------
(* Faults: a statement that fails, and the process ending in the middle.    *)

(* fireStep returns on the error, except that a failed AddEvent is only     *)
(* logged and the stop still follows.                                       *)
FireError(p) ==
    /\ faults < MaxFaults
    /\ faults' = faults + 1
    /\ \/ /\ fire[p].pc \in {"load", "policy", "stop", "commit"}
          /\ Return(p)
       \/ /\ fire[p].pc = "log"
          /\ Goto(p, "stop")
    /\ UNCHANGED <<incidents, services, policies, due, request, exhausted, fired, late, again>>

(* Ingest and ResolveByFingerprint return the error; nothing is retried. *)
RequestError(w) ==
    /\ faults < MaxFaults
    /\ faults' = faults + 1
    /\ request[w].pc # "idle"
    /\ request' = [request EXCEPT ![w] = IdleRequest]
    /\ UNCHANGED <<incidents, services, policies, due, fire, exhausted, fired, late, again>>

(* A crash, or SIGTERM: run returns as soon as ListenAndServe does, so       *)
(* neither the engine nor the handlers get to finish.  Tables survive.       *)
Restart ==
    /\ faults < MaxFaults
    /\ faults' = faults + 1
    /\ due' = {}
    /\ fire' = [p \in Actors |-> IdleFrame]
    /\ request' = [w \in Workers |-> IdleRequest]
    /\ UNCHANGED <<incidents, services, policies, exhausted, fired, late, again>>

-----------------------------------------------------------------------------
Init ==
    /\ StoreInit
    /\ due = {}
    /\ fire = [p \in Actors |-> IdleFrame]
    /\ request = [w \in Workers |-> IdleRequest]
    /\ exhausted = {}
    /\ faults = 0
    /\ fired = [i \in Incidents |-> {}]
    /\ late = [i \in Incidents |-> 0]
    /\ again = 0

Next ==
    \/ Tick
    \/ TickNext
    \/ \E p \in Actors : FireStep(p) \/ FireError(p)
    \/ \E w \in Workers : RequestStep(w) \/ RequestError(w)
    \/ \E w \in Workers, s \in Services :
          \/ \E fp \in Fingerprints \cup {NoFingerprint} : Ingest(w, s, fp)
          \/ \E fp \in Fingerprints : SourceResolved(w, s, fp)
    \/ \E i \in Incidents : Acknowledge(i) \/ Resolve(i) \/ Elapse(i)
    \/ \E s \in Services : RemoveService(s)
    \/ \E q \in Policies : EditPolicy(q)
    \/ Restart

Spec == Init /\ [][Next]_vars

(* The ticker keeps ticking and goroutines are scheduled; statements and    *)
(* sends return.  Nothing is assumed of responders, operators or sources.   *)
Fairness ==
    /\ WF_vars(Tick)
    /\ WF_vars(TickNext)
    /\ \A p \in Actors : WF_vars(FireStep(p))
    /\ \A w \in Workers : WF_vars(RequestStep(w))
    /\ \A i \in Incidents : WF_vars(Elapse(i))

FairSpec == Spec /\ Fairness

-----------------------------------------------------------------------------
(* Types: every variable holds what its declaration says. *)
TypeOK ==
    /\ StoreTypeOK
    /\ due \subseteq Snapshot
    /\ fire \in [Actors -> Frame]
    /\ request \in [Workers -> Request]
    /\ exhausted \subseteq Incidents
    /\ faults \in 0..MaxFaults
    /\ fired \in [Incidents -> SUBSET Positions]
    /\ late \in [Incidents -> Nat]
    /\ again \in Nat

(* At most one goroutine is inside fireStep, or has it queued, for any one   *)
(* incident: the handler that created it and the engine never overlap, and   *)
(* one tick never picks up what an earlier one still holds.                  *)
FireExclusive ==
    /\ \A p, q \in Actors :
          Busy(p) /\ Busy(q) /\ fire[p].inc = fire[q].inc => p = q
    /\ \A p \in Actors : Busy(p) => ~Queued(fire[p].inc)
    /\ \A d, e \in due : d.inc = e.inc => d = e

(* Tick acts on positions it read before other incidents were fired, edited  *)
(* and waited for; until it gets to one, its row's position has not moved.   *)
SnapshotFresh ==
    \A d \in due : incidents[d.inc].status \in Present =>
        /\ incidents[d.inc].step = d.step
        /\ incidents[d.inc].rep = d.rep

(* No step is skipped, whatever is edited, fails or restarts: a step fires   *)
(* only after the one before it, and a repeat only after the round before.   *)
EscalationOrder ==
    \A i \in Incidents : \A pos \in fired[i] :
        /\ pos[2] > 0 => <<pos[1], pos[2] - 1>> \in fired[i]
        /\ pos[1] > 0 => \E k \in 0..MaxSteps : <<pos[1] - 1, k>> \in fired[i]

(* Paging a step of a round that was paged before takes a fault, and no      *)
(* fault leads to more than one such page: what it undoes is the one commit  *)
(* the engine was about to make.  A handler cut short before its commit      *)
(* repeats nothing, and no edit, answer or overlap repeats anything.         *)
RepeatsTakeFaults == again <= faults

(* An acknowledgement or resolution racing the engine lets at most the one   *)
(* step through that was already picked up, never a second.                  *)
LatePageBound == \A i \in Incidents : late[i] <= 1

(* An incident is left to silence: triggered, with no next_escalation_at,    *)
(* nobody working on it, and nothing on its timeline that says why.          *)
Silent(i) ==
    /\ incidents[i].status = "triggered"
    /\ incidents[i].next = "none"
    /\ ~Claimed(i)
    /\ i \notin exhausted

(* Silence needs a fault, and a fault has only so much of it: no more        *)
(* incidents than there are handlers, which a crash reaches at worst, when    *)
(* each was firing a new incident for the first time.  A failed statement     *)
(* takes one at most.  The bound is the same whoever was hit; the engine adds *)
(* to it only when it cannot log that a policy is exhausted, because the row  *)
(* of anything else it has in hand is due until its step is done.             *)
SilenceIsBounded ==
    Cardinality({i \in Incidents : Silent(i)}) <= faults * Cardinality(Workers)

(* The escalation stops only at the end: with the policies left alone, an    *)
(* incident marked exhausted has had every step of every round.              *)
PolicyRunsInFull ==
    ~MayEdit => \A i \in exhausted :
        LET q == policies[PolicyOf[incidents[i].svc]]
        IN  fired[i] = IF q.len = 0 THEN {} ELSE (0..q.repeat) \X (0..(q.len - 1))

-----------------------------------------------------------------------------
(* Action properties. *)

rank == [free |-> 0, triggered |-> 1, acknowledged |-> 2, resolved |-> 3, deleted |-> 4]

Before(r, k, r2, k2) == r < r2 \/ (r = r2 /\ k <= k2)

(* An incident only moves forward.  Whatever responders, sources and the     *)
(* engine interleave, an acknowledged one is not triggered again and a       *)
(* resolved one not reopened; the stored position, (repeat_count,            *)
(* current_step), never goes back, not even when a policy shrinks under the  *)
(* engine or the process restarts; and while nobody answers, a wait that has *)
(* run out makes room only for a later position, so that no step waits twice *)
(* and an incident waits no more often than its policy has steps.            *)
OnlyForward ==
    [][\A i \in Incidents :
          /\ rank[incidents[i].status] <= rank[incidents'[i].status]
          /\ incidents'[i].status \in Present =>
                Before(incidents[i].rep, incidents[i].step,
                       incidents'[i].rep, incidents'[i].step)
          /\ /\ incidents[i].status = "triggered" /\ incidents'[i].status = "triggered"
             /\ incidents[i].next = "due" /\ incidents'[i].next # "due"
             => ~Before(incidents'[i].rep, incidents'[i].step,
                        incidents[i].rep, incidents[i].step)]_vars

(* What fireStep has left to do at the most: three statements and the loop    *)
(* over targets in the round it is in, and two statements for each round that *)
(* may follow.                                                                *)
Remaining(p) ==
    2 * (MaxRepeat - fire[p].rep)
        + [idle |-> 0, stop |-> 1, commit |-> 1, log |-> 2, notify |-> 2,
           policy |-> 3, load |-> 4][fire[p].pc]

(* fireStep calls itself to repeat a policy, and comes to its end all the     *)
(* same: it calls itself for the next round only, and the rounds are counted, *)
(* also where steps and repeats are edited between its statements.            *)
FireStepEnds ==
    [][\A p \in Actors : FireStep(p) =>
          fire'[p] = IdleFrame \/ Remaining(p)' < Remaining(p)]_vars

-----------------------------------------------------------------------------
(* The lease that IncidentLease speaks of, read off the frames and the queue. *)
leaseOf(i) ==
    IF ~Claimed(i) THEN "none"
    ELSE IF \E p \in Actors : fire[p].pc = "commit" /\ fire[p].inc = i
         THEN "paged" ELSE "held"

Lease == INSTANCE IncidentLease WITH
            status <- [i \in Incidents |-> incidents[i].status],
            pos    <- [i \in Incidents |-> <<incidents[i].rep, incidents[i].step>>],
            lease  <- [i \in Incidents |-> leaseOf(i)]

(* Handlers and engine, with no lock between them, page as if each incident  *)
(* were leased: picked up only while triggered and by one at a time, paged   *)
(* at most once per pick-up, its position only moving forward.               *)
ImplementsLease == Lease!Spec

-----------------------------------------------------------------------------
(* Liveness. *)

(* An incident nobody responds to is escalated to the end of its policy:     *)
(* it does not stay triggered without the timeline saying it is exhausted.   *)
EveryPageSettles ==
    \A i \in Incidents :
        incidents[i].status = "triggered" ~>
            (incidents[i].status # "triggered" \/ i \in exhausted)
=============================================================================
