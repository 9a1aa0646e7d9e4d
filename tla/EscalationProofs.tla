-------------------------- MODULE EscalationProofs --------------------------
(***************************************************************************)
(* Proofs about Escalation, for any number of incidents, services,         *)
(* policies and handlers, any length of policies and any number of faults. *)
(***************************************************************************)
EXTENDS Escalation, TLAPS

(* What TypeOK lacks to be inductive: an actor at work knows its incident,   *)
(* and a position that is to be followed by a next step leaves room for it.  *)
WellFormed ==
    /\ \A p \in Actors : Busy(p) => fire[p].inc \in Incidents
    /\ \A p \in Actors : fire[p].pc \in {"notify", "commit"} => fire[p].step < MaxSteps
    /\ \A w \in Workers : request[w].pc # "idle" => request[w].svc \in Services
    /\ \A w \in Workers : request[w].pc = "close" => request[w].inc \in Incidents
    /\ \A i \in Incidents : incidents[i].next # "none" => incidents[i].step < MaxSteps
    /\ \A d \in due : d.step < MaxSteps

TypeInv == TypeOK /\ WellFormed

USE DEF Actors, Busy

-----------------------------------------------------------------------------
(* The statements of the store keep the table well formed. *)

LEMMA FreeRowTyped == FreeRow \in Row
  BY StoreAssumption DEF FreeRow, Row, Statuses

(* An UPDATE that leaves a well-formed row leaves a well-formed table. *)
RowOK(row) == row \in Row /\ (row.next # "none" => row.step < MaxSteps)

LEMMA UpdateTyped ==
  ASSUME TypeInv, NEW i \in Incidents, NEW row, RowOK(row),
         incidents' = [incidents EXCEPT ![i] = row]
  PROVE  /\ incidents' \in [Incidents -> Row]
         /\ \A j \in Incidents : incidents'[j].next # "none" => incidents'[j].step < MaxSteps
  BY DEF TypeInv, TypeOK, StoreTypeOK, WellFormed, RowOK

(* SetNextEscalation, whatever the status of the row it is aimed at. *)
LEMMA SetNextTyped ==
  ASSUME TypeInv,
         NEW i \in Incidents, NEW k \in 0..MaxSteps, NEW r \in 0..MaxRepeat,
         NEW n \in {"none", "future"},
         n # "none" => k < MaxSteps,
         SetNextEscalation(i, k, r, n)
  PROVE  /\ incidents' \in [Incidents -> Row]
         /\ \A j \in Incidents : incidents'[j].next # "none" => incidents'[j].step < MaxSteps
<1> DEFINE old == incidents[i]
           new == [old EXCEPT !.step = k, !.rep = r, !.next = n]
<1>1. old \in Row /\ RowOK(old)
  BY DEF TypeInv, TypeOK, StoreTypeOK, WellFormed, RowOK
<1>2. RowOK(new)
  BY <1>1 DEF Row, RowOK
<1>3. \/ incidents' = [incidents EXCEPT ![i] = old]
      \/ incidents' = [incidents EXCEPT ![i] = new]
  BY DEF SetNextEscalation
<1> HIDE DEF old, new
<1> QED
  BY <1>1, <1>2, <1>3, UpdateTyped

(* A new row is not armed. *)
LEMMA CreateTyped ==
  ASSUME TypeInv,
         NEW i \in Incidents, NEW s \in Services,
         NEW fp \in Fingerprints \cup {NoFingerprint},
         CreateIncident(i, s, fp)
  PROVE  /\ incidents' \in [Incidents -> Row]
         /\ \A j \in Incidents : incidents'[j].next # "none" => incidents'[j].step < MaxSteps
<1> DEFINE new == [FreeRow EXCEPT !.status = "triggered", !.svc = s, !.fp = fp]
<1>1. RowOK(new)
  <2>1. FreeRow \in Row /\ FreeRow.next = "none"
    BY FreeRowTyped DEF FreeRow
  <2> QED
    BY <2>1 DEF Row, RowOK, Statuses
<1>2. incidents' = [incidents EXCEPT ![i] = new]
  BY DEF CreateIncident
<1> HIDE DEF new
<1> QED
  BY <1>1, <1>2, UpdateTyped

(* Closing an incident only disarms it. *)
LEMMA CloseTyped ==
  ASSUME TypeInv, NEW i \in Incidents,
         AcknowledgeIncident(i) \/ ResolveIncident(i)
  PROVE  /\ incidents' \in [Incidents -> Row]
         /\ \A j \in Incidents : incidents'[j].next # "none" => incidents'[j].step < MaxSteps
<1> DEFINE old == incidents[i]
           new(st) == [old EXCEPT !.status = st, !.next = "none"]
<1>1. old \in Row /\ RowOK(old)
  BY DEF TypeInv, TypeOK, StoreTypeOK, WellFormed, RowOK
<1>2. RowOK(new("acknowledged")) /\ RowOK(new("resolved"))
  BY <1>1 DEF Row, RowOK, Statuses
<1>3. \/ incidents' = [incidents EXCEPT ![i] = old]
      \/ incidents' = [incidents EXCEPT ![i] = new("acknowledged")]
      \/ incidents' = [incidents EXCEPT ![i] = new("resolved")]
  BY DEF AcknowledgeIncident, ResolveIncident
<1> HIDE DEF old, new
<1> QED
  BY <1>1, <1>2, <1>3, UpdateTyped

-----------------------------------------------------------------------------
LEMMA TypeInit == Init => TypeInv
<1> SUFFICES ASSUME Init PROVE TypeInv
  OBVIOUS
<1>1. StoreTypeOK
  BY FreeRowTyped DEF Init, StoreInit, StoreTypeOK
<1>2. TypeOK
  BY <1>1, StoreAssumption, ActorAssumption
  DEF Init, TypeOK, Snapshot, Frame, IdleFrame, Request, IdleRequest, Positions
<1>3. WellFormed
  BY StoreAssumption DEF Init, StoreInit, WellFormed, IdleFrame, IdleRequest, FreeRow
<1> QED
  BY <1>2, <1>3 DEF TypeInv

LEMMA TypeTick ==
  ASSUME TypeInv, Tick \/ TickNext PROVE TypeInv'
<1>1. CASE Tick
  BY <1>1 DEF Tick, TypeInv, TypeOK, StoreTypeOK, WellFormed, DueForEscalation, Snapshot, Row
<1>2. CASE TickNext
  BY <1>2, StoreAssumption, ActorAssumption
  DEF TickNext, TypeInv, TypeOK, StoreTypeOK, WellFormed, Snapshot, Frame
<1> QED
  BY <1>1, <1>2

LEMMA TypeFireStep ==
  ASSUME TypeInv, NEW p \in Actors, FireStep(p) PROVE TypeInv'
<1> USE DEF TypeInv
<1>1. CASE LoadSteps(p)
  <2>1. \/ fire' = [fire EXCEPT ![p] = IdleFrame]
        \/ fire' = [fire EXCEPT ![p].pc = "log"]
        \/ fire' = [fire EXCEPT ![p].pc = "policy"]
        \/ fire' = [fire EXCEPT ![p].pc = "notify"] /\ fire[p].step < MaxSteps
    BY <1>1, StoreAssumption
    DEF LoadSteps, Goto, Return, policyOfFrame, TypeOK, StoreTypeOK, Policy, WellFormed, Row, Frame
  <2> QED
    BY <1>1, <2>1, StoreAssumption
    DEF LoadSteps, TypeOK, StoreTypeOK, WellFormed, Frame, IdleFrame
<1>2. CASE LoadPolicy(p)
  <2>1. \/ fire' = [fire EXCEPT ![p] = IdleFrame]
        \/ fire' = [fire EXCEPT ![p].pc = "log"]
        \/ /\ fire' = [fire EXCEPT ![p] = [pc |-> "load", inc |-> fire[p].inc,
                                           step |-> 0, rep |-> fire[p].rep + 1]]
           /\ fire[p].rep < MaxRepeat
    BY <1>2, StoreAssumption
    DEF LoadPolicy, Goto, Return, policyOfFrame, TypeOK, StoreTypeOK, Policy, WellFormed, Row, Frame
  <2> QED
    BY <1>2, <2>1, StoreAssumption
    DEF LoadPolicy, TypeOK, StoreTypeOK, WellFormed, Frame, IdleFrame
<1>3. CASE LogExhausted(p)
  BY <1>3 DEF LogExhausted, Goto, TypeOK, StoreTypeOK, WellFormed, Frame
<1>4. CASE Stop(p)
  <2>1. /\ incidents' \in [Incidents -> Row]
        /\ \A j \in Incidents : incidents'[j].next # "none" => incidents'[j].step < MaxSteps
    BY <1>4, SetNextTyped DEF Stop, TypeOK, WellFormed, Frame
  <2> QED
    BY <1>4, <2>1, StoreAssumption
    DEF Stop, Return, TypeOK, StoreTypeOK, WellFormed, Frame, IdleFrame
<1>5. CASE Notify(p)
  BY <1>5 DEF Notify, Goto, TypeOK, StoreTypeOK, WellFormed, Frame, Positions
<1>6. CASE Commit(p)
  <2>1. /\ incidents' \in [Incidents -> Row]
        /\ \A j \in Incidents : incidents'[j].next # "none" => incidents'[j].step < MaxSteps
    BY <1>6, SetNextTyped DEF Commit, TypeOK, WellFormed, Frame
  <2> QED
    BY <1>6, <2>1, StoreAssumption
    DEF Commit, Return, TypeOK, StoreTypeOK, WellFormed, Frame, IdleFrame
<1> QED
  BY <1>1, <1>2, <1>3, <1>4, <1>5, <1>6 DEF FireStep

LEMMA TypeRequest ==
  ASSUME TypeInv, NEW w \in Workers,
         \/ RequestStep(w)
         \/ \E s \in Services, fp \in Fingerprints \cup {NoFingerprint} : Ingest(w, s, fp)
         \/ \E s \in Services, fp \in Fingerprints : SourceResolved(w, s, fp)
  PROVE  TypeInv'
<1> USE DEF TypeInv
<1>1. CASE Lookup(w) \/ CreateFails(w)
  <2>1. \/ request' = [request EXCEPT ![w] = IdleRequest]
        \/ request' = [request EXCEPT ![w].pc = "create"]
    BY <1>1 DEF Lookup, CreateFails
  <2>2. UNCHANGED <<incidents, services, policies, due, fire, exhausted, faults, fired, late, again>>
    BY <1>1 DEF Lookup, CreateFails
  <2>3. request[w].pc # "idle"
    BY <1>1 DEF Lookup, CreateFails
  <2>4. request' \in [Workers -> Request]
    BY <2>1 DEF TypeOK, Request, IdleRequest
  <2>5. WellFormed'
    BY <2>1, <2>2, <2>3 DEF TypeOK, WellFormed, Request, IdleRequest
  <2> QED
    BY <2>2, <2>4, <2>5 DEF TypeOK, StoreTypeOK
<1>2. CASE Create(w)
  <2>1. PICK i \in Incidents :
          /\ CreateIncident(i, request[w].svc, request[w].fp)
          /\ fire' = [fire EXCEPT ![w] = [pc |-> "load", inc |-> i, step |-> 0, rep |-> 0]]
    BY <1>2 DEF Create
  <2>2. /\ incidents' \in [Incidents -> Row]
        /\ \A j \in Incidents : incidents'[j].next # "none" => incidents'[j].step < MaxSteps
    BY <1>2, <2>1, CreateTyped DEF Create, TypeOK, WellFormed, Request
  <2> QED
    BY <1>2, <2>1, <2>2, StoreAssumption
    DEF Create, TypeOK, StoreTypeOK, WellFormed, Frame, Request, IdleRequest
<1>3. CASE MatchResolved(w)
  BY <1>3 DEF MatchResolved, OpenMatch, TypeOK, StoreTypeOK, WellFormed, Request, IdleRequest
<1>4. CASE ResolveMatched(w)
  <2>1. /\ incidents' \in [Incidents -> Row]
        /\ \A j \in Incidents : incidents'[j].next # "none" => incidents'[j].step < MaxSteps
    BY <1>4, CloseTyped DEF ResolveMatched, TypeOK, WellFormed, Request
  <2> QED
    BY <1>4, <2>1 DEF ResolveMatched, TypeOK, StoreTypeOK, WellFormed, Request, IdleRequest
<1>5. ASSUME NEW s \in Services, NEW fp \in Fingerprints \cup {NoFingerprint}, Ingest(w, s, fp)
      PROVE  TypeInv'
  BY <1>5 DEF Ingest, TypeOK, StoreTypeOK, WellFormed, Request
<1>6. ASSUME NEW s \in Services, NEW fp \in Fingerprints, SourceResolved(w, s, fp)
      PROVE  TypeInv'
  BY <1>6 DEF SourceResolved, TypeOK, StoreTypeOK, WellFormed, Request
<1> QED
  BY <1>1, <1>2, <1>3, <1>4, <1>5, <1>6 DEF RequestStep

LEMMA TypePeople ==
  ASSUME TypeInv,
         \/ \E i \in Incidents : Acknowledge(i) \/ Resolve(i) \/ Elapse(i)
         \/ \E s \in Services : RemoveService(s)
         \/ \E q \in Policies : EditPolicy(q)
  PROVE  TypeInv'
<1> USE DEF TypeInv
<1>1. ASSUME NEW i \in Incidents, Acknowledge(i) \/ Resolve(i)
      PROVE  TypeInv'
  <2>1. /\ incidents' \in [Incidents -> Row]
        /\ \A j \in Incidents : incidents'[j].next # "none" => incidents'[j].step < MaxSteps
    BY <1>1, CloseTyped DEF Acknowledge, Resolve
  <2> QED
    BY <1>1, <2>1 DEF Acknowledge, Resolve, TypeOK, StoreTypeOK, WellFormed
<1>2. ASSUME NEW i \in Incidents, Elapse(i)
      PROVE  TypeInv'
  BY <1>2 DEF Elapse, TypeOK, StoreTypeOK, WellFormed, Row
<1>3. ASSUME NEW s \in Services, RemoveService(s)
      PROVE  TypeInv'
  <2>1. incidents' \in [Incidents -> Row]
    BY <1>3, FreeRowTyped
    DEF RemoveService, DeleteService, TypeOK, StoreTypeOK, FreeRow, Row, Statuses
  <2>2. \A j \in Incidents : incidents'[j].next # "none" => incidents'[j].step < MaxSteps
    BY <1>3 DEF RemoveService, DeleteService, WellFormed, FreeRow
  <2> QED
    BY <1>3, <2>1, <2>2
    DEF RemoveService, DeleteService, TypeOK, StoreTypeOK, WellFormed
<1>4. ASSUME NEW q \in Policies, EditPolicy(q)
      PROVE  TypeInv'
  <2>1. \/ \E r \in 0..MaxRepeat : policies' = [policies EXCEPT ![q].repeat = r]
        \/ \E n \in 0..MaxSteps : policies' = [policies EXCEPT ![q].len = n]
        \/ policies' = [policies EXCEPT ![q] = [live |-> FALSE, len |-> 0,
                                                repeat |-> policies[q].repeat]]
    BY <1>4 DEF EditPolicy, SetRepeat, ReplaceSteps, DeletePolicy
  <2>2. policies \in [Policies -> Policy] /\ 0 \in 0..MaxSteps
    BY StoreAssumption DEF TypeOK, StoreTypeOK
  <2> DEFINE was == policies[q]
  <2>3. was \in Policy
    BY <2>2
  <2>4. ASSUME NEW new \in Policy, policies' = [policies EXCEPT ![q] = new]
        PROVE  policies' \in [Policies -> Policy]
    BY <2>2, <2>4
  <2>5. \A r \in 0..MaxRepeat : [was EXCEPT !.repeat = r] \in Policy
    BY <2>3 DEF Policy
  <2>6. \A n \in 0..MaxSteps : [was EXCEPT !.len = n] \in Policy
    BY <2>3 DEF Policy
  <2>7. [live |-> FALSE, len |-> 0, repeat |-> was.repeat] \in Policy
    BY <2>2, <2>3 DEF Policy
  <2>8. policies' \in [Policies -> Policy]
    BY <2>1, <2>4, <2>5, <2>6, <2>7
  <2> QED
    BY <1>4, <2>8 DEF EditPolicy, TypeOK, StoreTypeOK, WellFormed
<1> QED
  BY <1>1, <1>2, <1>3, <1>4

LEMMA TypeFault ==
  ASSUME TypeInv,
         \/ \E p \in Actors : FireError(p)
         \/ \E w \in Workers : RequestError(w)
         \/ Restart
  PROVE  TypeInv'
<1> USE StoreAssumption, ActorAssumption DEF TypeInv
<1>1. ASSUME NEW p \in Actors, FireError(p)
      PROVE  TypeInv'
  <2>1. /\ UNCHANGED <<incidents, services, policies, due, request, exhausted, fired, late, again>>
        /\ faults' \in 0..MaxFaults
    BY <1>1 DEF FireError, TypeOK
  <2>2. /\ fire \in [Actors -> Frame] /\ fire[p] \in Frame
        /\ \/ fire' = [fire EXCEPT ![p] = IdleFrame]
           \/ fire[p].pc = "log" /\ fire' = [fire EXCEPT ![p].pc = "stop"]
    BY <1>1 DEF FireError, Return, Goto, TypeOK
  <2>3. /\ fire' \in [Actors -> Frame]
        /\ \A q \in Actors : q # p => fire'[q] = fire[q]
        /\ \/ fire'[p].pc = "idle"
           \/ /\ fire'[p].pc = "stop" /\ Busy(p)
              /\ fire'[p].inc = fire[p].inc /\ fire'[p].step = fire[p].step
    BY <2>2 DEF Frame, IdleFrame
  <2> QED
    BY <2>1, <2>3 DEF TypeOK, StoreTypeOK, WellFormed
<1>2. ASSUME NEW w \in Workers, RequestError(w)
      PROVE  TypeInv'
  BY <1>2 DEF RequestError, TypeOK, StoreTypeOK, WellFormed, Request, IdleRequest
<1>3. CASE Restart
  BY <1>3
  DEF Restart, TypeOK, StoreTypeOK, WellFormed, Frame, IdleFrame, Request, IdleRequest, Snapshot
<1> QED
  BY <1>1, <1>2, <1>3

LEMMA TypeNext == TypeInv /\ [Next]_vars => TypeInv'
<1> SUFFICES ASSUME TypeInv, [Next]_vars PROVE TypeInv'
  OBVIOUS
<1>1. CASE UNCHANGED vars
  BY <1>1 DEF vars, TypeInv, TypeOK, StoreTypeOK, WellFormed
<1>2. CASE Next
  BY <1>2, TypeTick, TypeFireStep, TypeRequest, TypePeople, TypeFault DEF Next
<1> QED
  BY <1>1, <1>2

(* Every variable keeps its type, whatever is edited, fails or restarts: in   *)
(* particular the stored step never passes MaxSteps and the repeat never      *)
(* passes MaxRepeat, although each is computed from a row read long before.   *)
THEOREM TypeCorrect == Spec => []TypeOK
<1>1. Spec => []TypeInv
  BY TypeInit, TypeNext, PTL DEF Spec
<1> QED
  BY <1>1, PTL DEF TypeInv

-----------------------------------------------------------------------------
(* What each statement does to the rows, in terms of fields. *)

LEMMA SetNextEffect ==
  ASSUME TypeInv, NEW i \in Incidents, NEW k, NEW r, NEW n,
         SetNextEscalation(i, k, r, n)
  PROVE  /\ \A j \in Incidents : incidents'[j].status = incidents[j].status
         /\ \A j \in Incidents : j # i => incidents'[j] = incidents[j]
         /\ incidents[i].status \in Present =>
              /\ incidents'[i].step = k
              /\ incidents'[i].rep = r
              /\ incidents'[i].next = n
         /\ incidents[i].status \notin Present => incidents'[i] = incidents[i]
<1> DEFINE old == incidents[i]
           new == [old EXCEPT !.step = k, !.rep = r, !.next = n]
<1>1. old \in Row /\ incidents \in [Incidents -> Row]
  BY DEF TypeInv, TypeOK, StoreTypeOK
<1>2. incidents' = [incidents EXCEPT ![i] = IF old.status \in Present THEN new ELSE old]
  BY DEF SetNextEscalation
<1>3. new.status = old.status /\ new.step = k /\ new.rep = r /\ new.next = n
  BY <1>1 DEF Row
<1> HIDE DEF new
<1> QED
  BY <1>1, <1>2, <1>3

LEMMA CreateEffect ==
  ASSUME TypeInv, NEW i \in Incidents, NEW s, NEW fp, CreateIncident(i, s, fp)
  PROVE  /\ incidents[i].status = "free"
         /\ incidents'[i].status = "triggered"
         /\ incidents'[i].next = "none"
         /\ incidents'[i].step = 0
         /\ incidents'[i].rep = 0
         /\ \A j \in Incidents : j # i => incidents'[j] = incidents[j]
<1> DEFINE new == [FreeRow EXCEPT !.status = "triggered", !.svc = s, !.fp = fp]
<1>1. /\ new.status = "triggered" /\ new.next = "none"
      /\ new.step = 0 /\ new.rep = 0
  BY DEF FreeRow
<1>2. incidents[i].status = "free" /\ incidents' = [incidents EXCEPT ![i] = new]
  BY DEF CreateIncident
<1>3. incidents \in [Incidents -> Row]
  BY DEF TypeInv, TypeOK, StoreTypeOK
<1> HIDE DEF new
<1> QED
  BY <1>1, <1>2, <1>3

LEMMA CloseEffect ==
  ASSUME TypeInv, NEW i \in Incidents,
         AcknowledgeIncident(i) \/ ResolveIncident(i)
  PROVE  /\ \A j \in Incidents : /\ incidents'[j].step = incidents[j].step
                                 /\ incidents'[j].rep = incidents[j].rep
         /\ \A j \in Incidents :
              \/ incidents'[j] = incidents[j]
              \/ /\ incidents[j].status = "triggered"
                 /\ incidents'[j].status = "acknowledged"
                 /\ incidents'[j].next = "none"
              \/ /\ incidents[j].status \in Open
                 /\ incidents'[j].status = "resolved"
                 /\ incidents'[j].next = "none"
<1> DEFINE old == incidents[i]
           new(st) == [old EXCEPT !.status = st, !.next = "none"]
<1>1. old \in Row /\ incidents \in [Incidents -> Row]
  BY DEF TypeInv, TypeOK, StoreTypeOK
<1>2. \A st \in Closed : /\ new(st).status = st /\ new(st).next = "none"
                         /\ new(st).step = old.step /\ new(st).rep = old.rep
  BY <1>1 DEF Row
<1>3. \/ incidents' = [incidents EXCEPT ![i] = old]
      \/ old.status = "triggered" /\ incidents' = [incidents EXCEPT ![i] = new("acknowledged")]
      \/ old.status \in Open /\ incidents' = [incidents EXCEPT ![i] = new("resolved")]
  BY DEF AcknowledgeIncident, ResolveIncident
<1> HIDE DEF new
<1> QED
  BY <1>1, <1>2, <1>3 DEF Closed

LEMMA ElapseEffect ==
  ASSUME TypeInv, NEW i \in Incidents, Elapse(i)
  PROVE  /\ incidents[i].next = "future"
         /\ incidents'[i].next = "due"
         /\ \A j \in Incidents : /\ incidents'[j].status = incidents[j].status
                                 /\ incidents'[j].step = incidents[j].step
                                 /\ incidents'[j].rep = incidents[j].rep
         /\ \A j \in Incidents : j # i => incidents'[j] = incidents[j]
  BY DEF Elapse, TypeInv, TypeOK, StoreTypeOK, Row

LEMMA RemoveEffect ==
  ASSUME TypeInv, NEW s \in Services, RemoveService(s)
  PROVE  /\ UNCHANGED <<due, fire, request>>
         /\ \A j \in Incidents :
              \/ /\ incidents'[j] = incidents[j]
                 /\ fired'[j] = fired[j]
                 /\ late'[j] = late[j]
              \/ /\ incidents'[j].status = "deleted"
                 /\ fired'[j] = {}
                 /\ late'[j] = 0
  BY DEF RemoveService, DeleteService, FreeRow, TypeInv, TypeOK

-----------------------------------------------------------------------------
(* The actions that leave the incidents table alone. *)
LEMMA TableUnchanged ==
  ASSUME \/ Tick \/ TickNext \/ Restart
         \/ \E p \in Actors : \/ LoadSteps(p) \/ LoadPolicy(p) \/ LogExhausted(p)
                              \/ Notify(p) \/ FireError(p)
         \/ \E w \in Workers :
              \/ Lookup(w) \/ CreateFails(w) \/ MatchResolved(w) \/ RequestError(w)
              \/ \E s \in Services, fp \in Fingerprints \cup {NoFingerprint} :
                    Ingest(w, s, fp) \/ SourceResolved(w, s, fp)
         \/ \E q \in Policies : EditPolicy(q)
         \/ UNCHANGED vars
  PROVE  UNCHANGED incidents
  BY DEF Tick, TickNext, Restart, LoadSteps, LoadPolicy, LogExhausted, Notify, FireError,
         Lookup, CreateFails, MatchResolved, RequestError, Ingest, SourceResolved,
         EditPolicy, vars

LEMMA StatusNext ==
  ASSUME TypeInv, [Next]_vars, NEW i \in Incidents
  PROVE  rank[incidents[i].status] <= rank[incidents'[i].status]
<1> DEFINE forward == rank[incidents[i].status] <= rank[incidents'[i].status]
<1>0. incidents[i].status \in Statuses
  BY DEF TypeInv, TypeOK, StoreTypeOK, Row
<1>1. UNCHANGED incidents => forward
  BY <1>0 DEF rank, Statuses
<1>2. ASSUME NEW p \in Actors, Stop(p) \/ Commit(p)
      PROVE  forward
  <2>1. incidents'[i].status = incidents[i].status
    BY <1>2, SetNextEffect DEF Stop, Commit, TypeInv, WellFormed
  <2> QED
    BY <1>0, <2>1 DEF rank, Statuses
<1>3. ASSUME NEW w \in Workers, Create(w)
      PROVE  forward
  <2>1. PICK j \in Incidents : CreateIncident(j, request[w].svc, request[w].fp)
    BY <1>3 DEF Create
  <2>2. \/ incidents'[i] = incidents[i]
        \/ incidents[i].status = "free" /\ incidents'[i].status = "triggered"
    BY <2>1, CreateEffect
  <2> QED
    BY <1>0, <2>2 DEF rank, Statuses
<1>4. ASSUME NEW j \in Incidents, AcknowledgeIncident(j) \/ ResolveIncident(j)
      PROVE  forward
  <2>1. \/ incidents'[i].status = incidents[i].status
        \/ incidents[i].status = "triggered" /\ incidents'[i].status = "acknowledged"
        \/ incidents[i].status \in Open /\ incidents'[i].status = "resolved"
    BY <1>4, CloseEffect
  <2> QED
    BY <1>0, <2>1 DEF rank, Statuses, Open
<1>5. ASSUME NEW j \in Incidents, Acknowledge(j) \/ Resolve(j)
      PROVE  forward
  BY <1>4, <1>5 DEF Acknowledge, Resolve
<1>6. ASSUME NEW w \in Workers, ResolveMatched(w)
      PROVE  forward
  BY <1>4, <1>6 DEF ResolveMatched, TypeInv, WellFormed
<1>7. ASSUME NEW j \in Incidents, Elapse(j)
      PROVE  forward
  <2>1. incidents'[i].status = incidents[i].status
    BY <1>7, ElapseEffect
  <2> QED
    BY <1>0, <2>1 DEF rank, Statuses
<1>8. ASSUME NEW s \in Services, RemoveService(s)
      PROVE  forward
  <2>1. \/ incidents'[i].status = incidents[i].status
        \/ incidents'[i].status = "deleted"
    BY <1>8, RemoveEffect
  <2> QED
    BY <1>0, <2>1 DEF rank, Statuses
<1> QED
  BY <1>1, <1>2, <1>3, <1>5, <1>6, <1>7, <1>8, TableUnchanged
  DEF Next, FireStep, RequestStep

-----------------------------------------------------------------------------
(* FireExclusive is not inductive: that the engine does not pick up what a    *)
(* handler is still firing rests on the row not being armed until the         *)
(* handler's last statement, and that a new id is nobody's on its being free. *)
Handled ==
    /\ \A w \in Workers :
          Busy(w) /\ incidents[fire[w].inc].status = "triggered"
            => incidents[fire[w].inc].next = "none"
    /\ \A p \in Actors : Busy(p) => incidents[fire[p].inc].status # "free"
    /\ \A d \in due : incidents[d.inc].status # "free"

ExclInv == TypeInv /\ FireExclusive /\ Handled

LEMMA ExclInit == Init => ExclInv
<1> SUFFICES ASSUME Init PROVE ExclInv
  OBVIOUS
<1>1. TypeInv
  BY TypeInit
<1>2. due = {} /\ \A p \in Actors : ~Busy(p)
  BY DEF Init, IdleFrame
<1> QED
  BY <1>1, <1>2 DEF ExclInv, FireExclusive, Handled, Queued

(* Whoever leaves fireStep, or moves on inside it, claims nothing new. *)
LEMMA ExclFrame ==
  ASSUME ExclInv, TypeInv', NEW p \in Actors, Busy(p),
         UNCHANGED due,
         \A q \in Actors : q # p => fire'[q] = fire[q],
         Busy(p)' => fire'[p].inc = fire[p].inc,
         \A i \in Incidents :
            /\ incidents'[i].status = incidents[i].status
            /\ i # fire[p].inc => incidents'[i] = incidents[i],
         UNCHANGED incidents \/ ~Busy(p)'
  PROVE  ExclInv'
<1>1. FireExclusive'
  BY DEF ExclInv, FireExclusive, Queued
<1>2. \A q \in Actors : Busy(q)' => /\ Busy(q) /\ fire'[q].inc = fire[q].inc
                                    /\ fire[q].inc \in Incidents
                                    /\ incidents'[fire[q].inc] = incidents[fire[q].inc]
  <2> SUFFICES ASSUME NEW q \in Actors, Busy(q)'
               PROVE  /\ Busy(q) /\ fire'[q].inc = fire[q].inc
                      /\ fire[q].inc \in Incidents
                      /\ incidents'[fire[q].inc] = incidents[fire[q].inc]
    OBVIOUS
  <2>1. Busy(q) /\ fire'[q].inc = fire[q].inc
    OBVIOUS
  <2>2. fire[q].inc \in Incidents
    BY <2>1 DEF ExclInv, TypeInv, WellFormed
  <2>3. UNCHANGED incidents \/ q # p
    OBVIOUS
  <2>4. q # p => fire[q].inc # fire[p].inc
    BY <2>1 DEF ExclInv, FireExclusive
  <2>5. incidents'[fire[q].inc] = incidents[fire[q].inc]
    BY <2>2, <2>3, <2>4
  <2> QED
    BY <2>1, <2>2, <2>5
<1>3. Handled'
  BY <1>2 DEF ExclInv, Handled, TypeInv, TypeOK, Snapshot
<1> QED
  BY <1>1, <1>3 DEF ExclInv

(* Statements and requests that start no work and do not arm a row somebody   *)
(* is still firing. *)
LEMMA ExclTable ==
  ASSUME ExclInv, TypeInv', UNCHANGED <<due, fire>>,
         \A i \in Incidents :
            \/ incidents'[i].status = incidents[i].status
            \/ incidents'[i].status \notin {"free", "triggered"},
         \A i \in Incidents :
            incidents[i].status = "triggered" /\ incidents[i].next = "none"
              /\ incidents'[i].status = "triggered" => incidents'[i].next = "none"
  PROVE  ExclInv'
<1>1. FireExclusive'
  BY DEF ExclInv, FireExclusive, Queued
<1>2. Handled'
  BY DEF ExclInv, Handled, TypeInv, TypeOK, WellFormed, Snapshot
<1> QED
  BY <1>1, <1>2 DEF ExclInv

LEMMA ExclTick ==
  ASSUME ExclInv, TypeInv', Tick \/ TickNext PROVE ExclInv'
<1>1. CASE Tick
  <2>1. \A d \in due' : /\ d.inc \in DueForEscalation
                        /\ d = [inc |-> d.inc, step |-> incidents[d.inc].step,
                                rep |-> incidents[d.inc].rep]
    BY <1>1 DEF Tick
  <2>2. \A d \in due' : d.inc \in Incidents /\ incidents[d.inc].status = "triggered"
                          /\ incidents[d.inc].next = "due"
    BY <2>1 DEF DueForEscalation
  <2>3. \A d, e \in due' : d.inc = e.inc => d = e
    BY <2>1
  <2>4. UNCHANGED <<fire, incidents>> /\ ~Busy(Engine)
    BY <1>1 DEF Tick
  <2>5. \A p \in Actors : Busy(p) => p \in Workers
    BY <2>4
  <2>6. \A p \in Actors, d \in due' : Busy(p) => d.inc # fire[p].inc
    BY <2>2, <2>5 DEF ExclInv, Handled
  <2> QED
    BY <2>2, <2>3, <2>4, <2>6 DEF ExclInv, FireExclusive, Handled, Queued
<1>2. CASE TickNext
  <2>1. PICK d \in due :
          /\ due' = due \ {d}
          /\ fire' = [fire EXCEPT ![Engine] =
                        [pc |-> "load", inc |-> d.inc, step |-> d.step + 1, rep |-> d.rep]]
    BY <1>2 DEF TickNext
  <2>2. UNCHANGED incidents /\ ~Busy(Engine)
    BY <1>2 DEF TickNext
  <2>3. /\ fire'[Engine].inc = d.inc
        /\ \A q \in Workers : fire'[q] = fire[q]
    BY <2>1, ActorAssumption DEF ExclInv, TypeInv, TypeOK
  <2>4. \A q \in Workers : Busy(q) => fire[q].inc # d.inc
    BY DEF ExclInv, FireExclusive, Queued
  <2>5. \A e \in due' : e \in due /\ e.inc # d.inc
    BY <2>1 DEF ExclInv, FireExclusive
  <2>6. FireExclusive'
    BY <2>3, <2>4, <2>5 DEF ExclInv, FireExclusive, Queued
  <2>7. Handled'
    BY <2>2, <2>3, <2>5, ActorAssumption DEF ExclInv, Handled
  <2> QED
    BY <2>6, <2>7 DEF ExclInv
<1> QED
  BY <1>1, <1>2

LEMMA ExclFireStep ==
  ASSUME ExclInv, TypeInv', NEW p \in Actors, FireStep(p) \/ FireError(p) PROVE ExclInv'
<1> USE DEF ExclInv
<1>1. fire \in [Actors -> Frame] /\ Busy(p)
  BY DEF TypeInv, TypeOK, FireStep, LoadSteps, LoadPolicy, LogExhausted, Stop, Notify,
         Commit, FireError
<1>2. CASE \/ LoadSteps(p) \/ LoadPolicy(p) \/ LogExhausted(p) \/ Notify(p) \/ FireError(p)
  <2>1. UNCHANGED <<incidents, due>>
    BY <1>2 DEF LoadSteps, LoadPolicy, LogExhausted, Notify, FireError
  <2>2. \/ Return(p)
        \/ Goto(p, "notify") \/ Goto(p, "policy") \/ Goto(p, "log")
        \/ Goto(p, "stop") \/ Goto(p, "commit")
        \/ fire' = [fire EXCEPT ![p] = [pc |-> "load", inc |-> fire[p].inc,
                                        step |-> 0, rep |-> fire[p].rep + 1]]
    BY <1>2 DEF LoadSteps, LoadPolicy, LogExhausted, Notify, FireError
  <2>3. /\ \A q \in Actors : q # p => fire'[q] = fire[q]
        /\ Busy(p)' => fire'[p].inc = fire[p].inc
    BY <1>1, <2>2 DEF Frame, IdleFrame, Goto, Return
  <2> QED
    BY <1>1, <2>1, <2>3, ExclFrame
<1>3. CASE Stop(p) \/ Commit(p)
  <2>1. UNCHANGED due /\ fire' = [fire EXCEPT ![p] = IdleFrame]
    BY <1>3 DEF Stop, Commit, Return
  <2>2. /\ \A q \in Actors : q # p => fire'[q] = fire[q]
        /\ ~Busy(p)'
    BY <1>1, <2>1 DEF IdleFrame
  <2>3. fire[p].inc \in Incidents
    BY <1>1 DEF TypeInv, WellFormed
  <2>4. \A i \in Incidents :
            /\ incidents'[i].status = incidents[i].status
            /\ i # fire[p].inc => incidents'[i] = incidents[i]
    BY <1>3, <2>3, SetNextEffect DEF Stop, Commit
  <2> QED
    BY <1>1, <2>1, <2>2, <2>4, ExclFrame
<1> QED
  BY <1>2, <1>3 DEF FireStep

LEMMA ExclCreate ==
  ASSUME ExclInv, TypeInv', NEW w \in Workers, Create(w) PROVE ExclInv'
<1>1. PICK i \in Incidents :
        /\ CreateIncident(i, request[w].svc, request[w].fp)
        /\ fire' = [fire EXCEPT ![w] = [pc |-> "load", inc |-> i, step |-> 0, rep |-> 0]]
  BY DEF Create
<1>2. /\ incidents[i].status = "free"
      /\ incidents'[i].status = "triggered"
      /\ incidents'[i].next = "none"
      /\ \A j \in Incidents : j # i => incidents'[j] = incidents[j]
  BY <1>1, CreateEffect DEF ExclInv
<1>3. /\ UNCHANGED due
      /\ fire'[w].inc = i
      /\ \A q \in Actors : q # w => fire'[q] = fire[q]
  BY <1>1 DEF Create, ExclInv, TypeInv, TypeOK
<1>4. /\ \A q \in Actors : Busy(q) => fire[q].inc \in Incidents /\ fire[q].inc # i
      /\ \A d \in due : d.inc \in Incidents /\ d.inc # i
  BY <1>2 DEF ExclInv, Handled, TypeInv, TypeOK, WellFormed, Snapshot
<1>5. FireExclusive'
  BY <1>3, <1>4 DEF ExclInv, FireExclusive, Queued
<1>6. Handled'
  BY <1>2, <1>3, <1>4 DEF ExclInv, Handled
<1> QED
  BY <1>5, <1>6 DEF ExclInv

LEMMA ExclNext == ExclInv /\ [Next]_vars => ExclInv'
<1> SUFFICES ASSUME ExclInv, [Next]_vars PROVE ExclInv'
  OBVIOUS
<1>0. TypeInv /\ TypeInv' /\ FireExclusive /\ Handled
  BY TypeNext DEF ExclInv
<1>1. CASE UNCHANGED vars
  BY <1>0, <1>1 DEF vars, ExclInv, FireExclusive, Handled, Queued
<1>2. CASE Tick \/ TickNext
  BY <1>0, <1>2, ExclTick
<1>3. ASSUME NEW p \in Actors, FireStep(p) \/ FireError(p)
      PROVE  ExclInv'
  BY <1>0, <1>3, ExclFireStep
<1>4. ASSUME NEW w \in Workers, Create(w)
      PROVE  ExclInv'
  BY <1>0, <1>4, ExclCreate
<1>5. ASSUME NEW w \in Workers,
             \/ Lookup(w) \/ CreateFails(w) \/ MatchResolved(w) \/ RequestError(w)
             \/ \E s \in Services, fp \in Fingerprints \cup {NoFingerprint} :
                   Ingest(w, s, fp) \/ SourceResolved(w, s, fp)
      PROVE  ExclInv'
  <2>1. UNCHANGED <<incidents, due, fire>>
    BY <1>5 DEF Lookup, CreateFails, MatchResolved, RequestError, Ingest, SourceResolved
  <2> QED
    BY <1>0, <2>1, ExclTable
<1>6. ASSUME NEW i \in Incidents, AcknowledgeIncident(i) \/ ResolveIncident(i),
             UNCHANGED <<due, fire>>
      PROVE  ExclInv'
  <2>1. \A j \in Incidents :
          /\ \/ incidents'[j].status = incidents[j].status
             \/ incidents'[j].status \notin {"free", "triggered"}
          /\ incidents[j].status = "triggered" /\ incidents[j].next = "none"
               /\ incidents'[j].status = "triggered" => incidents'[j].next = "none"
    BY <1>0, <1>6, CloseEffect
  <2> QED
    BY <1>0, <1>6, <2>1, ExclTable
<1>7. ASSUME NEW w \in Workers, ResolveMatched(w)
      PROVE  ExclInv'
  BY <1>0, <1>6, <1>7 DEF ResolveMatched, TypeInv, WellFormed
<1>8. ASSUME NEW i \in Incidents, Acknowledge(i) \/ Resolve(i)
      PROVE  ExclInv'
  BY <1>6, <1>8 DEF Acknowledge, Resolve
<1>9. ASSUME NEW i \in Incidents, Elapse(i)
      PROVE  ExclInv'
  <2>1. UNCHANGED <<due, fire>>
    BY <1>9 DEF Elapse
  <2>2. /\ incidents[i].next = "future"
        /\ \A j \in Incidents : incidents'[j].status = incidents[j].status
        /\ \A j \in Incidents : j # i => incidents'[j] = incidents[j]
    BY <1>0, <1>9, ElapseEffect
  <2> QED
    BY <1>0, <2>1, <2>2, ExclTable
<1>10. ASSUME NEW s \in Services, RemoveService(s)
       PROVE  ExclInv'
  <2>1. /\ UNCHANGED <<due, fire>>
        /\ \A j \in Incidents : \/ incidents'[j] = incidents[j]
                                \/ incidents'[j].status = "deleted"
    BY <1>0, <1>10, RemoveEffect
  <2> QED
    BY <1>0, <2>1, ExclTable
<1>11. ASSUME NEW q \in Policies, EditPolicy(q)
       PROVE  ExclInv'
  <2>1. UNCHANGED <<incidents, due, fire>>
    BY <1>11 DEF EditPolicy
  <2> QED
    BY <1>0, <2>1, ExclTable
<1>12. CASE Restart
  <2>1. due' = {} /\ \A p \in Actors : ~Busy(p)'
    BY <1>12 DEF Restart, IdleFrame
  <2> QED
    BY <1>0, <2>1 DEF ExclInv, FireExclusive, Handled, Queued
<1> QED
  BY <1>1, <1>2, <1>3, <1>4, <1>5, <1>7, <1>8, <1>9, <1>10, <1>11, <1>12
  DEF Next, RequestStep

LEMMA ExclAlways == Spec => []ExclInv
  BY ExclInit, ExclNext, PTL DEF Spec

(* The handler that created an incident and the engine never fire it at the   *)
(* same time, and no incident is twice in the engine's queue, with any number *)
(* of handlers and whatever fails: there is no lock, the rows themselves      *)
(* (unarmed until the handler's last statement) keep them apart.              *)
THEOREM FireIsExclusive == Spec => []FireExclusive
  BY ExclAlways, PTL DEF ExclInv

=============================================================================
