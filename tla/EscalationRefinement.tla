------------------------ MODULE EscalationRefinement ------------------------
(***************************************************************************)
(* Escalation implements IncidentLease: every step of a handler, of the    *)
(* engine, of a responder or an operator, every error and every restart is *)
(* a step of the lease or a stutter, for any number of incidents and       *)
(* handlers.                                                               *)
(***************************************************************************)
EXTENDS EscalationPagingProofs

USE DEF Actors, Busy

-----------------------------------------------------------------------------
(* Beyond the invariant of the positions: a row that is not there belongs to  *)
(* no service, so that deleting a service deletes rows that were there.        *)
Unowned(row) == row.status \in {"free", "deleted"} => row.svc = None
Owned == \A i \in Incidents : Unowned(incidents[i])

LeaseInv == PosInv /\ Owned /\ OneTask

LEMMA OwnedTable ==
  ASSUME TypeInv, Owned, NEW i \in Incidents, NEW row,
         incidents' = [incidents EXCEPT ![i] = row], Unowned(row)
  PROVE  Owned'
  BY DEF Owned, TypeInv, TypeOK, StoreTypeOK

LEMMA OwnedStatement ==
  ASSUME TypeInv, Owned, NEW i \in Incidents,
         \/ AcknowledgeIncident(i) \/ ResolveIncident(i)
         \/ \E k, r, n : SetNextEscalation(i, k, r, n)
  PROVE  Owned'
<1> DEFINE old == incidents[i]
           closed(st) == [old EXCEPT !.status = st, !.next = "none"]
           moved(k, r, n) == [old EXCEPT !.step = k, !.rep = r, !.next = n]
<1>1. old \in Row /\ Unowned(old)
  BY DEF TypeInv, TypeOK, StoreTypeOK, Owned
<1>2. Unowned(closed("acknowledged")) /\ Unowned(closed("resolved"))
  BY <1>1 DEF Row, Unowned
<1>3. \A k, r, n : Unowned(moved(k, r, n))
  BY <1>1 DEF Row, Unowned
<1>4. \/ incidents' = [incidents EXCEPT ![i] = old]
      \/ incidents' = [incidents EXCEPT ![i] = closed("acknowledged")]
      \/ incidents' = [incidents EXCEPT ![i] = closed("resolved")]
      \/ \E k, r, n : incidents' = [incidents EXCEPT ![i] = moved(k, r, n)]
  BY DEF AcknowledgeIncident, ResolveIncident, SetNextEscalation
<1> HIDE DEF old, closed, moved
<1> QED BY <1>1, <1>2, <1>3, <1>4, OwnedTable

LEMMA OwnedNext == ASSUME PosInv, Owned, [Next]_vars PROVE Owned'
<1>0. TypeInv
  BY DEF PosInv, ExclInv
<1>1. UNCHANGED incidents => Owned'
  BY DEF Owned
<1>2. ASSUME NEW p \in Actors, Stop(p) \/ Commit(p) PROVE Owned'
  <2>1. fire[p].inc \in Incidents
    BY <1>0, <1>2, PosTypes DEF Stop, Commit
  <2> QED BY <1>0, <1>2, <2>1, OwnedStatement DEF Stop, Commit
<1>3. ASSUME NEW w \in Workers, Create(w) PROVE Owned'
  <2>1. PICK i \in Incidents : CreateIncident(i, request[w].svc, request[w].fp)
    BY <1>3 DEF Create
  <2> DEFINE new == [FreeRow EXCEPT !.status = "triggered", !.svc = request[w].svc,
                                    !.fp = request[w].fp]
  <2>2. incidents' = [incidents EXCEPT ![i] = new]
    BY <2>1 DEF CreateIncident
  <2>3. Unowned(new)
    BY DEF Unowned, FreeRow
  <2> HIDE DEF new
  <2> QED BY <1>0, <2>2, <2>3, OwnedTable
<1>4. ASSUME NEW i \in Incidents, Acknowledge(i) \/ Resolve(i) PROVE Owned'
  BY <1>0, <1>4, OwnedStatement DEF Acknowledge, Resolve
<1>5. ASSUME NEW w \in Workers, ResolveMatched(w) PROVE Owned'
  BY <1>0, <1>5, OwnedStatement DEF ResolveMatched, TypeInv, WellFormed
<1>6. ASSUME NEW i \in Incidents, Elapse(i) PROVE Owned'
  BY <1>0, <1>6 DEF Elapse, Owned, Unowned, TypeInv, TypeOK, StoreTypeOK, Row
<1>7. ASSUME NEW s \in Services, RemoveService(s) PROVE Owned'
  BY <1>0, <1>7 DEF RemoveService, DeleteService, Owned, Unowned, FreeRow
<1> QED
  BY <1>1, <1>2, <1>3, <1>4, <1>5, <1>6, <1>7, TableUnchanged
  DEF Next, FireStep, RequestStep

LEMMA LeaseInvInit == Init => LeaseInv
  BY PosInit DEF LeaseInv, Owned, Unowned, OneTask, Init, StoreInit, FreeRow, IdleRequest

LEMMA LeaseInvNext == LeaseInv /\ [Next]_vars => LeaseInv'
  BY PosNext, OwnedNext, OneTaskNext DEF LeaseInv, PosInv, ExclInv

-----------------------------------------------------------------------------
(* The lease of one incident, before and after a step. *)

LEMMA LeaseUntouched ==
  ASSUME UNCHANGED <<due, fire>>
  PROVE  \A i \in Incidents : leaseOf(i)' = leaseOf(i)
  BY DEF leaseOf, Claimed, Queued

(* What an actor inside fireStep holds: nobody else claims its incident. *)
LEMMA LeaseHeld ==
  ASSUME FireExclusive, NEW p \in Actors, Busy(p)
  PROVE  leaseOf(fire[p].inc) = IF fire[p].pc = "commit" THEN "paged" ELSE "held"
  BY DEF leaseOf, Claimed, FireExclusive

LEMMA LeaseOfOthers ==
  ASSUME NEW p \in Actors, UNCHANGED due,
         \A q \in Actors : q # p => fire'[q] = fire[q],
         Busy(p)' => fire'[p].inc = fire[p].inc,
         NEW i \in Incidents, i # fire[p].inc
  PROVE  leaseOf(i)' = leaseOf(i)
<1>1. ASSUME NEW q \in Actors
      PROVE  /\ (Busy(q)' /\ fire'[q].inc = i) <=> (Busy(q) /\ fire[q].inc = i)
             /\ (fire'[q].pc = "commit" /\ fire'[q].inc = i)
                  <=> (fire[q].pc = "commit" /\ fire[q].inc = i)
  BY <1>1
<1>2. Claimed(i)' <=> Claimed(i)
  BY <1>1 DEF Claimed, Queued
<1> QED BY <1>1, <1>2 DEF leaseOf

-----------------------------------------------------------------------------
(* The steps of the lease, incident by incident. *)

LeaseStep == [Lease!Next]_(Lease!leaseVars)

SameStatus(i)   == incidents'[i].status = incidents[i].status
SamePosition(i) == incidents'[i].rep = incidents[i].rep /\ incidents'[i].step = incidents[i].step
SameLease(i)    == leaseOf(i)' = leaseOf(i)

LEMMA Stutters ==
  ASSUME \A i \in Incidents : SameStatus(i) /\ SamePosition(i) /\ SameLease(i)
  PROVE  LeaseStep
  BY DEF LeaseStep, Lease!leaseVars, SameStatus, SamePosition, SameLease

LEMMA Opens ==
  ASSUME NEW i \in Incidents,
         incidents[i].status = "free", incidents'[i].status = "triggered",
         leaseOf(i) = "none", leaseOf(i)' = "held",
         \A j \in Incidents : SamePosition(j) /\ (j # i => SameStatus(j) /\ SameLease(j))
  PROVE  LeaseStep
<1>1. Lease!OpenIncident(i)
  BY DEF Lease!OpenIncident, SameStatus, SamePosition, SameLease
<1> QED BY <1>1 DEF LeaseStep, Lease!Next

LEMMA Grants ==
  ASSUME NEW batch \in SUBSET Incidents,
         \A i \in batch : /\ incidents[i].status = "triggered"
                          /\ leaseOf(i) = "none"
                          /\ leaseOf(i)' = "held",
         \A i \in Incidents : /\ SameStatus(i) /\ SamePosition(i)
                              /\ i \notin batch => SameLease(i)
  PROVE  LeaseStep
<1>1. Lease!Grant(batch)
  BY DEF Lease!Grant, SameStatus, SamePosition, SameLease
<1> QED BY <1>1 DEF LeaseStep, Lease!Next

LEMMA Pages ==
  ASSUME NEW i \in Incidents, leaseOf(i) = "held", leaseOf(i)' = "paged",
         \A j \in Incidents : /\ SameStatus(j) /\ SamePosition(j)
                              /\ j # i => SameLease(j)
  PROVE  LeaseStep
<1>1. Lease!Page(i)
  BY DEF Lease!Page, SameStatus, SamePosition, SameLease
<1> QED BY <1>1 DEF LeaseStep, Lease!Next

LEMMA Settles ==
  ASSUME TypeInv', NEW i \in Incidents, leaseOf(i) # "none", leaseOf(i)' = "none",
         Before(incidents[i].rep, incidents[i].step, incidents'[i].rep, incidents'[i].step),
         \A j \in Incidents : /\ SameStatus(j)
                              /\ j # i => SamePosition(j) /\ SameLease(j)
  PROVE  LeaseStep
<1> DEFINE p == <<incidents'[i].rep, incidents'[i].step>>
<1>1. p \in Lease!Positions
  BY DEF TypeInv, TypeOK, StoreTypeOK, Row, Lease!Positions
<1>2. Lease!Ahead(<<incidents[i].rep, incidents[i].step>>, p)
  BY DEF Lease!Ahead, Before
<1>3. Lease!Settle(i)
  BY <1>1, <1>2 DEF Lease!Settle, SameStatus, SamePosition, SameLease
<1> QED BY <1>3 DEF LeaseStep, Lease!Next

LEMMA Closes ==
  ASSUME NEW i \in Incidents,
         \/ incidents[i].status = "triggered" /\ incidents'[i].status = "acknowledged"
         \/ incidents[i].status \in Open /\ incidents'[i].status = "resolved",
         \A j \in Incidents : /\ SamePosition(j) /\ SameLease(j)
                              /\ j # i => SameStatus(j)
  PROVE  LeaseStep
<1>1. Lease!Acknowledge(i) \/ Lease!Resolve(i)
  BY DEF Lease!Acknowledge, Lease!Resolve, Open, SameStatus, SamePosition, SameLease
<1> QED BY <1>1 DEF LeaseStep, Lease!Next

LEMMA Purges ==
  ASSUME NEW batch \in SUBSET Incidents,
         \A i \in batch : /\ incidents[i].status \in Present
                          /\ incidents'[i].status = "deleted"
                          /\ incidents'[i].rep = 0 /\ incidents'[i].step = 0,
         \A i \in Incidents : /\ SameLease(i)
                              /\ i \notin batch => SameStatus(i) /\ SamePosition(i)
  PROVE  LeaseStep
<1>1. Lease!Purge(batch)
  BY DEF Lease!Purge, Present, SameStatus, SamePosition, SameLease
<1> QED BY <1>1 DEF LeaseStep, Lease!Next

LEMMA Loses ==
  ASSUME \A i \in Incidents : SameStatus(i) /\ SamePosition(i) /\ leaseOf(i)' = "none"
  PROVE  LeaseStep
<1>1. Lease!Lose
  BY DEF Lease!Lose, SameStatus, SamePosition
<1> QED BY <1>1 DEF LeaseStep, Lease!Next

-----------------------------------------------------------------------------
(* Every step of the escalation is a step of the lease. *)

(* Steps that leave the frames and the queue alone. *)
LEMMA LeaseTable ==
  ASSUME UNCHANGED <<due, fire>>,
         \A i \in Incidents : SameStatus(i) /\ SamePosition(i)
  PROVE  LeaseStep
  BY LeaseUntouched, Stutters DEF SameLease

LEMMA LeaseClose ==
  ASSUME TypeInv, UNCHANGED <<due, fire>>,
         NEW i \in Incidents, AcknowledgeIncident(i) \/ ResolveIncident(i)
  PROVE  LeaseStep
<1>1. \A j \in Incidents : SamePosition(j) /\ SameLease(j)
  BY CloseEffect, LeaseUntouched DEF SamePosition, SameLease
<1>2. \A j \in Incidents : j # i => SameStatus(j)
  BY DEF AcknowledgeIncident, ResolveIncident, TypeInv, TypeOK, StoreTypeOK, SameStatus
<1>3. CASE SameStatus(i)
  BY <1>1, <1>2, <1>3, Stutters
<1>4. CASE ~SameStatus(i)
  <2>1. \/ incidents[i].status = "triggered" /\ incidents'[i].status = "acknowledged"
        \/ incidents[i].status \in Open /\ incidents'[i].status = "resolved"
    BY <1>4, CloseEffect DEF SameStatus
  <2> QED BY <1>1, <1>2, <2>1, Closes
<1> QED BY <1>3, <1>4

LEMMA LeaseTick == ASSUME ExclInv, Tick PROVE LeaseStep
<1>1. /\ due = {} /\ UNCHANGED <<incidents, fire>>
      /\ \A i \in Incidents : Queued(i)' <=> i \in DueForEscalation
  <2> DEFINE snap(i) == [inc |-> i, step |-> incidents[i].step, rep |-> incidents[i].rep]
  <2>1. due = {} /\ UNCHANGED <<incidents, fire>> /\ due' = {snap(i) : i \in DueForEscalation}
    BY DEF Tick
  <2>2. \A i : snap(i).inc = i
    OBVIOUS
  <2> HIDE DEF snap
  <2> QED BY <2>1, <2>2 DEF Queued
<1>2. ASSUME NEW i \in DueForEscalation
      PROVE  /\ incidents[i].status = "triggered"
             /\ leaseOf(i) = "none"
             /\ leaseOf(i)' = "held"
  <2>1. i \in Incidents /\ incidents[i].status = "triggered" /\ incidents[i].next = "due"
    BY DEF DueForEscalation
  <2>2. \A p \in Actors : ~(Busy(p) /\ fire[p].inc = i)
    BY <2>1, ActorAssumption DEF Tick, ExclInv, Handled
  <2>3. ~Claimed(i) /\ Claimed(i)'
    BY <1>1, <2>1, <2>2 DEF Claimed, Queued
  <2>4. ~\E p \in Actors : fire'[p].pc = "commit" /\ fire'[p].inc = i
    BY <1>1, <2>2
  <2> QED BY <2>1, <2>3, <2>4 DEF leaseOf
<1>3. ASSUME NEW i \in Incidents, i \notin DueForEscalation PROVE SameLease(i)
  <2>1. Claimed(i)' <=> Claimed(i)
    BY <1>1, <1>3 DEF Claimed, Queued
  <2> QED BY <1>1, <2>1 DEF leaseOf, SameLease
<1>4. \A i \in Incidents : SameStatus(i) /\ SamePosition(i)
  BY <1>1 DEF SameStatus, SamePosition
<1> QED BY <1>2, <1>3, <1>4, Grants DEF DueForEscalation

LEMMA LeaseTickNext == ASSUME ExclInv, TickNext PROVE LeaseStep
<1>1. PICK d \in due :
        /\ due' = due \ {d}
        /\ fire' = [fire EXCEPT ![Engine] =
                      [pc |-> "load", inc |-> d.inc, step |-> d.step + 1, rep |-> d.rep]]
  BY DEF TickNext
<1>2. /\ UNCHANGED incidents /\ fire[Engine].pc = "idle"
      /\ fire'[Engine].pc = "load" /\ fire'[Engine].inc = d.inc
      /\ \A q \in Actors : q # Engine => fire'[q] = fire[q]
  BY <1>1 DEF TickNext, ExclInv, TypeInv, TypeOK
<1>3. ASSUME NEW i \in Incidents PROVE SameLease(i)
  <2>1. (\E p \in Actors : fire'[p].pc = "commit" /\ fire'[p].inc = i)
          <=> \E p \in Actors : fire[p].pc = "commit" /\ fire[p].inc = i
    BY <1>2
  <2>2. Claimed(i)' <=> Claimed(i)
    <3>1. CASE i = d.inc
      BY <1>2, <3>1 DEF Claimed, Queued
    <3>2. CASE i # d.inc
      <4>1. Queued(i)' <=> Queued(i)
        BY <1>1, <3>2 DEF Queued
      <4>2. (\E p \in Actors : Busy(p) /\ fire[p].inc = i)'
              <=> \E p \in Actors : Busy(p) /\ fire[p].inc = i
        BY <1>2, <3>2
      <4> QED BY <4>1, <4>2 DEF Claimed
    <3> QED BY <3>1, <3>2
  <2> QED BY <2>1, <2>2 DEF leaseOf, SameLease
<1>4. \A i \in Incidents : SameStatus(i) /\ SamePosition(i)
  BY <1>2 DEF SameStatus, SamePosition
<1> QED BY <1>3, <1>4, Stutters

(* The frame of one actor moves on, or ends, and the table does not. *)
LEMMA LeaseMoves ==
  ASSUME ExclInv, ExclInv', NEW p \in Actors, Busy(p), UNCHANGED <<incidents, due>>,
         NEW i \in Incidents, fire[p].inc = i,
         \A q \in Actors : q # p => fire'[q] = fire[q],
         Busy(p)' => /\ fire'[p].inc = fire[p].inc
                     /\ fire[p].pc # "commit"
  PROVE  LeaseStep
<1>1. \A j \in Incidents : /\ SameStatus(j) /\ SamePosition(j)
                           /\ j # i => SameLease(j)
  BY LeaseOfOthers DEF SameStatus, SamePosition, SameLease
<1>2. leaseOf(i) = IF fire[p].pc = "commit" THEN "paged" ELSE "held"
  BY LeaseHeld DEF ExclInv
<1>3. CASE ~Busy(p)'
  <2>1. leaseOf(i)' = "none"
    BY <1>3 DEF ExclInv, FireExclusive, leaseOf, Claimed, Queued
  <2>2. Before(incidents[i].rep, incidents[i].step, incidents'[i].rep, incidents'[i].step)
    BY PosTypes DEF Before, ExclInv
  <2> QED BY <1>1, <1>2, <2>1, <2>2, Settles DEF ExclInv
<1>4. CASE Busy(p)'
  <2>1. leaseOf(i)' = IF fire'[p].pc = "commit" THEN "paged" ELSE "held"
    BY <1>4 DEF ExclInv, FireExclusive, leaseOf, Claimed
  <2>2. CASE fire'[p].pc = "commit"
    BY <1>1, <1>2, <1>4, <2>1, <2>2, Pages
  <2>3. CASE fire'[p].pc # "commit"
    <3>1. SameLease(i)
      BY <1>2, <1>4, <2>1, <2>3 DEF SameLease
    <3> QED BY <1>1, <3>1, Stutters
  <2> QED BY <2>2, <2>3
<1> QED BY <1>3, <1>4

(* Commit and Stop: SetNextEscalation, and the frame ends. *)
LEMMA LeaseStored ==
  ASSUME PosInv, TypeInv', NEW p \in Actors, Stop(p) \/ Commit(p),
         NEW i \in Incidents, fire[p].inc = i
  PROVE  LeaseStep
<1>1. ExclInv /\ TypeInv /\ Busy(p)
  BY DEF PosInv, ExclInv, Stop, Commit
<1>2. /\ UNCHANGED due /\ ~Busy(p)'
      /\ \A q \in Actors : q # p => fire'[q] = fire[q]
  BY <1>1, PosTypes DEF Stop, Commit, Return, IdleFrame
<1>3. \E n : SetNextEscalation(i, fire[p].step, fire[p].rep, n)
  BY DEF Stop, Commit
<1>4. /\ \A j \in Incidents : SameStatus(j) /\ (j # i => incidents'[j] = incidents[j])
      /\ incidents[i].status \in Present =>
           incidents'[i].step = fire[p].step /\ incidents'[i].rep = fire[p].rep
      /\ incidents[i].status \notin Present => incidents'[i] = incidents[i]
  BY <1>1, <1>3, SetNextEffect DEF SameStatus
<1>5. Before(incidents[i].rep, incidents[i].step, incidents'[i].rep, incidents'[i].step)
  <2>1. CASE incidents[i].status \in Present
    BY <1>1, <1>4, <2>1 DEF PosInv, FrameAhead
  <2>2. CASE incidents[i].status \notin Present
    BY <1>1, <1>4, <2>2, PosTypes DEF Before
  <2> QED BY <2>1, <2>2
<1>6. leaseOf(i) # "none"
  BY <1>1, LeaseHeld DEF ExclInv
<1>7. leaseOf(i)' = "none"
  BY <1>1, <1>2 DEF ExclInv, FireExclusive, leaseOf, Claimed, Queued
<1>8. \A j \in Incidents : j # i => SamePosition(j) /\ SameLease(j)
  BY <1>2, <1>4, LeaseOfOthers DEF SamePosition, SameLease
<1> QED BY <1>4, <1>5, <1>6, <1>7, <1>8, Settles

LEMMA LeaseFire ==
  ASSUME PosInv, PosInv', NEW p \in Actors, FireStep(p) \/ FireError(p)
  PROVE  LeaseStep
<1>1. ExclInv /\ ExclInv' /\ TypeInv /\ TypeInv'
  BY DEF PosInv, ExclInv
<1>2. Busy(p)
  BY DEF FireStep, LoadSteps, LoadPolicy, LogExhausted, Stop, Notify, Commit, FireError
<1>3. PICK i \in Incidents : fire[p].inc = i
  BY <1>1, <1>2, PosTypes
<1>4. CASE LoadSteps(p) \/ LoadPolicy(p) \/ LogExhausted(p) \/ Notify(p) \/ FireError(p)
  <2>1. UNCHANGED <<incidents, due>>
    BY <1>4 DEF LoadSteps, LoadPolicy, LogExhausted, Notify, FireError
  <2>2. \/ Return(p)
        \/ /\ fire[p].pc # "commit"
           /\ \/ Goto(p, "notify") \/ Goto(p, "policy") \/ Goto(p, "log")
              \/ Goto(p, "stop") \/ Goto(p, "commit")
              \/ fire' = [fire EXCEPT ![p] = [pc |-> "load", inc |-> fire[p].inc,
                                              step |-> 0, rep |-> fire[p].rep + 1]]
    BY <1>4 DEF LoadSteps, LoadPolicy, LogExhausted, Notify, FireError
  <2>3. /\ \A q \in Actors : q # p => fire'[q] = fire[q]
        /\ Busy(p)' => fire'[p].inc = fire[p].inc /\ fire[p].pc # "commit"
    BY <1>1, <2>2, PosTypes DEF Frame, IdleFrame, Goto, Return
  <2> QED BY <1>1, <1>2, <1>3, <2>1, <2>3, LeaseMoves
<1>5. CASE Stop(p) \/ Commit(p)
  BY <1>1, <1>3, <1>5, LeaseStored
<1> QED BY <1>4, <1>5 DEF FireStep

(* CreateIncident, and the frame that comes with it. *)
LEMMA LeaseCreate ==
  ASSUME LeaseInv, NEW w \in Workers, Create(w) PROVE LeaseStep
<1>0. ExclInv /\ TypeInv
  BY DEF LeaseInv, PosInv, ExclInv
<1>1. PICK i \in Incidents :
        /\ CreateIncident(i, request[w].svc, request[w].fp)
        /\ fire' = [fire EXCEPT ![w] = [pc |-> "load", inc |-> i, step |-> 0, rep |-> 0]]
  BY DEF Create
<1>2. /\ incidents[i].status = "free" /\ incidents'[i].status = "triggered"
      /\ incidents'[i].step = 0 /\ incidents'[i].rep = 0
      /\ \A j \in Incidents : j # i => incidents'[j] = incidents[j]
  BY <1>0, <1>1, CreateEffect
<1>3. /\ UNCHANGED due /\ fire'[w].pc = "load" /\ fire'[w].inc = i
      /\ \A q \in Actors : q # w => fire'[q] = fire[q]
  BY <1>0, <1>1, PosTypes DEF Create
<1>4. ~Claimed(i)
  BY <1>0, <1>2 DEF ExclInv, Handled, Claimed, Queued
<1>5. leaseOf(i) = "none"
  BY <1>4 DEF leaseOf
<1>6. leaseOf(i)' = "held"
  <2>1. Claimed(i)'
    BY <1>3 DEF Claimed
  <2>2. ~\E q \in Actors : fire'[q].pc = "commit" /\ fire'[q].inc = i
    BY <1>3, <1>4 DEF Claimed
  <2> QED BY <2>1, <2>2 DEF leaseOf
<1>7. \A j \in Incidents : j # i => SameLease(j)
  <2>1. ~Busy(w)
    BY DEF LeaseInv, OneTask, Create
  <2> SUFFICES ASSUME NEW j \in Incidents, j # i PROVE SameLease(j)
    OBVIOUS
  <2>2. Claimed(j)' <=> Claimed(j)
    BY <1>3, <2>1 DEF Claimed, Queued
  <2>3. (\E q \in Actors : fire'[q].pc = "commit" /\ fire'[q].inc = j)
          <=> \E q \in Actors : fire[q].pc = "commit" /\ fire[q].inc = j
    BY <1>3, <2>1
  <2> QED BY <2>2, <2>3 DEF leaseOf, SameLease
<1>8. \A j \in Incidents : SamePosition(j) /\ (j # i => SameStatus(j) /\ SameLease(j))
  BY <1>2, <1>7 DEF LeaseInv, PosInv, FreshId, SamePosition, SameStatus
<1> QED BY <1>2, <1>5, <1>6, <1>8, Opens

LEMMA LeaseRemove ==
  ASSUME LeaseInv, NEW s \in Services, RemoveService(s) PROVE LeaseStep
<1> DEFINE batch == {i \in Incidents : incidents[i].svc = s}
<1>1. TypeInv /\ UNCHANGED <<due, fire>>
  BY DEF LeaseInv, PosInv, ExclInv, RemoveService
<1>2. ASSUME NEW i \in batch
      PROVE  /\ incidents[i].status \in Present
             /\ incidents'[i].status = "deleted"
             /\ incidents'[i].rep = 0 /\ incidents'[i].step = 0
  <2>1. incidents[i].status \in Present
    BY <1>1, StoreAssumption
    DEF LeaseInv, Owned, Unowned, Present, TypeInv, TypeOK, StoreTypeOK, Row, Statuses
  <2>2. incidents'[i] = [FreeRow EXCEPT !.status = "deleted"]
    BY DEF RemoveService, DeleteService
  <2> QED BY <2>1, <2>2 DEF FreeRow
<1>3. \A i \in Incidents : i \notin batch => SameStatus(i) /\ SamePosition(i)
  BY DEF RemoveService, DeleteService, SameStatus, SamePosition
<1>4. \A i \in Incidents : SameLease(i)
  BY <1>1, LeaseUntouched DEF SameLease
<1> HIDE DEF batch
<1>5. batch \in SUBSET Incidents
  BY DEF batch
<1> QED BY <1>2, <1>3, <1>4, <1>5, Purges

LEMMA LeaseRestart == ASSUME Restart PROVE LeaseStep
<1>1. \A i \in Incidents : leaseOf(i)' = "none"
  BY DEF Restart, IdleFrame, leaseOf, Claimed, Queued
<1>2. \A i \in Incidents : SameStatus(i) /\ SamePosition(i)
  BY DEF Restart, SameStatus, SamePosition
<1> QED BY <1>1, <1>2, Loses

LEMMA LeaseNext == ASSUME LeaseInv, LeaseInv', [Next]_vars PROVE LeaseStep
<1>0. TypeInv /\ ExclInv /\ PosInv /\ PosInv'
  BY DEF LeaseInv, PosInv, ExclInv
<1>1. ASSUME UNCHANGED <<incidents, due, fire>> PROVE LeaseStep
  BY <1>1, LeaseTable DEF SameStatus, SamePosition
<1>2. CASE Tick \/ TickNext
  BY <1>0, <1>2, LeaseTick, LeaseTickNext
<1>3. ASSUME NEW p \in Actors, FireStep(p) \/ FireError(p) PROVE LeaseStep
  BY <1>0, <1>3, LeaseFire
<1>4. ASSUME NEW w \in Workers, Create(w) PROVE LeaseStep
  BY <1>4, LeaseCreate
<1>5. ASSUME NEW w \in Workers,
             \/ Lookup(w) \/ CreateFails(w) \/ MatchResolved(w) \/ RequestError(w)
             \/ \E s \in Services, fp \in Fingerprints \cup {NoFingerprint} :
                   Ingest(w, s, fp) \/ SourceResolved(w, s, fp)
      PROVE  LeaseStep
  BY <1>1, <1>5 DEF Lookup, CreateFails, MatchResolved, RequestError, Ingest, SourceResolved
<1>6. ASSUME NEW w \in Workers, ResolveMatched(w) PROVE LeaseStep
  BY <1>0, <1>6, LeaseClose DEF ResolveMatched, TypeInv, WellFormed
<1>7. ASSUME NEW i \in Incidents, Acknowledge(i) \/ Resolve(i) PROVE LeaseStep
  BY <1>0, <1>7, LeaseClose DEF Acknowledge, Resolve
<1>8. ASSUME NEW i \in Incidents, Elapse(i) PROVE LeaseStep
  <2>1. UNCHANGED <<due, fire>>
    BY <1>8 DEF Elapse
  <2> QED BY <1>0, <1>8, <2>1, ElapseEffect, LeaseTable DEF SameStatus, SamePosition
<1>9. ASSUME NEW s \in Services, RemoveService(s) PROVE LeaseStep
  BY <1>9, LeaseRemove
<1>10. ASSUME NEW q \in Policies, EditPolicy(q) PROVE LeaseStep
  BY <1>1, <1>10 DEF EditPolicy
<1>11. CASE Restart
  BY <1>11, LeaseRestart
<1>12. CASE UNCHANGED vars
  BY <1>1, <1>12 DEF vars
<1> QED
  BY <1>2, <1>3, <1>4, <1>5, <1>6, <1>7, <1>8, <1>9, <1>10, <1>11, <1>12
  DEF Next, RequestStep

LEMMA LeaseInit == Init => Lease!Init
<1> SUFFICES ASSUME Init PROVE Lease!Init
  OBVIOUS
<1>1. \A i \in Incidents : /\ incidents[i].status = "free"
                           /\ incidents[i].rep = 0 /\ incidents[i].step = 0
  BY DEF Init, StoreInit, FreeRow
<1>2. \A i \in Incidents : leaseOf(i) = "none"
  BY DEF Init, IdleFrame, leaseOf, Claimed, Queued
<1> QED BY <1>1, <1>2 DEF Lease!Init

(* Handlers and the engine page as if every incident were leased to whoever   *)
(* fires it: with no lock in the code, whatever is edited or deleted, fails   *)
(* or restarts, an incident is picked up only while triggered and by one at a *)
(* time, paged at most once per pick-up, and its position only moves on.      *)
THEOREM EscalationImplementsLease == Spec => ImplementsLease
<1>1. LeaseInv /\ LeaseInv' /\ [Next]_vars => [Lease!Next]_(Lease!leaseVars)
  BY LeaseNext DEF LeaseStep
<1> QED
  BY <1>1, LeaseInit, LeaseInvInit, LeaseInvNext, PTL DEF Spec, ImplementsLease, Lease!Spec
=============================================================================
