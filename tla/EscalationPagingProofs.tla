----------------------- MODULE EscalationPagingProofs -----------------------
(***************************************************************************)
(* Proofs about the pages Escalation sends: how many go out after an       *)
(* incident was closed, in what order a policy's steps fire, that none     *)
(* fires twice, that none is left out, and that nothing stops in silence.  *)
(* They build on the exclusiveness that EscalationProofs establishes.      *)
(***************************************************************************)
EXTENDS EscalationProofs, FiniteSetTheorems

USE DEF Actors, Busy

(* Once a page has gone out late, its sender is past the page and the        *)
(* incident is no longer triggered, so nobody else can pick it up.           *)
LateSpent ==
    \A i \in Incidents : late[i] > 0 =>
        /\ late[i] = 1
        /\ incidents[i].status \notin {"free", "triggered"}
        /\ \A d \in due : d.inc # i
        /\ \A p \in Actors : Busy(p) /\ fire[p].inc = i => fire[p].pc = "commit"

LateInv == ExclInv /\ LateSpent

LEMMA LateInit == Init => LateInv
  BY ExclInit DEF Init, LateInv, LateSpent

(* Steps that send no page and pick up no incident. *)
LEMMA LateKept ==
  ASSUME LateInv,
         \A i \in Incidents : late'[i] = late[i] \/ late'[i] = 0,
         \A i \in Incidents :
            incidents'[i].status \in {"free", "triggered"} =>
              incidents[i].status \in {"free", "triggered"},
         due' \subseteq due,
         \A p \in Actors : Busy(p)' =>
            \/ fire'[p] = fire[p]
            \/ Busy(p) /\ fire[p].pc # "commit" /\ fire'[p].inc = fire[p].inc
  PROVE  LateSpent'
<1> SUFFICES ASSUME NEW i \in Incidents, late'[i] > 0
             PROVE  /\ late'[i] = 1
                    /\ incidents'[i].status \notin {"free", "triggered"}
                    /\ \A d \in due' : d.inc # i
                    /\ \A p \in Actors : Busy(p)' /\ fire'[p].inc = i => fire'[p].pc = "commit"
  BY DEF LateSpent
<1>1. late'[i] = late[i]
  OBVIOUS
<1>2. /\ late[i] = 1
      /\ incidents[i].status \notin {"free", "triggered"}
      /\ \A d \in due : d.inc # i
      /\ \A p \in Actors : Busy(p) /\ fire[p].inc = i => fire[p].pc = "commit"
  BY <1>1 DEF LateInv, LateSpent
<1> QED
  BY <1>1, <1>2

LEMMA LateNotify ==
  ASSUME LateInv, NEW p \in Actors, Notify(p) PROVE LateSpent'
<1> DEFINE i == fire[p].inc
<1>1. /\ i \in Incidents /\ Busy(p) /\ fire[p].pc = "notify"
      /\ fire \in [Actors -> Frame] /\ late \in [Incidents -> Nat]
  BY DEF Notify, LateInv, ExclInv, TypeInv, TypeOK, WellFormed
<1>2. late[i] = 0
  BY <1>1 DEF LateInv, LateSpent
<1>3. /\ \A q \in Actors : q # p => fire'[q] = fire[q]
      /\ fire'[p].pc = "commit" /\ fire'[p].inc = i
      /\ UNCHANGED <<incidents, due>>
  BY <1>1 DEF Notify, Goto, Frame
<1>4. /\ \A q \in Actors : Busy(q) /\ fire[q].inc = i => q = p
      /\ \A d \in due : d.inc # i
  BY <1>1 DEF LateInv, ExclInv, FireExclusive, Queued
<1>5. CASE incidents[i].status \in Closed
  <2>1. late' = [late EXCEPT ![i] = late[i] + 1]
    BY <1>5 DEF Notify
  <2>2. late'[i] = 1 /\ \A j \in Incidents : j # i => late'[j] = late[j]
    BY <1>1, <1>2, <2>1
  <2> HIDE DEF i
  <2> QED
    BY <1>1, <1>3, <1>4, <1>5, <2>2 DEF LateInv, LateSpent, Closed
<1>6. CASE incidents[i].status \notin Closed
  <2>1. UNCHANGED late
    BY <1>6 DEF Notify
  <2> HIDE DEF i
  <2> QED
    BY <1>1, <1>2, <1>3, <2>1 DEF LateInv, LateSpent
<1> QED
  BY <1>5, <1>6

LEMMA LateNext == LateInv /\ [Next]_vars => LateInv'
<1> SUFFICES ASSUME LateInv, [Next]_vars PROVE LateInv'
  OBVIOUS
<1>0. ExclInv /\ ExclInv' /\ TypeInv /\ fire \in [Actors -> Frame]
  BY ExclNext DEF LateInv, ExclInv, TypeInv, TypeOK
<1> SUFFICES LateSpent'
  BY <1>0 DEF LateInv
<1>1. CASE UNCHANGED vars
  BY <1>1, LateKept DEF vars
<1>2. CASE Tick
  <2>1. UNCHANGED <<incidents, fire, late>>
    BY <1>2 DEF Tick
  <2>2. \A d \in due' : incidents[d.inc].status = "triggered"
    BY <1>2 DEF Tick, DueForEscalation
  <2> QED
    BY <2>1, <2>2 DEF LateInv, LateSpent
<1>3. CASE TickNext
  <2>1. PICK d \in due :
          /\ due' = due \ {d}
          /\ fire' = [fire EXCEPT ![Engine] =
                        [pc |-> "load", inc |-> d.inc, step |-> d.step + 1, rep |-> d.rep]]
    BY <1>3 DEF TickNext
  <2>2. fire'[Engine].inc = d.inc /\ \A q \in Actors : q # Engine => fire'[q] = fire[q]
    BY <1>0, <2>1
  <2>3. UNCHANGED <<incidents, late>>
    BY <1>3 DEF TickNext
  <2> QED
    BY <2>1, <2>2, <2>3 DEF LateInv, LateSpent
<1>4. ASSUME NEW p \in Actors, LoadSteps(p) \/ LoadPolicy(p) \/ LogExhausted(p) \/ FireError(p)
      PROVE  LateSpent'
  <2>1. UNCHANGED <<incidents, due, late>>
    BY <1>4 DEF LoadSteps, LoadPolicy, LogExhausted, FireError
  <2>2. \/ Return(p)
        \/ /\ fire[p].pc \notin {"idle", "commit"}
           /\ \/ Goto(p, "notify") \/ Goto(p, "policy") \/ Goto(p, "log") \/ Goto(p, "stop")
              \/ fire' = [fire EXCEPT ![p] = [pc |-> "load", inc |-> fire[p].inc,
                                              step |-> 0, rep |-> fire[p].rep + 1]]
    BY <1>4 DEF LoadSteps, LoadPolicy, LogExhausted, FireError
  <2>3. /\ \A q \in Actors : q # p => fire'[q] = fire[q]
        /\ Busy(p)' => Busy(p) /\ fire[p].pc # "commit" /\ fire'[p].inc = fire[p].inc
    BY <1>0, <2>2 DEF Frame, IdleFrame, Goto, Return
  <2> QED
    BY <2>1, <2>3, LateKept
<1>5. ASSUME NEW p \in Actors, Stop(p) \/ Commit(p)
      PROVE  LateSpent'
  <2>1. UNCHANGED <<due, late>> /\ fire' = [fire EXCEPT ![p] = IdleFrame]
    BY <1>5 DEF Stop, Commit, Return
  <2>2. /\ \A q \in Actors : q # p => fire'[q] = fire[q]
        /\ ~Busy(p)'
    BY <1>0, <2>1 DEF IdleFrame
  <2>3. fire[p].inc \in Incidents
    BY <1>0, <1>5 DEF Stop, Commit, TypeInv, WellFormed
  <2>4. \A j \in Incidents : incidents'[j].status = incidents[j].status
    BY <1>0, <1>5, <2>3, SetNextEffect DEF Stop, Commit
  <2> QED
    BY <2>1, <2>2, <2>4, LateKept
<1>6. ASSUME NEW w \in Workers, Create(w)
      PROVE  LateSpent'
  <2>1. PICK i \in Incidents :
          /\ CreateIncident(i, request[w].svc, request[w].fp)
          /\ fire' = [fire EXCEPT ![w] = [pc |-> "load", inc |-> i, step |-> 0, rep |-> 0]]
    BY <1>6 DEF Create
  <2>2. /\ incidents[i].status = "free"
        /\ \A j \in Incidents : j # i => incidents'[j] = incidents[j]
    BY <1>0, <2>1, CreateEffect
  <2>3. /\ UNCHANGED <<due, late>>
        /\ fire'[w].inc = i
        /\ \A q \in Actors : q # w => fire'[q] = fire[q]
    BY <1>0, <1>6, <2>1 DEF Create
  <2>4. ~(late[i] > 0)
    BY <2>2 DEF LateInv, LateSpent
  <2> QED
    BY <2>2, <2>3, <2>4 DEF LateInv, LateSpent
<1>7. ASSUME NEW w \in Workers,
             \/ Lookup(w) \/ CreateFails(w) \/ MatchResolved(w) \/ RequestError(w)
             \/ \E s \in Services, fp \in Fingerprints \cup {NoFingerprint} :
                   Ingest(w, s, fp) \/ SourceResolved(w, s, fp)
      PROVE  LateSpent'
  <2>1. UNCHANGED <<incidents, due, fire, late>>
    BY <1>7 DEF Lookup, CreateFails, MatchResolved, RequestError, Ingest, SourceResolved
  <2> QED
    BY <2>1, LateKept
<1>8. ASSUME NEW i \in Incidents, AcknowledgeIncident(i) \/ ResolveIncident(i),
             UNCHANGED <<due, fire, late>>
      PROVE  LateSpent'
  <2>1. \A j \in Incidents : incidents'[j].status \in {"free", "triggered"} =>
                               incidents'[j].status = incidents[j].status
    BY <1>0, <1>8, CloseEffect
  <2> QED
    BY <1>8, <2>1, LateKept
<1>9. ASSUME NEW w \in Workers, ResolveMatched(w)
      PROVE  LateSpent'
  BY <1>0, <1>8, <1>9 DEF ResolveMatched, TypeInv, WellFormed
<1>10. ASSUME NEW i \in Incidents, Acknowledge(i) \/ Resolve(i)
       PROVE  LateSpent'
  BY <1>8, <1>10 DEF Acknowledge, Resolve
<1>11. ASSUME NEW i \in Incidents, Elapse(i)
       PROVE  LateSpent'
  <2>1. UNCHANGED <<due, fire, late>>
    BY <1>11 DEF Elapse
  <2>2. \A j \in Incidents : incidents'[j].status = incidents[j].status
    BY <1>0, <1>11, ElapseEffect
  <2> QED
    BY <2>1, <2>2, LateKept
<1>12. ASSUME NEW s \in Services, RemoveService(s)
       PROVE  LateSpent'
  BY <1>0, <1>12, RemoveEffect, LateKept
<1>13. ASSUME NEW q \in Policies, EditPolicy(q)
       PROVE  LateSpent'
  <2>1. UNCHANGED <<incidents, due, fire, late>>
    BY <1>13 DEF EditPolicy
  <2> QED
    BY <2>1, LateKept
<1>14. CASE Restart
  <2>1. /\ UNCHANGED <<incidents, late>>
        /\ due' = {}
        /\ \A p \in Actors : ~Busy(p)'
    BY <1>14 DEF Restart, IdleFrame
  <2> QED
    BY <2>1, LateKept
<1> QED
  BY <1>1, <1>2, <1>3, <1>4, <1>5, <1>6, <1>7, <1>9, <1>10, <1>11, <1>12, <1>13, <1>14,
     LateNotify
  DEF Next, FireStep, RequestStep

(* However acknowledgements and resolutions race the engine and the handlers, *)
(* and whatever fails, at most one page goes out for an incident after it was *)
(* closed: the step already picked up.                                        *)
THEOREM AtMostOneLatePage == Spec => []LatePageBound
<1>1. LateInv => LatePageBound
  BY DEF LateInv, LateSpent, ExclInv, TypeInv, TypeOK, LatePageBound
<1> QED
  BY <1>1, LateInit, LateNext, PTL DEF Spec

-----------------------------------------------------------------------------
(* Positions.  Whoever fires an incident works at a position its row has not  *)
(* passed, and the rows behind a queued snapshot have not moved.              *)
FrameAhead ==
    \A p \in Actors :
        Busy(p) /\ incidents[fire[p].inc].status \in Present =>
            Before(incidents[fire[p].inc].rep, incidents[fire[p].inc].step,
                   fire[p].rep, fire[p].step)

FreshId ==
    \A i \in Incidents : incidents[i].status = "free" =>
        incidents[i].step = 0 /\ incidents[i].rep = 0

PosInv == ExclInv /\ SnapshotFresh /\ FrameAhead /\ FreshId

(* What every part of this argument needs of the types. *)
LEMMA PosTypes ==
  ASSUME TypeInv
  PROVE  /\ \A i \in Incidents : incidents[i].step \in Nat /\ incidents[i].rep \in Nat
         /\ \A p \in Actors : fire[p].step \in Nat /\ fire[p].rep \in Nat
         /\ \A d \in due : d.inc \in Incidents /\ d.step \in Nat /\ d.rep \in Nat
         /\ \A p \in Actors : Busy(p) => fire[p].inc \in Incidents
         /\ fire \in [Actors -> Frame]
  BY StoreAssumption
  DEF TypeInv, TypeOK, StoreTypeOK, WellFormed, Row, Frame, Snapshot

LEMMA PosInit == Init => PosInv
<1> SUFFICES ASSUME Init PROVE PosInv
  OBVIOUS
<1>1. due = {} /\ \A p \in Actors : ~Busy(p)
  BY DEF Init, IdleFrame
<1>2. FreshId
  BY DEF Init, StoreInit, FreeRow, FreshId
<1> QED
  BY <1>1, <1>2, ExclInit DEF PosInv, SnapshotFresh, FrameAhead

(* Steps that store no position. *)
LEMMA PosKept ==
  ASSUME PosInv,
         \A i \in Incidents :
            incidents'[i].status \in Present \cup {"free"} =>
               /\ incidents[i].status \in Present <=> incidents'[i].status \in Present
               /\ incidents'[i].step = incidents[i].step
               /\ incidents'[i].rep = incidents[i].rep,
         \A i \in Incidents : incidents'[i].status = "free" => incidents[i].status = "free",
         due' \subseteq due,
         \A p \in Actors : Busy(p)' =>
            \/ fire'[p] = fire[p]
            \/ /\ Busy(p)
               /\ fire'[p].inc = fire[p].inc
               /\ Before(fire[p].rep, fire[p].step, fire'[p].rep, fire'[p].step)
               /\ fire'[p].step \in Nat /\ fire'[p].rep \in Nat
  PROVE  SnapshotFresh' /\ FrameAhead' /\ FreshId'
<1> USE PosTypes DEF PosInv, ExclInv
<1>1. SnapshotFresh'
  BY DEF SnapshotFresh
<1>2. FreshId'
  BY DEF FreshId
<1>3. ASSUME NEW p \in Actors, Busy(p)', incidents'[fire'[p].inc].status \in Present
      PROVE  Before(incidents'[fire'[p].inc].rep, incidents'[fire'[p].inc].step,
                    fire'[p].rep, fire'[p].step)
  <2> DEFINE i == fire[p].inc
  <2>1. Busy(p) /\ fire'[p].inc = i /\ i \in Incidents
    BY <1>3
  <2>2. /\ Before(incidents[i].rep, incidents[i].step, fire[p].rep, fire[p].step)
        /\ incidents'[i].rep = incidents[i].rep
        /\ incidents'[i].step = incidents[i].step
    BY <1>3, <2>1 DEF FrameAhead
  <2>3. \/ fire'[p] = fire[p]
        \/ /\ Before(fire[p].rep, fire[p].step, fire'[p].rep, fire'[p].step)
           /\ fire'[p].step \in Nat /\ fire'[p].rep \in Nat
    BY <1>3
  <2> HIDE DEF i
  <2>4. incidents[i].rep \in Nat /\ incidents[i].step \in Nat
        /\ fire[p].rep \in Nat /\ fire[p].step \in Nat
    BY <2>1
  <2> QED
    BY <2>1, <2>2, <2>3, <2>4 DEF Before
<1> QED
  BY <1>1, <1>2, <1>3 DEF FrameAhead

(* SetNextEscalation by the incident's only holder: the row catches up with   *)
(* the frame, and nobody else looks at it.                                    *)
LEMMA PosStored ==
  ASSUME PosInv, NEW p \in Actors, Stop(p) \/ Commit(p)
  PROVE  /\ SnapshotFresh' /\ FrameAhead' /\ FreshId'
         /\ \A i \in Incidents : incidents'[i].status \in Present =>
               Before(incidents[i].rep, incidents[i].step,
                      incidents'[i].rep, incidents'[i].step)
<1> DEFINE i == fire[p].inc
<1>1. /\ i \in Incidents /\ Busy(p)
      /\ TypeInv /\ FireExclusive
  BY DEF Stop, Commit, PosInv, ExclInv, TypeInv, WellFormed
<1>2. /\ \A j \in Incidents : incidents'[j].status = incidents[j].status
      /\ \A j \in Incidents : j # i => incidents'[j] = incidents[j]
      /\ incidents[i].status \in Present =>
           incidents'[i].step = fire[p].step /\ incidents'[i].rep = fire[p].rep
      /\ incidents[i].status \notin Present => incidents'[i] = incidents[i]
  BY <1>1, SetNextEffect DEF Stop, Commit
<1>3. UNCHANGED due /\ fire' = [fire EXCEPT ![p] = IdleFrame]
  BY DEF Stop, Commit, Return
<1>4. ~Busy(p)' /\ \A q \in Actors : q # p => fire'[q] = fire[q]
  BY <1>1, <1>3, PosTypes DEF IdleFrame
<1>5. /\ \A q \in Actors : q # p /\ Busy(q) => fire[q].inc # i
      /\ \A d \in due : d.inc # i
  BY <1>1 DEF FireExclusive, Queued
<1>6. incidents[i].status \in Present =>
        Before(incidents[i].rep, incidents[i].step, fire[p].rep, fire[p].step)
  BY <1>1 DEF PosInv, FrameAhead
<1> HIDE DEF i
<1>7. SnapshotFresh'
  BY <1>1, <1>2, <1>3, <1>5, PosTypes DEF PosInv, SnapshotFresh
<1>8. FrameAhead'
  BY <1>1, <1>2, <1>4, <1>5, PosTypes DEF PosInv, FrameAhead
<1>9. FreshId'
  BY <1>2 DEF PosInv, FreshId, Present
<1>10. \A j \in Incidents : incidents'[j].status \in Present =>
               Before(incidents[j].rep, incidents[j].step,
                      incidents'[j].rep, incidents'[j].step)
  BY <1>1, <1>2, <1>6, PosTypes DEF Before
<1> QED
  BY <1>7, <1>8, <1>9, <1>10

LEMMA PosTick ==
  ASSUME PosInv, Tick \/ TickNext
  PROVE  SnapshotFresh' /\ FrameAhead' /\ FreshId'
<1> USE PosTypes DEF PosInv, ExclInv
<1>1. CASE Tick
  <2>1. UNCHANGED <<incidents, fire>>
    BY <1>1 DEF Tick
  <2>2. \A d \in due' : d.step = incidents[d.inc].step /\ d.rep = incidents[d.inc].rep
    BY <1>1 DEF Tick
  <2> QED
    BY <2>1, <2>2 DEF SnapshotFresh, FrameAhead, FreshId
<1>2. CASE TickNext
  <2>1. PICK d \in due :
          /\ due' = due \ {d}
          /\ fire' = [fire EXCEPT ![Engine] =
                        [pc |-> "load", inc |-> d.inc, step |-> d.step + 1, rep |-> d.rep]]
    BY <1>2 DEF TickNext
  <2>2. UNCHANGED incidents
    BY <1>2 DEF TickNext
  <2>3. /\ fire'[Engine] = [pc |-> "load", inc |-> d.inc, step |-> d.step + 1, rep |-> d.rep]
        /\ \A q \in Actors : q # Engine => fire'[q] = fire[q]
    BY <2>1
  <2>4. incidents[d.inc].status \in Present =>
          Before(incidents[d.inc].rep, incidents[d.inc].step, d.rep, d.step + 1)
    BY DEF SnapshotFresh, Before
  <2> QED
    BY <2>1, <2>2, <2>3, <2>4 DEF SnapshotFresh, FrameAhead, FreshId
<1> QED
  BY <1>1, <1>2

LEMMA PosCreate ==
  ASSUME PosInv, NEW w \in Workers, Create(w)
  PROVE  /\ SnapshotFresh' /\ FrameAhead' /\ FreshId'
         /\ \A i \in Incidents : incidents'[i].status \in Present =>
               Before(incidents[i].rep, incidents[i].step,
                      incidents'[i].rep, incidents'[i].step)
<1> USE PosTypes DEF PosInv, ExclInv
<1>1. PICK i \in Incidents :
        /\ CreateIncident(i, request[w].svc, request[w].fp)
        /\ fire' = [fire EXCEPT ![w] = [pc |-> "load", inc |-> i, step |-> 0, rep |-> 0]]
  BY DEF Create
<1>2. /\ incidents[i].status = "free"
      /\ incidents'[i].status = "triggered"
      /\ incidents'[i].step = 0 /\ incidents'[i].rep = 0
      /\ \A j \in Incidents : j # i => incidents'[j] = incidents[j]
  BY <1>1, CreateEffect
<1>3. /\ UNCHANGED due
      /\ fire'[w] = [pc |-> "load", inc |-> i, step |-> 0, rep |-> 0]
      /\ \A q \in Actors : q # w => fire'[q] = fire[q]
  BY <1>1 DEF Create
<1>4. /\ \A q \in Actors : Busy(q) => fire[q].inc # i
      /\ \A d \in due : d.inc # i
  BY <1>2 DEF Handled
<1>5. SnapshotFresh'
  BY <1>2, <1>3, <1>4 DEF SnapshotFresh
<1>6. FrameAhead'
  BY <1>2, <1>3, <1>4 DEF FrameAhead, Before
<1>7. FreshId'
  BY <1>2 DEF FreshId
<1>8. \A j \in Incidents : incidents'[j].status \in Present =>
               Before(incidents[j].rep, incidents[j].step,
                      incidents'[j].rep, incidents'[j].step)
  BY <1>2 DEF FreshId, Before
<1> QED
  BY <1>5, <1>6, <1>7, <1>8

(* Every step keeps the invariant and moves no stored position back. *)
PosStep == /\ SnapshotFresh' /\ FrameAhead' /\ FreshId'
           /\ \A i \in Incidents : incidents'[i].status \in Present =>
                 Before(incidents[i].rep, incidents[i].step,
                        incidents'[i].rep, incidents'[i].step)

(* The frames that fireStep's steps between its statements leave behind. *)
LEMMA FrameMoves ==
  ASSUME TypeInv, NEW p \in Actors,
         LoadSteps(p) \/ LoadPolicy(p) \/ LogExhausted(p) \/ Notify(p) \/ FireError(p)
  PROVE  /\ UNCHANGED <<incidents, due>>
         /\ \A q \in Actors : q # p => fire'[q] = fire[q]
         /\ Busy(p)' =>
              /\ Busy(p)
              /\ fire'[p].inc = fire[p].inc
              /\ Before(fire[p].rep, fire[p].step, fire'[p].rep, fire'[p].step)
              /\ fire'[p].step \in Nat /\ fire'[p].rep \in Nat
<1>1. UNCHANGED <<incidents, due>>
  BY DEF LoadSteps, LoadPolicy, LogExhausted, Notify, FireError
<1>2. \/ Return(p)
      \/ /\ Busy(p)
         /\ \/ Goto(p, "notify") \/ Goto(p, "policy") \/ Goto(p, "log")
            \/ Goto(p, "stop") \/ Goto(p, "commit")
            \/ fire' = [fire EXCEPT ![p] = [pc |-> "load", inc |-> fire[p].inc,
                                            step |-> 0, rep |-> fire[p].rep + 1]]
  BY DEF LoadSteps, LoadPolicy, LogExhausted, Notify, FireError
<1>3. /\ fire \in [Actors -> Frame]
      /\ fire[p].step \in Nat /\ fire[p].rep \in Nat
  BY PosTypes
<1> QED
  BY <1>1, <1>2, <1>3 DEF Return, Goto, Frame, IdleFrame, Before

LEMMA PosNextStep ==
  ASSUME PosInv, [Next]_vars PROVE PosStep
<1>0. /\ TypeInv
      /\ \A i \in Incidents : incidents[i].step \in Nat /\ incidents[i].rep \in Nat
  BY PosTypes DEF PosInv, ExclInv
<1>1. ASSUME UNCHANGED <<incidents, due>>,
             \A p \in Actors : Busy(p)' =>
                \/ fire'[p] = fire[p]
                \/ /\ Busy(p)
                   /\ fire'[p].inc = fire[p].inc
                   /\ Before(fire[p].rep, fire[p].step, fire'[p].rep, fire'[p].step)
                   /\ fire'[p].step \in Nat /\ fire'[p].rep \in Nat
      PROVE  PosStep
  BY <1>0, <1>1, PosKept DEF PosStep, Before
<1>2. ASSUME UNCHANGED <<due, fire>>,
             \A i \in Incidents :
                incidents'[i].status \in Present \cup {"free"} =>
                   /\ incidents[i].status \in Present <=> incidents'[i].status \in Present
                   /\ incidents'[i].step = incidents[i].step
                   /\ incidents'[i].rep = incidents[i].rep,
             \A i \in Incidents : incidents'[i].status = "free" => incidents[i].status = "free"
      PROVE  PosStep
  BY <1>0, <1>2, PosKept DEF PosStep, Before
<1>3. CASE UNCHANGED vars
  BY <1>1, <1>3 DEF vars
<1>4. CASE Tick \/ TickNext
  <2>1. UNCHANGED incidents
    BY <1>4 DEF Tick, TickNext
  <2> QED
    BY <1>0, <1>4, <2>1, PosTick DEF PosStep, Before
<1>5. ASSUME NEW p \in Actors, FireStep(p) \/ FireError(p)
      PROVE  PosStep
  <2>1. CASE Stop(p) \/ Commit(p)
    BY <2>1, PosStored DEF PosStep
  <2>2. CASE LoadSteps(p) \/ LoadPolicy(p) \/ LogExhausted(p) \/ Notify(p) \/ FireError(p)
    BY <1>0, <1>1, <2>2, FrameMoves
  <2> QED
    BY <1>5, <2>1, <2>2 DEF FireStep
<1>6. ASSUME NEW w \in Workers, Create(w)
      PROVE  PosStep
  BY <1>6, PosCreate DEF PosStep
<1>7. ASSUME NEW w \in Workers,
             \/ Lookup(w) \/ CreateFails(w) \/ MatchResolved(w) \/ RequestError(w)
             \/ \E s \in Services, fp \in Fingerprints \cup {NoFingerprint} :
                   Ingest(w, s, fp) \/ SourceResolved(w, s, fp)
      PROVE  PosStep
  <2>1. UNCHANGED <<incidents, due, fire>>
    BY <1>7 DEF Lookup, CreateFails, MatchResolved, RequestError, Ingest, SourceResolved
  <2> QED
    BY <1>1, <2>1
<1>8. ASSUME NEW i \in Incidents, AcknowledgeIncident(i) \/ ResolveIncident(i),
             UNCHANGED <<due, fire>>
      PROVE  PosStep
  <2>1. \A j \in Incidents :
          /\ incidents'[j].step = incidents[j].step
          /\ incidents'[j].rep = incidents[j].rep
          /\ \/ incidents'[j] = incidents[j]
             \/ incidents[j].status \in Open /\ incidents'[j].status \in Closed
    BY <1>0, <1>8, CloseEffect DEF Open, Closed
  <2> QED
    BY <1>2, <1>8, <2>1 DEF Present, Open, Closed
<1>9. ASSUME NEW w \in Workers, ResolveMatched(w)
      PROVE  PosStep
  BY <1>0, <1>8, <1>9 DEF ResolveMatched, TypeInv, WellFormed
<1>10. ASSUME NEW i \in Incidents, Acknowledge(i) \/ Resolve(i)
       PROVE  PosStep
  BY <1>8, <1>10 DEF Acknowledge, Resolve
<1>11. ASSUME NEW i \in Incidents, Elapse(i)
       PROVE  PosStep
  <2>1. UNCHANGED <<due, fire>>
    BY <1>11 DEF Elapse
  <2>2. \A j \in Incidents : /\ incidents'[j].status = incidents[j].status
                             /\ incidents'[j].step = incidents[j].step
                             /\ incidents'[j].rep = incidents[j].rep
    BY <1>0, <1>11, ElapseEffect
  <2> QED
    BY <1>2, <2>1, <2>2
<1>12. ASSUME NEW s \in Services, RemoveService(s)
       PROVE  PosStep
  <2>1. /\ UNCHANGED <<due, fire>>
        /\ \A j \in Incidents : \/ incidents'[j] = incidents[j]
                                \/ incidents'[j].status = "deleted"
    BY <1>0, <1>12, RemoveEffect
  <2> QED
    BY <1>2, <2>1 DEF Present
<1>13. ASSUME NEW q \in Policies, EditPolicy(q)
       PROVE  PosStep
  <2>1. UNCHANGED <<incidents, due, fire>>
    BY <1>13 DEF EditPolicy
  <2> QED
    BY <1>1, <2>1
<1>14. CASE Restart
  <2>1. UNCHANGED incidents /\ due' = {} /\ \A p \in Actors : ~Busy(p)'
    BY <1>14 DEF Restart, IdleFrame
  <2> QED
    BY <1>0, <2>1, PosKept DEF PosStep, Before
<1> QED
  BY <1>3, <1>4, <1>5, <1>6, <1>7, <1>9, <1>10, <1>11, <1>12, <1>13, <1>14
  DEF Next, RequestStep

LEMMA PosNext == PosInv /\ [Next]_vars => PosInv'
  BY PosNextStep, ExclNext DEF PosInv, PosStep

LEMMA PosAlways == Spec => []PosInv
  BY PosInit, PosNext, PTL DEF Spec

(* Until the engine gets to an incident of its snapshot, the row's position   *)
(* is still the one the snapshot holds, however long the sends before it      *)
(* took: what it computes the next step from is not stale.                    *)
THEOREM SnapshotsStayFresh == Spec => []SnapshotFresh
  BY PosAlways, PTL DEF PosInv

-----------------------------------------------------------------------------
(* The order of pages.  An armed row and a queued snapshot stand at a step    *)
(* that has fired; a frame stands at the step to fire next.                   *)
HasPaged(i, r, k) == <<r, k>> \in fired[i]

RowPaged ==
    \A i \in Incidents :
        incidents[i].status \in Present /\ incidents[i].next # "none" =>
            HasPaged(i, incidents[i].rep, incidents[i].step)

QueuePaged ==
    \A d \in due : incidents[d.inc].status \in Present => HasPaged(d.inc, d.rep, d.step)

FrameOK(f) ==
    /\ f.pc = "policy" => f.step > 0
    /\ f.pc = "commit" => HasPaged(f.inc, f.rep, f.step)
    /\ f.pc # "commit" /\ f.step > 0 => HasPaged(f.inc, f.rep, f.step - 1)
    /\ f.pc # "commit" /\ f.step = 0 /\ f.rep > 0 =>
          \E k \in 0..MaxSteps : HasPaged(f.inc, f.rep - 1, k)

FramePaged ==
    \A p \in Actors :
        Busy(p) /\ incidents[fire[p].inc].status \in Present => FrameOK(fire[p])

OrderParts == EscalationOrder /\ RowPaged /\ QueuePaged /\ FramePaged

OrderInv == PosInv /\ OrderParts

LEMMA OrderInit == Init => OrderInv
<1> SUFFICES ASSUME Init PROVE OrderInv
  OBVIOUS
<1>1. due = {} /\ \A p \in Actors : ~Busy(p)
  BY DEF Init, IdleFrame
<1>2. \A i \in Incidents : fired[i] = {} /\ incidents[i].next = "none"
  BY DEF Init, StoreInit, FreeRow
<1> QED
  BY <1>1, <1>2, PosInit
  DEF OrderInv, OrderParts, EscalationOrder, RowPaged, QueuePaged, FramePaged

(* Steps that send nothing, leave every frame as it is or drop it, and arm    *)
(* no row.                                                                    *)
LEMMA OrderKept ==
  ASSUME OrderInv,
         \A i \in Incidents :
            \/ /\ incidents'[i].status \in Present => incidents[i].status \in Present
               /\ incidents'[i].step = incidents[i].step
               /\ incidents'[i].rep = incidents[i].rep
               /\ incidents'[i].next # "none" => incidents[i].next # "none"
               /\ fired'[i] = fired[i]
            \/ incidents'[i].status \notin Present /\ fired'[i] = {},
         due' \subseteq due,
         \A p \in Actors : Busy(p)' => fire'[p] = fire[p]
  PROVE  OrderParts'
<1>1. EscalationOrder'
  BY DEF OrderInv, OrderParts, EscalationOrder
<1>2. RowPaged'
  BY DEF OrderInv, OrderParts, RowPaged, HasPaged
<1>3. \A d \in due : d.inc \in Incidents
  BY PosTypes DEF OrderInv, PosInv, ExclInv
<1>4. QueuePaged'
  BY <1>3 DEF OrderInv, OrderParts, QueuePaged, HasPaged
<1>5. \A p \in Actors : Busy(p) => fire[p].inc \in Incidents
  BY PosTypes DEF OrderInv, PosInv, ExclInv
<1>6. FramePaged'
  <2> SUFFICES ASSUME NEW p \in Actors, Busy(p)', incidents'[fire'[p].inc].status \in Present
               PROVE  FrameOK(fire[p])'
    BY DEF FramePaged
  <2>1. Busy(p) /\ fire'[p] = fire[p] /\ fire[p].inc \in Incidents
    BY <1>5
  <2>2. incidents[fire[p].inc].status \in Present /\ fired'[fire[p].inc] = fired[fire[p].inc]
    BY <2>1
  <2>3. FrameOK(fire[p])
    BY <2>1, <2>2 DEF OrderInv, OrderParts, FramePaged
  <2> QED
    BY <2>1, <2>2, <2>3 DEF FrameOK, HasPaged
<1> QED
  BY <1>1, <1>2, <1>4, <1>6 DEF OrderParts

(* One actor's frame moves; nothing is sent and no row changes. *)
LEMMA OrderFrame ==
  ASSUME OrderInv, NEW p \in Actors,
         UNCHANGED <<incidents, fired>>, due' \subseteq due,
         \A q \in Actors : q # p => fire'[q] = fire[q],
         Busy(p)' /\ incidents[fire'[p].inc].status \in Present => FrameOK(fire'[p])
  PROVE  OrderParts'
<1>1. EscalationOrder' /\ RowPaged' /\ QueuePaged'
  BY DEF OrderInv, OrderParts, EscalationOrder, RowPaged, QueuePaged, HasPaged
<1>2. ASSUME NEW q \in Actors, Busy(q)', incidents'[fire'[q].inc].status \in Present
      PROVE  FrameOK(fire[q])'
  <2>1. FrameOK(fire'[q])
    BY <1>2 DEF OrderInv, OrderParts, FramePaged
  <2> QED
    BY <2>1 DEF FrameOK, HasPaged
<1> QED
  BY <1>1, <1>2 DEF OrderParts, FramePaged

LEMMA OrderNotify ==
  ASSUME OrderInv, NEW p \in Actors, Notify(p) PROVE OrderParts'
<1> DEFINE i == fire[p].inc
           r == fire[p].rep
           k == fire[p].step
<1>1. TypeInv /\ FireExclusive
  BY DEF OrderInv, PosInv, ExclInv
<1>2. /\ i \in Incidents /\ r \in Nat /\ k \in Nat /\ k <= MaxSteps /\ Busy(p)
      /\ fire[p].pc = "notify" /\ fire[p] \in Frame
      /\ fire \in [Actors -> Frame] /\ fired \in [Incidents -> SUBSET Positions]
  BY <1>1, PosTypes, StoreAssumption DEF Notify, TypeInv, TypeOK, Frame
<1>3. /\ UNCHANGED <<incidents, due>>
      /\ fire' = [fire EXCEPT ![p].pc = "commit"]
  BY DEF Notify, Goto
<1>4. /\ \A q \in Actors : q # p => fire'[q] = fire[q]
      /\ fire'[p].pc = "commit" /\ fire'[p].inc = i
      /\ fire'[p].rep = r /\ fire'[p].step = k
  BY <1>2, <1>3 DEF Frame
<1>5. \A q \in Actors : q # p /\ Busy(q) => fire[q].inc # i
  BY <1>1, <1>2 DEF FireExclusive
<1>6. CASE incidents[i].status \in Present
  <2>1. fired' = [fired EXCEPT ![i] = fired[i] \cup {<<r, k>>}]
    BY <1>6 DEF Notify
  <2>2. /\ fired'[i] = fired[i] \cup {<<r, k>>}
        /\ \A j \in Incidents : j # i => fired'[j] = fired[j]
    BY <1>2, <2>1
  <2>3. FrameOK(fire[p])
    BY <1>2, <1>6 DEF OrderInv, OrderParts, FramePaged
  <2> HIDE DEF i, r, k
  <2>4. /\ k > 0 => <<r, k - 1>> \in fired[i]
        /\ r > 0 => \E j \in 0..MaxSteps : <<r - 1, j>> \in fired[i]
    <3>1. k > 0 => <<r, k - 1>> \in fired[i]
      BY <1>2, <2>3 DEF FrameOK, HasPaged, i, r, k
    <3>2. k = 0 /\ r > 0 => \E j \in 0..MaxSteps : <<r - 1, j>> \in fired[i]
      BY <1>2, <2>3 DEF FrameOK, HasPaged, i, r, k
    <3>3. k > 0 /\ r > 0 => \E j \in 0..MaxSteps : <<r - 1, j>> \in fired[i]
      BY <1>2, <3>1 DEF OrderInv, OrderParts, EscalationOrder
    <3> QED
      BY <1>2, <3>1, <3>2, <3>3
  <2>5. EscalationOrder'
    <3> SUFFICES ASSUME NEW j \in Incidents, NEW pos \in fired'[j]
                 PROVE  /\ pos[2] > 0 => <<pos[1], pos[2] - 1>> \in fired'[j]
                        /\ pos[1] > 0 => \E l \in 0..MaxSteps : <<pos[1] - 1, l>> \in fired'[j]
      BY DEF EscalationOrder
    <3>1. CASE pos \in fired[j]
      BY <2>2, <3>1 DEF OrderInv, OrderParts, EscalationOrder
    <3>2. CASE j = i /\ pos = <<r, k>>
      BY <2>2, <2>4, <3>2
    <3> QED
      BY <2>2, <3>1, <3>2
  <2>6. RowPaged' /\ QueuePaged'
    <3>1. \A j \in Incidents : fired[j] \subseteq fired'[j]
      BY <2>2
    <3>2. \A d \in due : d.inc \in Incidents
      BY <1>1, PosTypes
    <3> QED
      BY <1>3, <3>1, <3>2 DEF OrderInv, OrderParts, RowPaged, QueuePaged, HasPaged
  <2>7. ASSUME NEW q \in Actors, Busy(q)', incidents'[fire'[q].inc].status \in Present
        PROVE  FrameOK(fire[q])'
    <3>1. CASE q = p
      BY <1>2, <1>4, <2>2, <3>1 DEF FrameOK, HasPaged
    <3>2. CASE q # p
      <4>1. fire'[q] = fire[q] /\ fire[q].inc \in Incidents /\ fire[q].inc # i
        BY <1>1, <1>4, <1>5, <2>7, <3>2, PosTypes
      <4>2. FrameOK(fire[q])
        BY <1>3, <2>7, <4>1 DEF OrderInv, OrderParts, FramePaged
      <4> QED
        BY <2>2, <4>1, <4>2 DEF FrameOK, HasPaged
    <3> QED
      BY <3>1, <3>2
  <2> QED
    BY <2>5, <2>6, <2>7 DEF OrderParts, FramePaged
<1>7. CASE incidents[i].status \notin Present
  <2>1. UNCHANGED fired
    BY <1>7 DEF Notify
  <2> HIDE DEF i
  <2> QED
    BY <1>3, <1>4, <1>7, <2>1, OrderFrame
<1> QED
  BY <1>6, <1>7

LEMMA OrderStored ==
  ASSUME OrderInv, NEW p \in Actors, Stop(p) \/ Commit(p) PROVE OrderParts'
<1> DEFINE i == fire[p].inc
<1>1. TypeInv /\ FireExclusive
  BY DEF OrderInv, PosInv, ExclInv
<1>2. i \in Incidents /\ Busy(p)
  BY <1>1, PosTypes DEF Stop, Commit
<1>3. /\ \A j \in Incidents : incidents'[j].status = incidents[j].status
      /\ \A j \in Incidents : j # i => incidents'[j] = incidents[j]
      /\ incidents[i].status \in Present =>
           /\ incidents'[i].step = fire[p].step /\ incidents'[i].rep = fire[p].rep
           /\ incidents'[i].next = "none" \/ fire[p].pc = "commit"
      /\ incidents[i].status \notin Present => incidents'[i] = incidents[i]
  BY <1>1, <1>2, SetNextEffect DEF Stop, Commit
<1>4. /\ UNCHANGED <<due, fired>> /\ fire' = [fire EXCEPT ![p] = IdleFrame]
  BY DEF Stop, Commit, Return
<1>5. ~Busy(p)' /\ \A q \in Actors : q # p => fire'[q] = fire[q]
  BY <1>1, <1>4, PosTypes DEF IdleFrame
<1>6. incidents[i].status \in Present /\ fire[p].pc = "commit" =>
        HasPaged(i, fire[p].rep, fire[p].step)
  BY <1>2 DEF OrderInv, OrderParts, FramePaged, FrameOK
<1> HIDE DEF i
<1>7. EscalationOrder' /\ QueuePaged'
  BY <1>1, <1>3, <1>4, PosTypes
  DEF OrderInv, OrderParts, EscalationOrder, QueuePaged, HasPaged
<1>8. RowPaged'
  BY <1>3, <1>4, <1>6 DEF OrderInv, OrderParts, RowPaged, HasPaged
<1>9. ASSUME NEW q \in Actors, Busy(q)', incidents'[fire'[q].inc].status \in Present
      PROVE  FrameOK(fire[q])'
  <2>1. q # p /\ fire'[q] = fire[q] /\ fire[q].inc \in Incidents
    BY <1>1, <1>5, <1>9, PosTypes
  <2>2. FrameOK(fire[q])
    BY <1>3, <1>9, <2>1 DEF OrderInv, OrderParts, FramePaged
  <2> QED
    BY <1>4, <2>1, <2>2 DEF FrameOK, HasPaged
<1> QED
  BY <1>7, <1>8, <1>9 DEF OrderParts, FramePaged

LEMMA OrderLoad ==
  ASSUME OrderInv, NEW p \in Actors,
         LoadSteps(p) \/ LoadPolicy(p) \/ LogExhausted(p) \/ FireError(p)
  PROVE  OrderParts'
<1>1. /\ TypeInv /\ fire \in [Actors -> Frame] /\ fire[p] \in Frame
      /\ fire[p].step \in Nat /\ fire[p].rep \in Nat
  BY PosTypes DEF OrderInv, PosInv, ExclInv
<1>2. UNCHANGED <<incidents, due, fired>>
  BY DEF LoadSteps, LoadPolicy, LogExhausted, FireError
<1>3. \/ Return(p)
      \/ fire[p].pc \notin {"idle", "commit"}
           /\ (Goto(p, "notify") \/ Goto(p, "log") \/ Goto(p, "stop"))
      \/ fire[p].pc = "load" /\ Goto(p, "policy") /\ LoadSteps(p)
      \/ /\ fire[p].pc = "policy"
         /\ fire' = [fire EXCEPT ![p] = [pc |-> "load", inc |-> fire[p].inc,
                                         step |-> 0, rep |-> fire[p].rep + 1]]
  BY DEF LoadSteps, LoadPolicy, LogExhausted, FireError
<1>4. \A q \in Actors : q # p => fire'[q] = fire[q]
  BY <1>1, <1>3 DEF Return, Goto
<1>5. fire[p].pc # "idle" /\ incidents[fire[p].inc].status \in Present => FrameOK(fire[p])
  BY DEF OrderInv, OrderParts, FramePaged
<1>6. ASSUME Busy(p)', incidents[fire'[p].inc].status \in Present
      PROVE  FrameOK(fire'[p])
  <2>1. CASE fire[p].pc \notin {"idle", "commit"}
               /\ (Goto(p, "notify") \/ Goto(p, "log") \/ Goto(p, "stop"))
    <3>1. /\ fire'[p].inc = fire[p].inc /\ fire'[p].step = fire[p].step
          /\ fire'[p].rep = fire[p].rep /\ fire'[p].pc \in {"notify", "log", "stop"}
      BY <1>1, <2>1 DEF Goto, Frame
    <3> QED
      BY <1>5, <1>6, <2>1, <3>1 DEF FrameOK
  <2>2. CASE fire[p].pc = "load" /\ Goto(p, "policy") /\ LoadSteps(p)
    <3>1. /\ fire'[p].inc = fire[p].inc /\ fire'[p].step = fire[p].step
          /\ fire'[p].rep = fire[p].rep /\ fire'[p].pc = "policy"
      BY <1>1, <2>2 DEF Goto, Frame
    <3>2. fire[p].step > 0
      <4> DEFINE len == policies[policyOfFrame(p)].len
      <4>1. incidents[fire[p].inc].svc \in services
        BY <1>1, <2>2, <3>1 DEF LoadSteps, Return, IdleFrame
      <4>2. len \in Nat
        <5>1. policyOfFrame(p) \in Policies
          BY <4>1, <1>1, StoreAssumption DEF policyOfFrame, TypeInv, TypeOK, StoreTypeOK
        <5> QED
          BY <5>1, <1>1, StoreAssumption DEF TypeInv, TypeOK, StoreTypeOK, Policy
      <4>3. fire' = [fire EXCEPT ![p].pc = IF fire[p].step < len THEN "notify"
                                           ELSE IF len = 0 THEN "log" ELSE "policy"]
        BY <4>1, <2>2 DEF LoadSteps, Goto
      <4> HIDE DEF len
      <4>4. ~(fire[p].step < len) /\ len # 0
        BY <1>1, <3>1, <4>3 DEF Frame
      <4> QED
        BY <1>1, <4>2, <4>4
    <3> QED
      BY <1>5, <1>6, <2>2, <3>1, <3>2 DEF FrameOK
  <2>3. CASE /\ fire[p].pc = "policy"
             /\ fire' = [fire EXCEPT ![p] = [pc |-> "load", inc |-> fire[p].inc,
                                             step |-> 0, rep |-> fire[p].rep + 1]]
    <3>1. /\ fire'[p].inc = fire[p].inc /\ fire'[p].step = 0
          /\ fire'[p].rep = fire[p].rep + 1 /\ fire'[p].pc = "load"
      BY <1>1, <2>3
    <3>2. fire[p].step > 0 /\ HasPaged(fire[p].inc, fire[p].rep, fire[p].step - 1)
      BY <1>5, <1>6, <2>3, <3>1 DEF FrameOK
    <3>3. fire[p].step - 1 \in 0..MaxSteps /\ fire'[p].rep - 1 = fire[p].rep
      BY <1>1, <3>1, <3>2, StoreAssumption DEF Frame
    <3> QED
      BY <3>1, <3>2, <3>3 DEF FrameOK
  <2>4. CASE Return(p)
    BY <1>1, <1>6, <2>4 DEF Return, IdleFrame
  <2> QED
    BY <1>3, <2>1, <2>2, <2>3, <2>4
<1> QED
  BY <1>2, <1>4, <1>6, OrderFrame

LEMMA OrderTick ==
  ASSUME OrderInv, Tick \/ TickNext PROVE OrderParts'
<1>1. CASE Tick
  <2>1. UNCHANGED <<incidents, fire, fired>>
    BY <1>1 DEF Tick
  <2>2. \A d \in due' : /\ d.inc \in Incidents /\ incidents[d.inc].next = "due"
                        /\ d.step = incidents[d.inc].step /\ d.rep = incidents[d.inc].rep
    BY <1>1 DEF Tick, DueForEscalation
  <2>3. QueuePaged'
    BY <2>1, <2>2 DEF OrderInv, OrderParts, RowPaged, QueuePaged, HasPaged
  <2>4. EscalationOrder' /\ RowPaged' /\ FramePaged'
    BY <2>1 DEF OrderInv, OrderParts, EscalationOrder, RowPaged, FramePaged, FrameOK, HasPaged
  <2> QED
    BY <2>3, <2>4 DEF OrderParts
<1>2. CASE TickNext
  <2>1. PICK d \in due :
          /\ due' = due \ {d}
          /\ fire' = [fire EXCEPT ![Engine] =
                        [pc |-> "load", inc |-> d.inc, step |-> d.step + 1, rep |-> d.rep]]
    BY <1>2 DEF TickNext
  <2>2. UNCHANGED <<incidents, fired>>
    BY <1>2 DEF TickNext
  <2>3. /\ fire'[Engine] = [pc |-> "load", inc |-> d.inc, step |-> d.step + 1, rep |-> d.rep]
        /\ \A q \in Actors : q # Engine => fire'[q] = fire[q]
        /\ d.step \in Nat
    BY <2>1, PosTypes DEF OrderInv, PosInv, ExclInv
  <2>4. incidents[d.inc].status \in Present => HasPaged(d.inc, d.rep, d.step)
    BY DEF OrderInv, OrderParts, QueuePaged
  <2>5. incidents[d.inc].status \in Present => FrameOK(fire'[Engine])
    <3>1. fire'[Engine].step > 0 /\ fire'[Engine].step - 1 = d.step
      BY <2>3
    <3> QED
      BY <2>3, <2>4, <3>1 DEF FrameOK
  <2> QED
    BY <2>1, <2>2, <2>3, <2>5, OrderFrame
<1> QED
  BY <1>1, <1>2

LEMMA OrderCreate ==
  ASSUME OrderInv, NEW w \in Workers, Create(w) PROVE OrderParts'
<1>1. TypeInv /\ Handled
  BY DEF OrderInv, PosInv, ExclInv
<1>2. PICK i \in Incidents :
        /\ CreateIncident(i, request[w].svc, request[w].fp)
        /\ fire' = [fire EXCEPT ![w] = [pc |-> "load", inc |-> i, step |-> 0, rep |-> 0]]
  BY DEF Create
<1>3. /\ incidents[i].status = "free"
      /\ incidents'[i].next = "none"
      /\ \A j \in Incidents : j # i => incidents'[j] = incidents[j]
  BY <1>1, <1>2, CreateEffect
<1>4. /\ UNCHANGED <<due, fired>>
      /\ fire'[w] = [pc |-> "load", inc |-> i, step |-> 0, rep |-> 0]
      /\ \A q \in Actors : q # w => fire'[q] = fire[q]
  BY <1>1, <1>2, PosTypes DEF Create
<1>5. /\ \A q \in Actors : Busy(q) => fire[q].inc \in Incidents /\ fire[q].inc # i
      /\ \A d \in due : d.inc \in Incidents /\ d.inc # i
  BY <1>1, <1>3, PosTypes DEF Handled
<1>6. EscalationOrder' /\ RowPaged' /\ QueuePaged'
  BY <1>3, <1>4, <1>5
  DEF OrderInv, OrderParts, EscalationOrder, RowPaged, QueuePaged, HasPaged
<1>7. ASSUME NEW q \in Actors, Busy(q)', incidents'[fire'[q].inc].status \in Present
      PROVE  FrameOK(fire[q])'
  <2>1. CASE q = w
    BY <1>4, <2>1 DEF FrameOK
  <2>2. CASE q # w
    <3>1. fire'[q] = fire[q] /\ incidents'[fire[q].inc] = incidents[fire[q].inc]
      BY <1>3, <1>4, <1>5, <1>7, <2>2
    <3>2. FrameOK(fire[q])
      BY <1>7, <3>1 DEF OrderInv, OrderParts, FramePaged
    <3> QED
      BY <1>4, <3>1, <3>2 DEF FrameOK, HasPaged
  <2> QED
    BY <2>1, <2>2
<1> QED
  BY <1>6, <1>7 DEF OrderParts, FramePaged

(* Arming by the clock: a row that was armed already. *)
LEMMA OrderElapse ==
  ASSUME OrderInv, NEW i \in Incidents, Elapse(i) PROVE OrderParts'
<1>1. /\ incidents[i].next = "future"
      /\ \A j \in Incidents : /\ incidents'[j].status = incidents[j].status
                              /\ incidents'[j].step = incidents[j].step
                              /\ incidents'[j].rep = incidents[j].rep
      /\ \A j \in Incidents : j # i => incidents'[j] = incidents[j]
  BY ElapseEffect DEF OrderInv, PosInv, ExclInv
<1>2. UNCHANGED <<due, fire, fired>>
  BY DEF Elapse
<1> QED
  BY <1>1, <1>2, OrderKept

LEMMA OrderNext == OrderInv /\ [Next]_vars => OrderInv'
<1> SUFFICES ASSUME OrderInv, [Next]_vars PROVE OrderInv'
  OBVIOUS
<1>0. PosInv' /\ TypeInv
  BY PosNext DEF OrderInv, PosInv, ExclInv
<1> SUFFICES OrderParts'
  BY <1>0 DEF OrderInv
<1>1. CASE UNCHANGED vars
  BY <1>1, OrderKept DEF vars
<1>2. CASE Tick \/ TickNext
  BY <1>2, OrderTick
<1>3. ASSUME NEW p \in Actors, FireStep(p) \/ FireError(p)
      PROVE  OrderParts'
  BY <1>3, OrderLoad, OrderNotify, OrderStored DEF FireStep
<1>4. ASSUME NEW w \in Workers, Create(w)
      PROVE  OrderParts'
  BY <1>4, OrderCreate
<1>5. ASSUME NEW w \in Workers,
             \/ Lookup(w) \/ CreateFails(w) \/ MatchResolved(w) \/ RequestError(w)
             \/ \E s \in Services, fp \in Fingerprints \cup {NoFingerprint} :
                   Ingest(w, s, fp) \/ SourceResolved(w, s, fp)
      PROVE  OrderParts'
  <2>1. UNCHANGED <<incidents, due, fire, fired>>
    BY <1>5 DEF Lookup, CreateFails, MatchResolved, RequestError, Ingest, SourceResolved
  <2> QED
    BY <2>1, OrderKept
<1>6. ASSUME NEW i \in Incidents, AcknowledgeIncident(i) \/ ResolveIncident(i),
             UNCHANGED <<due, fire, fired>>
      PROVE  OrderParts'
  <2>1. \A j \in Incidents :
          /\ incidents'[j].step = incidents[j].step
          /\ incidents'[j].rep = incidents[j].rep
          /\ \/ incidents'[j] = incidents[j]
             \/ incidents[j].status \in Open /\ incidents'[j].next = "none"
    BY <1>0, <1>6, CloseEffect DEF Open
  <2>2. \A j \in Incidents :
          /\ incidents'[j].status \in Present => incidents[j].status \in Present
          /\ incidents'[j].next # "none" => incidents[j].next # "none"
    BY <2>1 DEF Open, Present
  <2> QED
    BY <1>6, <2>1, <2>2, OrderKept
<1>7. ASSUME NEW w \in Workers, ResolveMatched(w)
      PROVE  OrderParts'
  BY <1>0, <1>6, <1>7 DEF ResolveMatched, TypeInv, WellFormed
<1>8. ASSUME NEW i \in Incidents, Acknowledge(i) \/ Resolve(i)
      PROVE  OrderParts'
  BY <1>6, <1>8 DEF Acknowledge, Resolve
<1>9. ASSUME NEW i \in Incidents, Elapse(i)
      PROVE  OrderParts'
  BY <1>9, OrderElapse
<1>10. ASSUME NEW s \in Services, RemoveService(s)
       PROVE  OrderParts'
  <2>1. /\ UNCHANGED <<due, fire>>
        /\ \A j \in Incidents :
             \/ incidents'[j] = incidents[j] /\ fired'[j] = fired[j]
             \/ incidents'[j].status = "deleted" /\ fired'[j] = {}
    BY <1>0, <1>10, RemoveEffect
  <2> QED
    BY <2>1, OrderKept DEF Present
<1>11. ASSUME NEW q \in Policies, EditPolicy(q)
       PROVE  OrderParts'
  <2>1. UNCHANGED <<incidents, due, fire, fired>>
    BY <1>11 DEF EditPolicy
  <2> QED
    BY <2>1, OrderKept
<1>12. CASE Restart
  <2>1. UNCHANGED <<incidents, fired>> /\ due' = {} /\ \A p \in Actors : ~Busy(p)'
    BY <1>12 DEF Restart, IdleFrame
  <2> QED
    BY <2>1, OrderKept
<1> QED
  BY <1>1, <1>2, <1>3, <1>4, <1>5, <1>7, <1>8, <1>9, <1>10, <1>11, <1>12
  DEF Next, RequestStep

(* No page skips ahead: whatever is edited, fails or restarts in between, a   *)
(* step of a round fires only after the step before it, and a round only      *)
(* after one that has fired.                                                  *)
THEOREM PagesFollowThePolicy == Spec => []EscalationOrder
  BY OrderInit, OrderNext, PTL DEF Spec, OrderInv, OrderParts

-----------------------------------------------------------------------------
(* Nobody is paged twice as long as nothing fails.  An incident that is there *)
(* has its service, so that the error of fireStep for a missing service ends  *)
(* no escalation.                                                             *)
Housed(row) == row.status \in Present => row.svc \in services

Grounded ==
    \A i \in Incidents :
        /\ Housed(incidents[i])
        /\ incidents[i].status \notin Present => fired[i] = {}

LEMMA HousedTable ==
  ASSUME TypeInv, Grounded, NEW i \in Incidents, NEW row,
         incidents' = [incidents EXCEPT ![i] = row], UNCHANGED <<services, fired>>,
         row.status \in Present, Housed(row)
  PROVE  Grounded'
<1>1. /\ incidents'[i] = row
      /\ \A j \in Incidents : j # i => incidents'[j] = incidents[j]
  BY DEF TypeInv, TypeOK, StoreTypeOK
<1> QED
  BY <1>1 DEF Grounded, Housed

LEMMA GroundedStatement ==
  ASSUME TypeInv, Grounded, NEW i \in Incidents, UNCHANGED <<services, fired>>,
         \/ AcknowledgeIncident(i) \/ ResolveIncident(i)
         \/ \E k, r, n : SetNextEscalation(i, k, r, n)
  PROVE  Grounded'
<1> DEFINE old == incidents[i]
           closed(st) == [old EXCEPT !.status = st, !.next = "none"]
           moved(k, r, n) == [old EXCEPT !.step = k, !.rep = r, !.next = n]
<1>1. old \in Row /\ Housed(old) /\ incidents \in [Incidents -> Row]
  BY DEF TypeInv, TypeOK, StoreTypeOK, Grounded
<1>2. old.status \in Present => \A st \in Closed :
        closed(st).status \in Present /\ Housed(closed(st))
  BY <1>1 DEF Row, Housed, Closed, Present
<1>3. old.status \in Present => \A k, r, n :
        moved(k, r, n).status \in Present /\ Housed(moved(k, r, n))
  BY <1>1 DEF Row, Housed
<1>4. \/ incidents' = [incidents EXCEPT ![i] = old]
      \/ old.status \in Present /\ \E st \in Closed : incidents' = [incidents EXCEPT ![i] = closed(st)]
      \/ old.status \in Present /\ \E k, r, n : incidents' = [incidents EXCEPT ![i] = moved(k, r, n)]
  <2>1. \/ incidents' = [incidents EXCEPT ![i] = old]
        \/ old.status \in Present /\ incidents' = [incidents EXCEPT ![i] = closed("acknowledged")]
        \/ old.status \in Present /\ incidents' = [incidents EXCEPT ![i] = closed("resolved")]
        \/ old.status \in Present /\ \E k, r, n : incidents' = [incidents EXCEPT ![i] = moved(k, r, n)]
    <3>1. CASE AcknowledgeIncident(i)
      <4>1. CASE old.status = "triggered"
        BY <3>1, <4>1 DEF AcknowledgeIncident, Present
      <4> QED
        BY <3>1, <4>1 DEF AcknowledgeIncident
    <3>2. CASE ResolveIncident(i)
      <4>1. CASE old.status \in Open
        BY <3>2, <4>1 DEF ResolveIncident, Open, Present
      <4> QED
        BY <3>2, <4>1 DEF ResolveIncident
    <3>3. ASSUME NEW k, NEW r, NEW n, SetNextEscalation(i, k, r, n)
          PROVE  \/ incidents' = [incidents EXCEPT ![i] = old]
                 \/ old.status \in Present /\ incidents' = [incidents EXCEPT ![i] = moved(k, r, n)]
      BY <3>3 DEF SetNextEscalation
    <3> HIDE DEF closed, moved, old
    <3> QED
      BY <3>1, <3>2, <3>3
  <2> HIDE DEF closed, moved, old
  <2> QED
    BY <2>1 DEF Closed
<1>5. CASE incidents' = [incidents EXCEPT ![i] = old]
  <2>1. UNCHANGED incidents
    BY <1>1, <1>5
  <2> QED
    BY <2>1 DEF Grounded, Housed
<1> HIDE DEF old, closed, moved
<1> QED
  BY <1>2, <1>3, <1>4, <1>5, HousedTable

LEMMA GroundedNext == ASSUME TypeInv, Grounded, [Next]_vars PROVE Grounded'
<1>1. UNCHANGED <<incidents, services, fired>> => Grounded'
  BY DEF Grounded, Housed
<1>2. ASSUME NEW p \in Actors, Stop(p) \/ Commit(p) PROVE Grounded'
  <2>1. fire[p].inc \in Incidents
    BY <1>2, PosTypes DEF Stop, Commit
  <2> QED
    BY <1>2, <2>1, GroundedStatement DEF Stop, Commit
<1>3. ASSUME NEW p \in Actors, Notify(p) PROVE Grounded'
  <2>1. fired \in [Incidents -> SUBSET Positions] /\ fire[p].inc \in Incidents
    BY <1>3, PosTypes DEF Notify, TypeInv, TypeOK
  <2>2. UNCHANGED <<incidents, services>>
    BY <1>3 DEF Notify
  <2>3. \A i \in Incidents : incidents[i].status \notin Present => fired'[i] = fired[i]
    BY <1>3, <2>1 DEF Notify
  <2> QED
    BY <2>2, <2>3 DEF Grounded, Housed
<1>4. ASSUME NEW w \in Workers, Create(w) PROVE Grounded'
  <2>1. PICK i \in Incidents : CreateIncident(i, request[w].svc, request[w].fp)
    BY <1>4 DEF Create
  <2> DEFINE new == [FreeRow EXCEPT !.status = "triggered", !.svc = request[w].svc,
                                    !.fp = request[w].fp]
  <2>2. incidents' = [incidents EXCEPT ![i] = new] /\ request[w].svc \in services
    BY <2>1 DEF CreateIncident
  <2>3. new.status \in Present /\ Housed(new)
    BY <2>2 DEF Housed, FreeRow, Present
  <2>4. UNCHANGED <<services, fired>>
    BY <1>4 DEF Create
  <2> HIDE DEF new
  <2> QED
    BY <2>2, <2>3, <2>4, HousedTable
<1>5. ASSUME NEW i \in Incidents, Acknowledge(i) \/ Resolve(i) PROVE Grounded'
  BY <1>5, GroundedStatement DEF Acknowledge, Resolve
<1>6. ASSUME NEW w \in Workers, ResolveMatched(w) PROVE Grounded'
  BY <1>6, GroundedStatement DEF ResolveMatched, TypeInv, WellFormed
<1>7. ASSUME NEW i \in Incidents, Elapse(i) PROVE Grounded'
  <2>1. UNCHANGED <<services, fired>>
    BY <1>7 DEF Elapse
  <2>2. \A j \in Incidents : incidents'[j].status = incidents[j].status
                             /\ incidents'[j].svc = incidents[j].svc
    BY <1>7 DEF Elapse, TypeInv, TypeOK, StoreTypeOK, Row
  <2> QED
    BY <2>1, <2>2 DEF Grounded, Housed
<1>8. ASSUME NEW s \in Services, RemoveService(s) PROVE Grounded'
  BY <1>8 DEF RemoveService, DeleteService, FreeRow, Grounded, Housed, Present, TypeInv, TypeOK
<1>9. ASSUME \/ Tick \/ TickNext \/ Restart \/ UNCHANGED vars
             \/ \E p \in Actors : LoadSteps(p) \/ LoadPolicy(p) \/ LogExhausted(p) \/ FireError(p)
             \/ \E w \in Workers :
                  \/ Lookup(w) \/ CreateFails(w) \/ MatchResolved(w) \/ RequestError(w)
                  \/ \E s \in Services, fp \in Fingerprints \cup {NoFingerprint} :
                        Ingest(w, s, fp) \/ SourceResolved(w, s, fp)
             \/ \E q \in Policies : EditPolicy(q)
      PROVE  UNCHANGED <<incidents, services, fired>>
  BY <1>9 DEF Tick, TickNext, Restart, vars, LoadSteps, LoadPolicy, LogExhausted, FireError,
              Lookup, CreateFails, MatchResolved, RequestError, Ingest, SourceResolved, EditPolicy
<1> QED
  BY <1>1, <1>2, <1>3, <1>4, <1>5, <1>6, <1>7, <1>8, <1>9 DEF Next, FireStep, RequestStep

(* A handler that is still to create an incident is not firing another. *)
OneTask == \A w \in Workers : request[w].pc # "idle" => ~Busy(w)

LEMMA OneTaskNext == ASSUME TypeInv, OneTask, [Next]_vars PROVE OneTask'
<1>0. fire \in [Actors -> Frame] /\ request \in [Workers -> Request]
  BY DEF TypeInv, TypeOK
<1>1. ASSUME NEW p \in Actors, FireStep(p) \/ FireError(p) PROVE OneTask'
  <2>1. Busy(p) /\ UNCHANGED request
    BY <1>1 DEF FireStep, LoadSteps, LoadPolicy, LogExhausted, Stop, Notify, Commit, FireError
  <2>2. \A q \in Actors : q # p => fire'[q] = fire[q]
    BY <1>0, <1>1 DEF FireStep, LoadSteps, LoadPolicy, LogExhausted, Stop, Notify, Commit,
                     FireError, Goto, Return
  <2> QED BY <2>1, <2>2 DEF OneTask
<1>2. ASSUME NEW w \in Workers, Create(w) PROVE OneTask'
  <2>1. /\ \A q \in Actors : q # w => fire'[q] = fire[q]
        /\ request'[w].pc = "idle"
        /\ \A q \in Workers : q # w => request'[q] = request[q]
    BY <1>0, <1>2 DEF Create, IdleRequest
  <2> QED BY <2>1 DEF OneTask
<1>3. ASSUME NEW w \in Workers, UNCHANGED fire, request[w].pc # "idle" \/ ~Busy(w),
             \A q \in Workers : q # w => request'[q] = request[q]
      PROVE  OneTask'
  BY <1>3 DEF OneTask
<1>4. ASSUME NEW w \in Workers,
             \/ Lookup(w) \/ CreateFails(w) \/ MatchResolved(w) \/ ResolveMatched(w) \/ RequestError(w)
             \/ \E s \in Services, fp \in Fingerprints \cup {NoFingerprint} :
                   Ingest(w, s, fp) \/ SourceResolved(w, s, fp)
      PROVE  OneTask'
  <2>1. UNCHANGED fire /\ (request[w].pc # "idle" \/ ~Busy(w))
    BY <1>4 DEF Lookup, CreateFails, MatchResolved, ResolveMatched, RequestError, Ingest,
                SourceResolved, IdleWorker
  <2>2. \A q \in Workers : q # w => request'[q] = request[q]
    BY <1>0, <1>4 DEF Lookup, CreateFails, MatchResolved, ResolveMatched, RequestError, Ingest,
                     SourceResolved
  <2> QED BY <1>3, <2>1, <2>2
<1>5. CASE TickNext
  BY <1>0, <1>5, ActorAssumption DEF TickNext, OneTask
<1>6. CASE Restart
  BY <1>6 DEF Restart, OneTask, IdleFrame
<1>7. UNCHANGED <<fire, request>> => OneTask'
  BY DEF OneTask
<1>8. ASSUME \/ Tick \/ UNCHANGED vars
             \/ \E i \in Incidents : Acknowledge(i) \/ Resolve(i) \/ Elapse(i)
             \/ \E s \in Services : RemoveService(s)
             \/ \E q \in Policies : EditPolicy(q)
      PROVE  UNCHANGED <<fire, request>>
  BY <1>8 DEF Tick, vars, Acknowledge, Resolve, Elapse, RemoveService, EditPolicy
<1> QED BY <1>1, <1>2, <1>4, <1>5, <1>6, <1>7, <1>8 DEF Next, RequestStep

-----------------------------------------------------------------------------
(* Pages sent again.  A page is undone when it was sent for a position its    *)
(* row has not reached and nobody is about to store it any more: the engine   *)
(* is bound to come by that position once more.  A page is undone by a fault, *)
(* one at a time, and sent again it is undone no longer.                      *)
After(r, k, r2, k2) == ~Before(r, k, r2, k2)

Underway(i, pos) ==
    \E p \in Actors : /\ fire[p].pc = "commit" /\ fire[p].inc = i
                      /\ pos = <<fire[p].rep, fire[p].step>>

UndonePage(i, pos) ==
    /\ pos \in fired[i]
    /\ After(pos[1], pos[2], incidents[i].rep, incidents[i].step)
    /\ ~Underway(i, pos)

Undone == {x \in Incidents \X Positions : UndonePage(x[1], x[2])}

(* A handler is at its incident's very first position, and pages it once. *)
FirstFire ==
    \A w \in Workers : Busy(w) =>
        /\ fire[w].rep = 0 /\ fire[w].step = 0 /\ fire[w].pc # "policy"
        /\ fire[w].pc # "commit" => fired[fire[w].inc] = {}

(* The engine fires a position that its incident's row is yet to reach. *)
EngineAhead ==
    Busy(Engine) /\ incidents[fire[Engine].inc].status \in Present =>
        After(fire[Engine].rep, fire[Engine].step,
              incidents[fire[Engine].inc].rep, incidents[fire[Engine].inc].step)

RepeatBase == PosInv /\ Grounded /\ OneTask /\ FirstFire /\ EngineAhead

RepeatInv == RepeatBase /\ again + Cardinality(Undone) <= faults

LEMMA AfterFacts ==
  ASSUME NEW r \in Nat, NEW k \in Nat
  PROVE  /\ After(r, k + 1, r, k)
         /\ ~After(0, 0, r, k)
         /\ ~After(r, k, r, k)
  BY DEF After, Before

LEMMA FiredTypes ==
  ASSUME TypeInv, NEW i \in Incidents, NEW pos \in fired[i]
  PROVE  pos \in Positions /\ pos[1] \in Nat /\ pos[2] \in Nat
  BY StoreAssumption DEF TypeInv, TypeOK, Positions

(* No page is undone by a step after which every undone page was so before. *)
LEMMA UndoneSubset ==
  ASSUME NEW S,
         \A i \in Incidents, pos \in Positions :
            UndonePage(i, pos)' => UndonePage(i, pos) \/ <<i, pos>> \in S
  PROVE  Undone' \subseteq Undone \cup S
<1> SUFFICES ASSUME NEW x \in Undone' PROVE x \in Undone \cup S
  OBVIOUS
<1>1. /\ x \in Incidents \X Positions /\ x = <<x[1], x[2]>>
      /\ x[1] \in Incidents /\ x[2] \in Positions
      /\ UndonePage(x[1], x[2])'
  BY DEF Undone
<1> QED
  BY <1>1 DEF Undone

(* Steps that leave positions and pages alone, or take the pages with the row. *)
LEMMA UndoneTable ==
  ASSUME \A i \in Incidents :
            \/ fired'[i] = {}
            \/ /\ fired'[i] = fired[i]
               /\ incidents'[i].rep = incidents[i].rep
               /\ incidents'[i].step = incidents[i].step
               /\ \A pos : Underway(i, pos) => Underway(i, pos)'
  PROVE  Undone' \subseteq Undone
<1>1. \A i \in Incidents, pos \in Positions :
        UndonePage(i, pos)' => UndonePage(i, pos) \/ <<i, pos>> \in {}
  BY DEF UndonePage
<1>2. Undone' \subseteq Undone \cup {}
  BY <1>1, UndoneSubset
<1> QED
  BY <1>2

(* A frame that is not about to store a page moves to another such. *)
LEMMA UnderwayKept ==
  ASSUME NEW p \in Actors, fire[p].pc # "commit",
         \A q \in Actors : q # p => fire'[q] = fire[q]
  PROVE  \A i, pos : Underway(i, pos) => Underway(i, pos)'
  BY DEF Underway

(* fireStep up to its page, and where it gives up. *)
LEMMA RepeatLoad ==
  ASSUME RepeatBase, NEW p \in Actors, LoadSteps(p) \/ LoadPolicy(p) \/ LogExhausted(p)
  PROVE  FirstFire' /\ EngineAhead' /\ Undone' \subseteq Undone
<1>0. /\ TypeInv /\ fire \in [Actors -> Frame] /\ fire[p] \in Frame /\ Busy(p)
      /\ fire[p].rep \in Nat /\ fire[p].step \in Nat /\ fire[p].inc \in Incidents
      /\ fire[p].pc \in {"load", "policy", "log"}
  BY PosTypes DEF RepeatBase, PosInv, ExclInv, LoadSteps, LoadPolicy, LogExhausted
<1>1. UNCHANGED <<incidents, due, fired>>
  BY DEF LoadSteps, LoadPolicy, LogExhausted
<1>2. \/ Return(p)
      \/ Goto(p, "notify") \/ Goto(p, "log") \/ Goto(p, "stop")
      \/ /\ Goto(p, "policy") /\ fire[p].pc = "load"
         /\ ~(fire[p].step < policies[policyOfFrame(p)].len)
         /\ policies[policyOfFrame(p)].len # 0
      \/ /\ fire[p].pc = "policy"
         /\ fire' = [fire EXCEPT ![p] = [pc |-> "load", inc |-> fire[p].inc,
                                         step |-> 0, rep |-> fire[p].rep + 1]]
  BY DEF LoadSteps, LoadPolicy, LogExhausted
<1>3. /\ \A q \in Actors : q # p => fire'[q] = fire[q]
      /\ \/ ~Busy(p)'
         \/ /\ fire'[p].inc = fire[p].inc
            /\ fire'[p].rep = fire[p].rep /\ fire'[p].step = fire[p].step
            /\ fire'[p].pc \notin {"policy", "commit"}
         \/ /\ fire'[p].inc = fire[p].inc
            /\ fire'[p].rep = fire[p].rep /\ fire'[p].step = fire[p].step
            /\ fire'[p].pc = "policy" /\ fire[p].pc = "load" /\ fire[p].step # 0
         \/ /\ fire'[p].inc = fire[p].inc /\ fire[p].pc = "policy"
            /\ fire'[p].rep = fire[p].rep + 1 /\ fire'[p].step = 0
  <2>1. CASE Return(p)
    BY <1>0, <2>1 DEF Return, IdleFrame
  <2>2. CASE Goto(p, "notify") \/ Goto(p, "log") \/ Goto(p, "stop")
    BY <1>0, <2>2 DEF Goto, Frame
  <2>3. CASE /\ Goto(p, "policy") /\ fire[p].pc = "load"
             /\ ~(fire[p].step < policies[policyOfFrame(p)].len)
             /\ policies[policyOfFrame(p)].len # 0
    <3>1. policies[policyOfFrame(p)].len \in Nat
      <4>1. incidents[fire[p].inc].svc \in services
        BY <2>3, <1>0 DEF LoadSteps, LoadPolicy, LogExhausted, Goto, Return, IdleFrame, Frame
      <4>2. policyOfFrame(p) \in Policies
        BY <1>0, <4>1, StoreAssumption DEF TypeInv, TypeOK, StoreTypeOK, policyOfFrame
      <4> QED
        BY <1>0, <4>2, StoreAssumption DEF TypeInv, TypeOK, StoreTypeOK, Policy
    <3>2. fire[p].step # 0
      BY <2>3, <3>1
    <3> QED
      BY <1>0, <2>3, <3>2 DEF Goto, Frame
  <2>4. CASE /\ fire[p].pc = "policy"
             /\ fire' = [fire EXCEPT ![p] = [pc |-> "load", inc |-> fire[p].inc,
                                             step |-> 0, rep |-> fire[p].rep + 1]]
    BY <1>0, <2>4
  <2> QED
    BY <1>2, <2>1, <2>2, <2>3, <2>4
<1>4. FirstFire'
  <2> SUFFICES ASSUME NEW w \in Workers, Busy(w)'
               PROVE  /\ fire'[w].rep = 0 /\ fire'[w].step = 0 /\ fire'[w].pc # "policy"
                      /\ fire'[w].pc # "commit" => fired'[fire'[w].inc] = {}
    BY DEF FirstFire
  <2>1. CASE w = p
    <3>1. /\ fire[p].rep = 0 /\ fire[p].step = 0 /\ fire[p].pc # "policy"
          /\ fired[fire[p].inc] = {}
      BY <1>0, <2>1 DEF RepeatBase, FirstFire
    <3> QED
      BY <1>1, <1>3, <2>1, <3>1
  <2>2. CASE w # p
    BY <1>1, <1>3, <2>2 DEF RepeatBase, FirstFire
  <2> QED
    BY <2>1, <2>2
<1>5. EngineAhead'
  <2>1. CASE p = Engine
    <3> SUFFICES ASSUME Busy(Engine)', incidents[fire'[Engine].inc].status \in Present
                 PROVE  After(fire'[Engine].rep, fire'[Engine].step,
                              incidents[fire'[Engine].inc].rep, incidents[fire'[Engine].inc].step)
      BY <1>1 DEF EngineAhead
    <3>1. PICK r \in Nat, k \in Nat :
            r = incidents[fire[p].inc].rep /\ k = incidents[fire[p].inc].step
      BY <1>0, PosTypes
    <3>2. fire'[p].inc = fire[p].inc /\ After(fire[p].rep, fire[p].step, r, k)
      BY <1>0, <1>3, <2>1, <3>1 DEF RepeatBase, EngineAhead
    <3>3. \/ fire'[p].rep = fire[p].rep /\ fire'[p].step = fire[p].step
          \/ fire'[p].rep = fire[p].rep + 1 /\ fire'[p].step = 0
      BY <1>3, <2>1
    <3>4. After(fire[p].rep + 1, 0, r, k)
      BY <1>0, <3>2 DEF After, Before
    <3>5. After(fire'[p].rep, fire'[p].step, r, k)
      BY <3>2, <3>3, <3>4
    <3> QED
      BY <2>1, <3>1, <3>2, <3>5
  <2>2. CASE p # Engine
    BY <1>1, <1>3, <2>2 DEF RepeatBase, EngineAhead
  <2> QED
    BY <2>1, <2>2
<1>6. Undone' \subseteq Undone
  BY <1>0, <1>1, <1>3, UnderwayKept, UndoneTable
<1> QED
  BY <1>4, <1>5, <1>6

(* The page itself: for a position paged before, it is undone no longer. *)
LEMMA RepeatNotify ==
  ASSUME RepeatBase, NEW p \in Actors, Notify(p)
  PROVE  /\ FirstFire' /\ EngineAhead' /\ Undone' \subseteq Undone
         /\ \/ again' = again
            \/ again' = again + 1 /\ \E x \in Undone : x \notin Undone'
<1>0. /\ TypeInv /\ FireExclusive /\ fire \in [Actors -> Frame] /\ fire[p] \in Frame
      /\ fire[p].rep \in Nat /\ fire[p].step \in Nat /\ fire[p].inc \in Incidents
      /\ fire[p].pc = "notify" /\ fired \in [Incidents -> SUBSET Positions]
  BY PosTypes DEF RepeatBase, PosInv, ExclInv, Notify, TypeInv, TypeOK
<1>1. PICK i \in Incidents, r \in Nat, k \in Nat :
        i = fire[p].inc /\ r = fire[p].rep /\ k = fire[p].step
  BY <1>0
<1>2. /\ UNCHANGED <<incidents, due>>
      /\ fire' = [fire EXCEPT ![p].pc = "commit"]
      /\ fired' = fired \/ fired' = [fired EXCEPT ![i] = fired[i] \cup {<<r, k>>}]
      /\ again' = IF <<r, k>> \in fired[i] THEN again + 1 ELSE again
  BY <1>1 DEF Notify, Goto
<1>3. /\ \A q \in Actors : q # p => fire'[q] = fire[q]
      /\ fire'[p].pc = "commit" /\ fire'[p].inc = i
      /\ fire'[p].rep = r /\ fire'[p].step = k
  BY <1>0, <1>1, <1>2 DEF Frame
<1>4. \A q \in Actors : q # p /\ Busy(q) => fire[q].inc # i
  BY <1>0, <1>1 DEF FireExclusive
<1>5. /\ \A j \in Incidents : j # i => fired'[j] = fired[j]
      /\ fired'[i] \subseteq fired[i] \cup {<<r, k>>}
  BY <1>0, <1>2
<1>6. FirstFire'
  <2> SUFFICES ASSUME NEW w \in Workers, Busy(w)'
               PROVE  /\ fire'[w].rep = 0 /\ fire'[w].step = 0 /\ fire'[w].pc # "policy"
                      /\ fire'[w].pc # "commit" => fired'[fire'[w].inc] = {}
    BY DEF FirstFire
  <2>1. CASE w = p
    BY <1>0, <1>1, <1>3, <2>1 DEF RepeatBase, FirstFire
  <2>2. CASE w # p
    <3>1. fire'[w] = fire[w] /\ fire[w].inc \in Incidents /\ fire[w].inc # i
      BY <1>0, <1>3, <1>4, <2>2, PosTypes
    <3> QED
      BY <1>5, <3>1 DEF RepeatBase, FirstFire
  <2> QED
    BY <2>1, <2>2
<1>7. EngineAhead'
  <2>1. /\ fire'[Engine].inc = fire[Engine].inc /\ (Busy(Engine)' => Busy(Engine))
        /\ fire'[Engine].rep = fire[Engine].rep /\ fire'[Engine].step = fire[Engine].step
    BY <1>0, <1>1, <1>3
  <2> QED
    BY <1>2, <2>1 DEF RepeatBase, EngineAhead
<1>8. \A j, pos : Underway(j, pos) => Underway(j, pos)'
  BY <1>0, <1>3, UnderwayKept
<1>9. Underway(i, <<r, k>>)'
  BY <1>3 DEF Underway
<1>10. \A j \in Incidents, pos \in Positions :
         UndonePage(j, pos)' => UndonePage(j, pos) \/ <<j, pos>> \in {}
  <2> SUFFICES ASSUME NEW j \in Incidents, NEW pos \in Positions, UndonePage(j, pos)'
               PROVE  UndonePage(j, pos)
    OBVIOUS
  <2>1. pos \in fired[j]
    BY <1>5, <1>9 DEF UndonePage
  <2> QED
    BY <1>2, <1>8, <2>1 DEF UndonePage
<1>11. Undone' \subseteq Undone \cup {}
  BY <1>10, UndoneSubset
<1>12. ASSUME <<r, k>> \in fired[i]
       PROVE  <<i, <<r, k>>>> \in Undone \ Undone'
  <2>1. <<r, k>> \in Positions
    BY <1>0, <1>12
  <2>2. incidents[i].status \in Present
    BY <1>12 DEF RepeatBase, Grounded
  <2>3. p = Engine
    BY <1>0, <1>1, <1>12 DEF RepeatBase, FirstFire
  <2>4. After(r, k, incidents[i].rep, incidents[i].step)
    BY <1>0, <1>1, <2>2, <2>3 DEF RepeatBase, EngineAhead
  <2>5. ~Underway(i, <<r, k>>)
    BY <1>0, <1>4 DEF Underway
  <2>6. UndonePage(i, <<r, k>>) /\ ~UndonePage(i, <<r, k>>)'
    BY <1>9, <1>12, <2>4, <2>5 DEF UndonePage
  <2> QED
    BY <2>1, <2>6 DEF Undone
<1> QED
  BY <1>2, <1>6, <1>7, <1>11, <1>12

(* fireStep's last statement takes the row to where the frame is. *)
LEMMA RepeatStored ==
  ASSUME RepeatBase, NEW p \in Actors, Stop(p) \/ Commit(p)
  PROVE  FirstFire' /\ EngineAhead' /\ Undone' \subseteq Undone
<1>0. /\ TypeInv /\ FireExclusive /\ fire \in [Actors -> Frame]
      /\ fire[p].inc \in Incidents /\ Busy(p)
  BY PosTypes DEF RepeatBase, PosInv, ExclInv, Stop, Commit
<1>1. PICK i \in Incidents, r \in Nat, k \in Nat :
        i = fire[p].inc /\ r = fire[p].rep /\ k = fire[p].step
  BY <1>0, PosTypes
<1>2. /\ \A j \in Incidents : incidents'[j].status = incidents[j].status
      /\ \A j \in Incidents : j # i => incidents'[j] = incidents[j]
      /\ incidents[i].status \in Present => incidents'[i].step = k /\ incidents'[i].rep = r
  <2>1. CASE Stop(p)
    BY <1>0, <1>1, <2>1, SetNextEffect DEF Stop
  <2>2. CASE Commit(p)
    BY <1>0, <1>1, <2>2, SetNextEffect DEF Commit
  <2> QED
    BY <2>1, <2>2
<1>3. UNCHANGED fired /\ fire' = [fire EXCEPT ![p] = IdleFrame]
  BY DEF Stop, Commit, Return
<1>4. ~Busy(p)' /\ \A q \in Actors : q # p => fire'[q] = fire[q]
  BY <1>0, <1>3 DEF IdleFrame
<1>5. \A q \in Actors : q # p /\ Busy(q) => fire[q].inc # i
  BY <1>0, <1>1 DEF FireExclusive
<1>6. FirstFire'
  BY <1>3, <1>4 DEF RepeatBase, FirstFire
<1>7. EngineAhead'
  <2> SUFFICES ASSUME Busy(Engine)' PROVE EngineAhead'
    BY DEF EngineAhead
  <2>1. Engine # p /\ fire'[Engine] = fire[Engine]
    BY <1>4
  <2>2. fire[Engine].inc \in Incidents /\ fire[Engine].inc # i
    BY <1>0, <1>5, <2>1, PosTypes
  <2> QED
    BY <1>2, <2>1, <2>2 DEF RepeatBase, EngineAhead
<1>8. \A j \in Incidents, pos \in Positions :
        UndonePage(j, pos)' => UndonePage(j, pos) \/ <<j, pos>> \in {}
  <2> SUFFICES ASSUME NEW j \in Incidents, NEW pos \in Positions, UndonePage(j, pos)'
               PROVE  UndonePage(j, pos)
    OBVIOUS
  <2>1. CASE j # i
    <3>1. Underway(j, pos) => Underway(j, pos)'
      BY <1>1, <1>4, <2>1 DEF Underway
    <3> QED
      BY <1>2, <1>3, <2>1, <3>1 DEF UndonePage
  <2>2. CASE j = i
    <3>1. pos \in fired[i] /\ incidents[i].status \in Present
      BY <1>3, <2>2 DEF UndonePage, RepeatBase, Grounded
    <3>2. After(pos[1], pos[2], r, k)
      BY <1>2, <2>2, <3>1 DEF UndonePage
    <3>3. Before(incidents[i].rep, incidents[i].step, r, k)
      BY <1>0, <1>1, <3>1 DEF RepeatBase, PosInv, FrameAhead
    <3>4. After(pos[1], pos[2], incidents[i].rep, incidents[i].step)
      <4>1. pos[1] \in Nat /\ pos[2] \in Nat
        BY <1>0, <3>1, FiredTypes
      <4>2. incidents[i].rep \in Nat /\ incidents[i].step \in Nat
        BY <1>0, PosTypes
      <4> QED
        BY <3>2, <3>3, <4>1, <4>2 DEF After, Before
    <3>5. pos # <<r, k>>
      BY <3>2, AfterFacts
    <3>6. ~Underway(i, pos)
      BY <1>0, <1>1, <1>5, <3>5 DEF Underway
    <3> QED
      BY <2>2, <3>1, <3>4, <3>6 DEF UndonePage
  <2> QED
    BY <2>1, <2>2
<1>9. Undone' \subseteq Undone \cup {}
  BY <1>8, UndoneSubset
<1> QED
  BY <1>6, <1>7, <1>9

LEMMA RepeatTickNext ==
  ASSUME RepeatBase, TickNext
  PROVE  FirstFire' /\ EngineAhead' /\ Undone' \subseteq Undone
<1>0. TypeInv /\ SnapshotFresh /\ fire \in [Actors -> Frame] /\ Engine \in Actors
  BY PosTypes DEF RepeatBase, PosInv, ExclInv
<1>1. PICK d \in due :
        fire' = [fire EXCEPT ![Engine] =
                   [pc |-> "load", inc |-> d.inc, step |-> d.step + 1, rep |-> d.rep]]
  BY DEF TickNext
<1>2. UNCHANGED <<incidents, fired>> /\ ~Busy(Engine)
  BY DEF TickNext
<1>3. /\ fire'[Engine] = [pc |-> "load", inc |-> d.inc, step |-> d.step + 1, rep |-> d.rep]
      /\ \A q \in Actors : q # Engine => fire'[q] = fire[q]
      /\ d.step \in Nat /\ d.rep \in Nat /\ d.inc \in Incidents
  BY <1>0, <1>1, PosTypes
<1>4. FirstFire'
  BY <1>2, <1>3, ActorAssumption DEF RepeatBase, FirstFire
<1>5. EngineAhead'
  <2> SUFFICES ASSUME incidents[d.inc].status \in Present
               PROVE  After(d.rep, d.step + 1, incidents[d.inc].rep, incidents[d.inc].step)
    BY <1>2, <1>3 DEF EngineAhead
  <2>1. incidents[d.inc].step = d.step /\ incidents[d.inc].rep = d.rep
    BY <1>0 DEF SnapshotFresh
  <2> QED
    BY <1>3, <2>1, AfterFacts
<1>6. Undone' \subseteq Undone
  BY <1>0, <1>2, <1>3, UnderwayKept, UndoneTable
<1> QED
  BY <1>4, <1>5, <1>6

LEMMA RepeatCreate ==
  ASSUME RepeatBase, NEW w \in Workers, Create(w)
  PROVE  FirstFire' /\ EngineAhead' /\ Undone' \subseteq Undone
<1>0. /\ TypeInv /\ Handled /\ fire \in [Actors -> Frame]
      /\ ~Busy(w) /\ w \in Actors /\ w # Engine
  BY PosTypes, ActorAssumption DEF RepeatBase, PosInv, ExclInv, OneTask, Create
<1>1. PICK i \in Incidents :
        /\ CreateIncident(i, request[w].svc, request[w].fp)
        /\ fire' = [fire EXCEPT ![w] = [pc |-> "load", inc |-> i, step |-> 0, rep |-> 0]]
  BY DEF Create
<1>2. /\ incidents[i].status = "free"
      /\ \A j \in Incidents : j # i => incidents'[j] = incidents[j]
  BY <1>0, <1>1, CreateEffect
<1>3. /\ UNCHANGED fired
      /\ fire'[w] = [pc |-> "load", inc |-> i, step |-> 0, rep |-> 0]
      /\ \A q \in Actors : q # w => fire'[q] = fire[q]
  BY <1>0, <1>1 DEF Create
<1>4. fired[i] = {}
  BY <1>2 DEF RepeatBase, Grounded, Present
<1>5. FirstFire'
  <2> SUFFICES ASSUME NEW v \in Workers, Busy(v)'
               PROVE  /\ fire'[v].rep = 0 /\ fire'[v].step = 0 /\ fire'[v].pc # "policy"
                      /\ fire'[v].pc # "commit" => fired'[fire'[v].inc] = {}
    BY DEF FirstFire
  <2>1. CASE v = w
    BY <1>3, <1>4, <2>1
  <2>2. CASE v # w
    BY <1>3, <2>2 DEF RepeatBase, FirstFire
  <2> QED
    BY <2>1, <2>2
<1>6. EngineAhead'
  <2>1. Busy(Engine) => fire[Engine].inc \in Incidents /\ fire[Engine].inc # i
    BY <1>0, <1>2, PosTypes DEF Handled
  <2> QED
    BY <1>0, <1>2, <1>3, <2>1 DEF RepeatBase, EngineAhead
<1>7. \A j, pos : Underway(j, pos) => Underway(j, pos)'
  BY <1>0, <1>3, UnderwayKept
<1>8. Undone' \subseteq Undone
  BY <1>2, <1>3, <1>4, <1>7, UndoneTable
<1> QED
  BY <1>5, <1>6, <1>8

(* A fault undoes one page at most: that of the frame which fails, or of the  *)
(* engine's in a crash.                                                       *)
LEMMA RepeatError ==
  ASSUME RepeatBase, NEW p \in Actors, FireError(p)
  PROVE  /\ FirstFire' /\ EngineAhead'
         /\ \E x : Undone' \subseteq Undone \cup {x}
<1>0. /\ TypeInv /\ fire \in [Actors -> Frame] /\ fire[p] \in Frame
  BY PosTypes DEF RepeatBase, PosInv, ExclInv
<1>1. UNCHANGED <<incidents, fired>>
  BY DEF FireError
<1>2. /\ \A q \in Actors : q # p => fire'[q] = fire[q]
      /\ \/ ~Busy(p)'
         \/ /\ fire[p].pc = "log" /\ fire'[p].pc = "stop" /\ fire'[p].inc = fire[p].inc
            /\ fire'[p].rep = fire[p].rep /\ fire'[p].step = fire[p].step
  BY <1>0 DEF FireError, Return, Goto, IdleFrame, Frame
<1>3. FirstFire'
  BY <1>1, <1>2 DEF RepeatBase, FirstFire
<1>4. EngineAhead'
  BY <1>1, <1>2 DEF RepeatBase, EngineAhead
<1> DEFINE x == <<fire[p].inc, <<fire[p].rep, fire[p].step>>>>
<1>5. ASSUME NEW i \in Incidents, NEW pos \in Positions, UndonePage(i, pos)'
      PROVE  UndonePage(i, pos) \/ <<i, pos>> \in {x}
  BY <1>1, <1>2, <1>5 DEF UndonePage, Underway
<1>6. Undone' \subseteq Undone \cup {x}
  BY <1>5, UndoneSubset
<1> QED
  BY <1>3, <1>4, <1>6

LEMMA RepeatCrash ==
  ASSUME RepeatBase, Restart
  PROVE  /\ FirstFire' /\ EngineAhead'
         /\ \E x : Undone' \subseteq Undone \cup {x}
<1>0. TypeInv /\ Engine \in Actors
  BY DEF RepeatBase, PosInv, ExclInv
<1>1. UNCHANGED <<incidents, fired>> /\ \A q \in Actors : ~Busy(q)'
  BY DEF Restart, IdleFrame
<1>2. FirstFire' /\ EngineAhead'
  BY <1>0, <1>1 DEF FirstFire, EngineAhead
<1> DEFINE x == <<fire[Engine].inc, <<fire[Engine].rep, fire[Engine].step>>>>
<1>3. ASSUME NEW i \in Incidents, NEW pos \in Positions, UndonePage(i, pos)'
      PROVE  UndonePage(i, pos) \/ <<i, pos>> \in {x}
  <2>1. /\ pos \in fired[i]
        /\ After(pos[1], pos[2], incidents[i].rep, incidents[i].step)
    BY <1>1, <1>3 DEF UndonePage
  <2>2. ASSUME NEW w \in Workers, fire[w].pc = "commit", pos = <<fire[w].rep, fire[w].step>>
        PROVE  FALSE
    <3>1. pos[1] = 0 /\ pos[2] = 0
      BY <2>2 DEF RepeatBase, FirstFire
    <3>2. incidents[i].rep \in Nat /\ incidents[i].step \in Nat
      BY <1>0, PosTypes
    <3>3. ~After(0, 0, incidents[i].rep, incidents[i].step)
      BY <3>2, AfterFacts
    <3> QED
      BY <2>1, <3>1, <3>3
  <2>3. Underway(i, pos) => <<i, pos>> = x
    BY <2>2 DEF Underway
  <2> QED
    BY <2>1, <2>3 DEF UndonePage
<1>4. Undone' \subseteq Undone \cup {x}
  BY <1>3, UndoneSubset
<1> QED
  BY <1>2, <1>4

(* Steps that move no frame and no position. *)
LEMMA RepeatTable ==
  ASSUME RepeatBase, UNCHANGED fire,
         \A i \in Incidents :
            \/ /\ fired'[i] = fired[i]
               /\ incidents'[i].rep = incidents[i].rep
               /\ incidents'[i].step = incidents[i].step
               /\ incidents'[i].status \in Present => incidents[i].status \in Present
            \/ fired'[i] = {} /\ incidents'[i].status \notin Present
  PROVE  FirstFire' /\ EngineAhead' /\ Undone' \subseteq Undone
<1>0. TypeInv /\ Engine \in Actors /\ \A p \in Actors : Busy(p) => fire[p].inc \in Incidents
  BY PosTypes DEF RepeatBase, PosInv, ExclInv
<1>1. FirstFire'
  BY <1>0 DEF RepeatBase, FirstFire
<1>2. EngineAhead'
  BY <1>0 DEF RepeatBase, EngineAhead
<1>3. \A i, pos : Underway(i, pos) => Underway(i, pos)'
  BY DEF Underway
<1>4. Undone' \subseteq Undone
  BY <1>3, UndoneTable
<1> QED
  BY <1>1, <1>2, <1>4

(* Every step, by what it does to the undone pages. *)
LEMMA UndoneNext ==
  ASSUME RepeatBase, [Next]_vars
  PROVE  /\ FirstFire' /\ EngineAhead'
         /\ \/ again' = again /\ faults' = faults /\ Undone' \subseteq Undone
            \/ /\ again' = again + 1 /\ faults' = faults /\ Undone' \subseteq Undone
               /\ \E x \in Undone : x \notin Undone'
            \/ /\ again' = again /\ faults' = faults + 1
               /\ \E x : Undone' \subseteq Undone \cup {x}
<1> DEFINE Kept == again' = again /\ faults' = faults /\ Undone' \subseteq Undone
           Sent == /\ again' = again + 1 /\ faults' = faults /\ Undone' \subseteq Undone
                   /\ \E x \in Undone : x \notin Undone'
           Hurt == again' = again /\ faults' = faults + 1 /\ \E x : Undone' \subseteq Undone \cup {x}
           Goal == FirstFire' /\ EngineAhead' /\ (Kept \/ Sent \/ Hurt)
<1>0. TypeInv
  BY DEF RepeatBase, PosInv, ExclInv
<1>1. ASSUME Restart PROVE Goal
  BY <1>1, RepeatCrash DEF Restart
<1>2. ASSUME NEW p \in Actors, FireError(p) PROVE Goal
  BY <1>2, RepeatError DEF FireError
<1>3. ASSUME NEW w \in Workers, RequestError(w) PROVE Goal
  <2>1. UNCHANGED <<incidents, fire, fired, again>> /\ faults' = faults + 1
    BY <1>3 DEF RequestError
  <2>2. FirstFire' /\ EngineAhead' /\ Undone' \subseteq Undone
    BY <2>1, RepeatTable
  <2> QED
    BY <2>1, <2>2
<1>4. ASSUME TickNext PROVE Goal
  BY <1>4, RepeatTickNext DEF TickNext
<1>5. ASSUME NEW p \in Actors, FireStep(p) PROVE Goal
  <2>1. CASE Notify(p)
    BY <2>1, RepeatNotify DEF Notify
  <2>2. CASE Stop(p) \/ Commit(p)
    <3>1. again' = again /\ faults' = faults
      BY <2>2 DEF Stop, Commit
    <3> QED
      BY <2>2, <3>1, RepeatStored
  <2>3. CASE LoadSteps(p) \/ LoadPolicy(p) \/ LogExhausted(p)
    <3>1. again' = again /\ faults' = faults
      BY <2>3 DEF LoadSteps, LoadPolicy, LogExhausted
    <3> QED
      BY <2>3, <3>1, RepeatLoad
  <2> QED
    BY <1>5, <2>1, <2>2, <2>3 DEF FireStep
<1>6. ASSUME NEW w \in Workers, Create(w) PROVE Goal
  <2>1. again' = again /\ faults' = faults
    BY <1>6 DEF Create
  <2> QED
    BY <1>6, <2>1, RepeatCreate
<1>7. ASSUME \/ UNCHANGED vars \/ Tick
             \/ \E q \in Policies : EditPolicy(q)
             \/ \E w \in Workers :
                  \/ Lookup(w) \/ CreateFails(w) \/ MatchResolved(w)
                  \/ \E s \in Services, fp \in Fingerprints \cup {NoFingerprint} :
                        Ingest(w, s, fp) \/ SourceResolved(w, s, fp)
      PROVE  Goal
  <2>1. UNCHANGED <<incidents, fire, fired, faults, again>>
    BY <1>7 DEF vars, Tick, EditPolicy, Lookup, CreateFails, MatchResolved, Ingest, SourceResolved
  <2> QED
    BY <2>1, RepeatTable
<1>8. ASSUME NEW i \in Incidents, AcknowledgeIncident(i) \/ ResolveIncident(i),
             UNCHANGED <<fire, fired, faults, again>>
      PROVE  Goal
  <2>1. \A j \in Incidents : /\ incidents'[j].step = incidents[j].step
                             /\ incidents'[j].rep = incidents[j].rep
                             /\ incidents'[j].status \in Present => incidents[j].status \in Present
    BY <1>0, <1>8, CloseEffect DEF Present, Open
  <2> QED
    BY <1>8, <2>1, RepeatTable
<1>9. ASSUME NEW w \in Workers, ResolveMatched(w) PROVE Goal
  BY <1>0, <1>8, <1>9 DEF ResolveMatched, TypeInv, WellFormed
<1>10. ASSUME NEW i \in Incidents, Acknowledge(i) \/ Resolve(i) PROVE Goal
  BY <1>8, <1>10 DEF Acknowledge, Resolve
<1>11. ASSUME NEW i \in Incidents, Elapse(i) PROVE Goal
  <2>1. UNCHANGED <<fire, fired, faults, again>>
    BY <1>11 DEF Elapse
  <2>2. \A j \in Incidents : /\ incidents'[j].step = incidents[j].step
                             /\ incidents'[j].rep = incidents[j].rep
                             /\ incidents'[j].status = incidents[j].status
    BY <1>0, <1>11, ElapseEffect
  <2> QED
    BY <2>1, <2>2, RepeatTable
<1>12. ASSUME NEW s \in Services, RemoveService(s) PROVE Goal
  <2>1. UNCHANGED <<faults, again>>
    BY <1>12 DEF RemoveService
  <2>2. /\ UNCHANGED fire
        /\ \A j \in Incidents :
             \/ incidents'[j] = incidents[j] /\ fired'[j] = fired[j]
             \/ incidents'[j].status = "deleted" /\ fired'[j] = {}
    BY <1>0, <1>12, RemoveEffect
  <2> QED
    BY <2>1, <2>2, RepeatTable DEF Present
<1> HIDE DEF Goal
<1>13. Goal
  BY <1>1, <1>2, <1>3, <1>4, <1>5, <1>6, <1>7, <1>9, <1>10, <1>11, <1>12
  DEF Next, RequestStep
<1> QED
  BY <1>13 DEF Goal

LEMMA UndoneFinite == IsFiniteSet(Incidents \X Positions)
<1>1. IsFiniteSet(0..MaxRepeat) /\ IsFiniteSet(0..MaxSteps)
  BY StoreAssumption, FS_Interval
<1>2. IsFiniteSet(Positions)
  BY <1>1, FS_Product DEF Positions
<1> QED
  BY <1>2, StoreAssumption, FS_Product

LEMMA RepeatInit == Init => RepeatInv
<1> SUFFICES ASSUME Init PROVE RepeatInv
  OBVIOUS
<1>1. /\ faults = 0 /\ again = 0 /\ \A p \in Actors : fire[p] = IdleFrame
      /\ \A i \in Incidents : fired[i] = {} /\ incidents[i] = FreeRow
      /\ \A w \in Workers : request[w].pc = "idle"
  BY DEF Init, StoreInit, IdleRequest
<1>2. Grounded /\ OneTask /\ FirstFire /\ EngineAhead
  BY <1>1 DEF Grounded, Housed, FreeRow, Present, OneTask, FirstFire, EngineAhead, IdleFrame
<1>3. Undone = {}
  BY <1>1 DEF Undone, UndonePage
<1> QED
  BY <1>1, <1>2, <1>3, PosInit, FS_EmptySet DEF RepeatInv, RepeatBase

LEMMA RepeatNext == RepeatInv /\ [Next]_vars => RepeatInv'
<1> SUFFICES ASSUME RepeatInv, [Next]_vars PROVE RepeatInv'
  OBVIOUS
<1>1. RepeatBase /\ TypeInv /\ Grounded /\ OneTask
  BY DEF RepeatInv, RepeatBase, PosInv, ExclInv
<1>2. RepeatBase'
  BY <1>1, PosNext, GroundedNext, OneTaskNext, UndoneNext DEF RepeatBase
<1> DEFINE n == Cardinality(Undone)
           m == Cardinality(Undone')
<1>3. /\ IsFiniteSet(Undone) /\ n \in Nat /\ m \in Nat
      /\ faults \in Nat /\ again \in Nat
  <2>1. Undone \in SUBSET (Incidents \X Positions) /\ Undone' \in SUBSET (Incidents \X Positions)
    BY DEF Undone, Positions
  <2>2. IsFiniteSet(Undone) /\ IsFiniteSet(Undone')
    BY <2>1, UndoneFinite, FS_Subset
  <2> QED
    BY <1>1, <2>2, FS_CardinalityType, ActorAssumption DEF TypeInv, TypeOK
<1>4. CASE again' = again /\ faults' = faults /\ Undone' \subseteq Undone
  <2>1. m <= n
    BY <1>3, <1>4, FS_Subset
  <2> QED
    BY <1>2, <1>3, <1>4, <2>1 DEF RepeatInv
<1>5. CASE /\ again' = again + 1 /\ faults' = faults /\ Undone' \subseteq Undone
           /\ \E x \in Undone : x \notin Undone'
  <2>1. PICK x \in Undone : x \notin Undone'
    BY <1>5
  <2>2. IsFiniteSet(Undone \ {x}) /\ Cardinality(Undone \ {x}) = n - 1
    BY <1>3, <2>1, FS_RemoveElement
  <2>3. m <= n - 1
    BY <1>5, <2>1, <2>2, FS_Subset
  <2> QED
    BY <1>2, <1>3, <1>5, <2>3 DEF RepeatInv
<1>6. CASE again' = again /\ faults' = faults + 1 /\ \E x : Undone' \subseteq Undone \cup {x}
  <2>1. PICK x : Undone' \subseteq Undone \cup {x}
    BY <1>6
  <2>2. IsFiniteSet(Undone \cup {x}) /\ Cardinality(Undone \cup {x}) <= n + 1
    BY <1>3, FS_AddElement
  <2>3. m <= Cardinality(Undone \cup {x}) /\ Cardinality(Undone \cup {x}) \in Nat
    BY <2>1, <2>2, FS_Subset, FS_CardinalityType
  <2>4. m <= n + 1
    BY <1>3, <2>2, <2>3
  <2> QED
    BY <1>2, <1>3, <1>6, <2>4 DEF RepeatInv
<1> QED
  BY <1>1, <1>4, <1>5, <1>6, UndoneNext

(* However handlers and engine hand an incident on, from row to snapshot to   *)
(* frame and back, policies are edited and people answer: a step of a round   *)
(* goes out again only for a fault, and once for each at most.                *)
THEOREM RepeatsAreFaults == Spec => []RepeatsTakeFaults
<1>1. RepeatInv => RepeatsTakeFaults
  <2> SUFFICES ASSUME RepeatInv PROVE RepeatsTakeFaults
    OBVIOUS
  <2>1. Undone \in SUBSET (Incidents \X Positions)
    BY DEF Undone
  <2>2. Cardinality(Undone) \in Nat
    BY <2>1, UndoneFinite, FS_Subset, FS_CardinalityType
  <2>3. again \in Nat /\ faults \in Nat /\ again + Cardinality(Undone) <= faults
    BY ActorAssumption DEF RepeatInv, RepeatBase, PosInv, ExclInv, TypeInv, TypeOK
  <2> QED
    BY <2>2, <2>3 DEF RepeatsTakeFaults
<1> QED
  BY <1>1, RepeatInit, RepeatNext, PTL DEF Spec

(* A wait that has run out ends, while nobody answers, in what the goroutine  *)
(* that has the incident in hand stores, and in nothing else.                 *)
LEMMA WaitEnds ==
  ASSUME TypeInv, [Next]_vars, NEW i \in Incidents,
         incidents[i].status = "triggered", incidents'[i].status = "triggered",
         incidents[i].next = "due", incidents'[i].next # "due"
  PROVE  \E p \in Actors : (Stop(p) \/ Commit(p)) /\ fire[p].inc = i
<1>1. incidents'[i] # incidents[i]
  OBVIOUS
<1>2. ASSUME NEW p \in Actors, Stop(p) \/ Commit(p)
      PROVE  fire[p].inc = i
  BY <1>1, <1>2, SetNextEffect DEF Stop, Commit, TypeInv, WellFormed
<1>3. ASSUME NEW w \in Workers, Create(w)
      PROVE  FALSE
  <2>1. PICK j \in Incidents : CreateIncident(j, request[w].svc, request[w].fp)
    BY <1>3 DEF Create
  <2> QED
    BY <1>1, <2>1, CreateEffect
<1>4. ASSUME NEW j \in Incidents, AcknowledgeIncident(j) \/ ResolveIncident(j)
      PROVE  FALSE
  BY <1>1, <1>4, CloseEffect
<1>5. ASSUME NEW j \in Incidents, Acknowledge(j) \/ Resolve(j)
      PROVE  FALSE
  BY <1>4, <1>5 DEF Acknowledge, Resolve
<1>6. ASSUME NEW w \in Workers, ResolveMatched(w)
      PROVE  FALSE
  BY <1>4, <1>6 DEF ResolveMatched, TypeInv, WellFormed
<1>7. ASSUME NEW j \in Incidents, Elapse(j)
      PROVE  FALSE
  BY <1>1, <1>7, ElapseEffect
<1>8. ASSUME NEW s \in Services, RemoveService(s)
      PROVE  FALSE
  BY <1>1, <1>8, RemoveEffect
<1> QED
  BY <1>1, <1>2, <1>3, <1>5, <1>6, <1>7, <1>8, TableUnchanged
  DEF Next, FireStep, RequestStep

(* An incident only moves forward, for any interleaving: an acknowledgement   *)
(* that comes after the resolution changes nothing, no write of the engine    *)
(* reopens an incident, none takes the position back, although fireStep       *)
(* computes it from a row it read several statements and sends earlier, and   *)
(* after a wait the position it stores is a later one.                        *)
THEOREM IncidentsOnlyMoveForward == Spec => OnlyForward
<1> DEFINE later(i) == ~Before(incidents'[i].rep, incidents'[i].step,
                               incidents[i].rep, incidents[i].step)
           step == \A i \in Incidents :
          /\ rank[incidents[i].status] <= rank[incidents'[i].status]
          /\ incidents'[i].status \in Present =>
                Before(incidents[i].rep, incidents[i].step,
                       incidents'[i].rep, incidents'[i].step)
          /\ /\ incidents[i].status = "triggered" /\ incidents'[i].status = "triggered"
             /\ incidents[i].next = "due" /\ incidents'[i].next # "due"
             => later(i)
<1>1. RepeatInv /\ [Next]_vars => step
  <2> SUFFICES ASSUME RepeatInv, [Next]_vars, NEW i \in Incidents
               PROVE  /\ rank[incidents[i].status] <= rank[incidents'[i].status]
                      /\ incidents'[i].status \in Present =>
                            Before(incidents[i].rep, incidents[i].step,
                                   incidents'[i].rep, incidents'[i].step)
                      /\ /\ incidents[i].status = "triggered" /\ incidents'[i].status = "triggered"
                         /\ incidents[i].next = "due" /\ incidents'[i].next # "due"
                         => later(i)
    OBVIOUS
  <2>1. TypeInv /\ PosInv /\ Handled /\ EngineAhead
    BY DEF RepeatInv, RepeatBase, PosInv, ExclInv
  <2>2. rank[incidents[i].status] <= rank[incidents'[i].status]
    BY <2>1, StatusNext
  <2>3. incidents'[i].status \in Present =>
          Before(incidents[i].rep, incidents[i].step,
                 incidents'[i].rep, incidents'[i].step)
    BY <2>1, PosNextStep DEF PosStep
  <2>4. ASSUME incidents[i].status = "triggered", incidents'[i].status = "triggered",
               incidents[i].next = "due", incidents'[i].next # "due"
        PROVE  later(i)
    <3>1. PICK p \in Actors : (Stop(p) \/ Commit(p)) /\ fire[p].inc = i
      BY <2>1, <2>4, WaitEnds
    <3>2. Busy(p)
      BY <3>1 DEF Stop, Commit, Busy
    <3>3. /\ incidents[i].status = "triggered"
          /\ incidents'[i].rep = fire[p].rep /\ incidents'[i].step = fire[p].step
      BY <2>1, <2>4, <3>1, SetNextEffect DEF Stop, Commit, Present
    <3>4. p = Engine
      BY <2>1, <2>4, <3>1, <3>2, <3>3 DEF Handled, Actors
    <3> QED
      BY <2>1, <3>1, <3>2, <3>3, <3>4 DEF EngineAhead, After, Present
  <2> QED
    BY <2>2, <2>3, <2>4
<1> QED
  BY <1>1, RepeatInit, RepeatNext, PTL DEF Spec, OnlyForward

(* fireStep never goes around in circles: each of its steps leaves less to    *)
(* do, whatever is edited under it.                                           *)
THEOREM FireStepTerminates == Spec => FireStepEnds
<1> DEFINE ends(p) == fire'[p] = IdleFrame \/ Remaining(p)' < Remaining(p)
<1>1. ASSUME TypeInv, NEW p \in Actors, FireStep(p)
      PROVE  ends(p)
  <2>1. /\ fire \in [Actors -> Frame] /\ fire[p] \in Frame
        /\ fire[p].rep \in 0..MaxRepeat /\ MaxRepeat \in Nat
        /\ policies \in [Policies -> Policy]
    BY <1>1, StoreAssumption DEF TypeInv, TypeOK, StoreTypeOK, Frame
  <2>2. CASE fire' = [fire EXCEPT ![p] = IdleFrame]
    BY <2>1, <2>2
  <2>3. ASSUME NEW pc, fire' = [fire EXCEPT ![p].pc = pc],
               \/ fire[p].pc = "load" /\ pc \in {"notify", "log", "policy"}
               \/ fire[p].pc = "policy" /\ pc = "log"
               \/ fire[p].pc = "log" /\ pc = "stop"
               \/ fire[p].pc = "notify" /\ pc = "commit"
        PROVE  ends(p)
    <3>1. fire'[p].pc = pc /\ fire'[p].rep = fire[p].rep
      BY <2>1, <2>3 DEF Frame
    <3> QED
      BY <2>1, <2>3, <3>1 DEF Remaining
  <2>4. ASSUME fire[p].pc = "policy",
               fire' = [fire EXCEPT ![p] = [pc |-> "load", inc |-> fire[p].inc,
                                            step |-> 0, rep |-> fire[p].rep + 1]]
        PROVE  ends(p)
    <3>1. fire'[p].pc = "load" /\ fire'[p].rep = fire[p].rep + 1
      BY <2>1, <2>4
    <3> QED
      BY <2>1, <2>4, <3>1 DEF Remaining
  <2>5. CASE LoadSteps(p)
    BY <2>2, <2>3, <2>5 DEF LoadSteps, Return, Goto
  <2>6. CASE LoadPolicy(p)
    BY <2>2, <2>3, <2>4, <2>6 DEF LoadPolicy, Return, Goto
  <2>7. CASE LogExhausted(p) \/ Notify(p)
    BY <2>3, <2>7 DEF LogExhausted, Notify, Goto
  <2>8. CASE Stop(p) \/ Commit(p)
    BY <2>2, <2>8 DEF Stop, Commit, Return
  <2> QED
    BY <1>1, <2>5, <2>6, <2>7, <2>8 DEF FireStep
<1>2. TypeInv /\ [Next]_vars => [\A p \in Actors : FireStep(p) => ends(p)]_vars
  BY <1>1
<1> QED
  BY <1>2, TypeInit, TypeNext, PTL DEF Spec, FireStepEnds

-----------------------------------------------------------------------------
(* Silence is bounded by the faults.  Lost are the incidents that are silent  *)
(* already, and those about to be, their frame at the last statement without  *)
(* the timeline having said why.  Only faults add to them.  What the engine   *)
(* has in hand survives a crash, because its row stays due until its step is  *)
(* done; a policy's end that it fails to log adds one.                        *)
Held(i) == Queued(i) \/ (Busy(Engine) /\ fire[Engine].inc = i)

Armed == \A i \in Incidents :
            incidents[i].status = "triggered" /\ Held(i) => incidents[i].next = "due"

Stopping(i) == \E p \in Actors : fire[p].pc = "stop" /\ fire[p].inc = i

Lost(i) ==
    /\ incidents[i].status = "triggered"
    /\ i \notin exhausted
    /\ \/ incidents[i].next = "none" /\ ~Claimed(i)
       \/ Stopping(i)

LostIds == {i \in Incidents : Lost(i)}

SilenceBase == ExclInv /\ Grounded /\ OneTask /\ Armed

SilenceInv == SilenceBase /\ Cardinality(LostIds) <= faults * Cardinality(Workers)

(* Frames and queue stay; rows change, or go. *)
LEMMA SilenceTable ==
  ASSUME Armed, UNCHANGED <<due, fire>>,
         \A i \in Incidents : incidents'[i].status = "triggered" =>
            /\ incidents[i].status = "triggered"
            /\ \/ incidents'[i].next = incidents[i].next
               \/ incidents'[i].next = "due"
            /\ i \in exhausted => i \in exhausted'
  PROVE  Armed' /\ LostIds' \subseteq LostIds
<1>1. \A i : /\ Claimed(i)' <=> Claimed(i)
             /\ Held(i)' <=> Held(i)
             /\ Stopping(i)' <=> Stopping(i)
  BY DEF Claimed, Held, Queued, Stopping
<1> QED
  BY <1>1 DEF Armed, LostIds, Lost

(* Frames and queue move.  Only what is gone, or armed, is let go of, but for *)
(* the excepted; and who stops in silence did so before, but for the same.    *)
LEMMA SilenceFrame ==
  ASSUME Armed, UNCHANGED incidents, exhausted \subseteq exhausted', NEW Excepted,
         \A i \in Incidents : incidents[i].status = "triggered" =>
            /\ Held(i)' => Held(i) \/ incidents[i].next = "due"
            /\ Claimed(i) => Claimed(i)' \/ incidents[i].next # "none" \/ i \in Excepted
            /\ Stopping(i)' => Stopping(i) \/ i \in exhausted' \/ i \in Excepted
  PROVE  Armed' /\ LostIds' \subseteq LostIds \cup Excepted
<1>1. Armed'
  BY DEF Armed
<1>2. ASSUME NEW i \in Incidents, Lost(i)'
      PROVE  i \in LostIds \cup Excepted
  <2>1. /\ incidents[i].status = "triggered" /\ i \notin exhausted
        /\ (incidents[i].next = "none" /\ ~Claimed(i)') \/ Stopping(i)'
    BY <1>2 DEF Lost
  <2> QED
    BY <1>2, <2>1 DEF Lost, LostIds
<1> QED
  BY <1>1, <1>2 DEF LostIds

(* fireStep up to its last statement. *)
LEMMA SilenceLoad ==
  ASSUME SilenceBase, NEW p \in Actors,
         LoadSteps(p) \/ LoadPolicy(p) \/ LogExhausted(p) \/ Notify(p)
  PROVE  Armed' /\ LostIds' \subseteq LostIds
<1>0. /\ TypeInv /\ fire \in [Actors -> Frame] /\ fire[p] \in Frame
      /\ Busy(p) /\ fire[p].inc \in Incidents
  BY PosTypes DEF SilenceBase, ExclInv, LoadSteps, LoadPolicy, LogExhausted, Notify, Frame
<1>1. UNCHANGED <<incidents, due>> /\ exhausted \subseteq exhausted'
  BY DEF LoadSteps, LoadPolicy, LogExhausted, Notify
<1>2. \/ Return(p) /\ incidents[fire[p].inc].svc \notin services
      \/ \E pc \in {"notify", "log", "policy", "commit"} : Goto(p, pc)
      \/ LogExhausted(p) /\ Goto(p, "stop")
      \/ fire' = [fire EXCEPT ![p] = [pc |-> "load", inc |-> fire[p].inc,
                                      step |-> 0, rep |-> fire[p].rep + 1]]
  BY DEF LoadSteps, LoadPolicy, LogExhausted, Notify
<1>3. \A q \in Actors : q # p => fire'[q] = fire[q]
  BY <1>0, <1>2 DEF Return, Goto
<1>4. \/ ~Busy(p)' /\ incidents[fire[p].inc].status # "triggered"
      \/ /\ Busy(p)' /\ fire'[p].inc = fire[p].inc
         /\ fire'[p].pc = "stop" => LogExhausted(p)
  <2>1. CASE Return(p) /\ incidents[fire[p].inc].svc \notin services
    BY <1>0, <2>1 DEF Return, IdleFrame, SilenceBase, Grounded, Housed, Present
  <2>2. CASE ~(Return(p) /\ incidents[fire[p].inc].svc \notin services)
    BY <1>0, <1>2, <2>2 DEF Goto, Frame
  <2> QED
    BY <2>1, <2>2
<1>5. ASSUME NEW i \in Incidents, incidents[i].status = "triggered"
      PROVE  /\ Held(i)' => Held(i)
             /\ Claimed(i) => Claimed(i)'
             /\ Stopping(i)' => Stopping(i) \/ i \in exhausted'
  <2>1. Held(i)' => Held(i)
    BY <1>0, <1>1, <1>3, <1>4 DEF Held, Queued
  <2>2. Claimed(i) => Claimed(i)'
    BY <1>0, <1>1, <1>3, <1>4, <1>5 DEF Claimed, Queued
  <2>3. Stopping(i)' => Stopping(i) \/ i \in exhausted'
    <3> SUFFICES ASSUME NEW q \in Actors, fire'[q].pc = "stop", fire'[q].inc = i
                 PROVE  Stopping(i) \/ i \in exhausted'
      BY DEF Stopping
    <3>1. CASE q # p
      BY <1>3, <3>1 DEF Stopping
    <3>2. CASE q = p
      <4>1. Busy(p)' /\ fire[p].inc = i /\ LogExhausted(p)
        BY <1>4, <3>2
      <4> QED
        BY <1>5, <4>1 DEF LogExhausted, Present
    <3> QED
      BY <3>1, <3>2
  <2> QED
    BY <2>1, <2>2, <2>3
<1>6. Armed
  BY DEF SilenceBase
<1>7. Armed' /\ LostIds' \subseteq LostIds \cup {}
  BY <1>1, <1>5, <1>6, SilenceFrame
<1> QED
  BY <1>7

(* fireStep's last statement, which arms the row or stops for good. *)
LEMMA SilenceStored ==
  ASSUME SilenceBase, NEW p \in Actors, Stop(p) \/ Commit(p)
  PROVE  Armed' /\ LostIds' \subseteq LostIds
<1>0. TypeInv /\ FireExclusive /\ fire[p].inc \in Incidents /\ Busy(p) /\ fire \in [Actors -> Frame]
  BY PosTypes DEF SilenceBase, ExclInv, Stop, Commit
<1>1. PICK j \in Incidents : j = fire[p].inc
  BY <1>0
<1>2. /\ \A i \in Incidents : incidents'[i].status = incidents[i].status
      /\ \A i \in Incidents : i # j => incidents'[i] = incidents[i]
      /\ incidents[j].status \in Present => (incidents'[j].next = "none" => fire[p].pc = "stop")
  <2>1. CASE Stop(p)
    BY <1>0, <1>1, <2>1, SetNextEffect DEF Stop
  <2>2. CASE Commit(p)
    BY <1>0, <1>1, <2>2, SetNextEffect DEF Commit
  <2> QED
    BY <2>1, <2>2
<1>3. UNCHANGED <<due, exhausted>> /\ fire' = [fire EXCEPT ![p] = IdleFrame]
  BY DEF Stop, Commit, Return
<1>4. ~Busy(p)' /\ fire'[p].pc # "stop" /\ \A q \in Actors : q # p => fire'[q] = fire[q]
  BY <1>0, <1>3 DEF IdleFrame
<1>5. ~Claimed(j)' /\ ~Held(j)' /\ ~Stopping(j)'
  <2>1. \A q \in Actors : Busy(q) /\ fire[q].inc = j => q = p
    BY <1>0, <1>1 DEF FireExclusive
  <2>2. ~Queued(j)
    BY <1>0, <1>1 DEF FireExclusive
  <2>3. \A q \in Actors : Busy(q)' => fire'[q].inc # j
    BY <1>4, <2>1
  <2>4. \A q \in Actors : fire'[q].pc = "stop" => fire'[q].inc # j
    BY <1>4, <2>1
  <2> QED
    BY <1>3, <2>2, <2>3, <2>4 DEF Claimed, Held, Queued, Stopping
<1>6. \A i : i # j => /\ Claimed(i)' <=> Claimed(i)
                      /\ Held(i)' => Held(i)
                      /\ Stopping(i)' => Stopping(i)
  BY <1>1, <1>3, <1>4 DEF Claimed, Held, Queued, Stopping
<1>7. Armed'
  BY <1>2, <1>5, <1>6 DEF Armed, SilenceBase
<1>8. ASSUME NEW i \in Incidents, Lost(i)' PROVE Lost(i)
  <2>1. CASE i # j
    BY <1>2, <1>3, <1>6, <1>8, <2>1 DEF Lost
  <2>2. CASE i = j
    <3>1. /\ incidents[j].status = "triggered" /\ j \notin exhausted
          /\ incidents'[j].next = "none"
      BY <1>2, <1>3, <1>5, <1>8, <2>2 DEF Lost
    <3>2. Stopping(j)
      BY <1>1, <1>2, <3>1 DEF Present, Stopping
    <3> QED
      BY <2>2, <3>1, <3>2 DEF Lost
  <2> QED
    BY <2>1, <2>2
<1> QED
  BY <1>7, <1>8 DEF LostIds

LEMMA SilenceTick ==
  ASSUME SilenceBase, Tick \/ TickNext
  PROVE  Armed' /\ LostIds' \subseteq LostIds
<1>0. Armed /\ TypeInv /\ fire \in [Actors -> Frame] /\ Engine \in Actors
  BY PosTypes DEF SilenceBase, ExclInv
<1>1. UNCHANGED incidents /\ exhausted \subseteq exhausted'
  BY DEF Tick, TickNext
<1>2. ASSUME Tick, NEW i \in Incidents
      PROVE  /\ Held(i)' => Held(i) \/ incidents[i].next = "due"
             /\ Claimed(i) => Claimed(i)'
             /\ Stopping(i)' => Stopping(i)
  BY <1>2 DEF Tick, DueForEscalation, Held, Queued, Claimed, Stopping
<1>3. ASSUME TickNext, NEW i \in Incidents
      PROVE  /\ Held(i)' => Held(i)
             /\ Claimed(i) => Claimed(i)'
             /\ Stopping(i)' => Stopping(i)
  <2>1. PICK d \in due :
          /\ due' = due \ {d}
          /\ fire' = [fire EXCEPT ![Engine] =
                        [pc |-> "load", inc |-> d.inc, step |-> d.step + 1, rep |-> d.rep]]
    BY <1>3 DEF TickNext
  <2>2. /\ fire'[Engine].inc = d.inc /\ fire'[Engine].pc = "load"
        /\ \A q \in Actors : q # Engine => fire'[q] = fire[q]
        /\ ~Busy(Engine)
    BY <1>0, <1>3, <2>1 DEF TickNext
  <2> QED
    BY <1>0, <2>1, <2>2 DEF Held, Queued, Claimed, Stopping
<1>4. Armed' /\ LostIds' \subseteq LostIds \cup {}
  BY <1>0, <1>1, <1>2, <1>3, SilenceFrame
<1> QED
  BY <1>4

LEMMA SilenceCreate ==
  ASSUME SilenceBase, NEW w \in Workers, Create(w)
  PROVE  Armed' /\ LostIds' \subseteq LostIds
<1>0. /\ TypeInv /\ Handled /\ Armed /\ fire \in [Actors -> Frame]
      /\ ~Busy(w) /\ w \in Actors /\ w # Engine
  BY PosTypes, ActorAssumption DEF SilenceBase, ExclInv, OneTask, Create
<1>1. PICK j \in Incidents :
        /\ CreateIncident(j, request[w].svc, request[w].fp)
        /\ fire' = [fire EXCEPT ![w] = [pc |-> "load", inc |-> j, step |-> 0, rep |-> 0]]
  BY DEF Create
<1>2. /\ incidents[j].status = "free"
      /\ \A i \in Incidents : i # j => incidents'[i] = incidents[i]
  BY <1>0, <1>1, CreateEffect
<1>3. /\ UNCHANGED <<due, exhausted>>
      /\ fire'[w] = [pc |-> "load", inc |-> j, step |-> 0, rep |-> 0]
      /\ \A q \in Actors : q # w => fire'[q] = fire[q]
  BY <1>0, <1>1 DEF Create
<1>4. /\ \A q \in Actors : Busy(q) => fire[q].inc # j
      /\ \A d \in due : d.inc # j
  BY <1>0, <1>2 DEF Handled
<1>5. Claimed(j)' /\ ~Held(j)' /\ ~Stopping(j)'
  <2>1. \A q \in Actors : fire'[q].pc = "stop" => fire'[q].inc # j
    BY <1>3, <1>4
  <2> QED
    BY <1>0, <1>3, <1>4, <2>1 DEF Claimed, Held, Queued, Stopping
<1>6. \A i : i # j => /\ Claimed(i)' <=> Claimed(i)
                      /\ Held(i)' <=> Held(i)
                      /\ Stopping(i)' <=> Stopping(i)
  <2>1. \A i : Held(i)' <=> Held(i)
    BY <1>0, <1>3 DEF Held, Queued
  <2>2. \A i : i # j => (Claimed(i)' <=> Claimed(i))
    BY <1>0, <1>3 DEF Claimed, Queued
  <2>3. \A i : Stopping(i)' <=> Stopping(i)
    BY <1>0, <1>3 DEF Stopping
  <2> QED
    BY <2>1, <2>2, <2>3
<1>7. Armed'
  BY <1>0, <1>2, <1>5, <1>6 DEF Armed
<1> QED
  BY <1>2, <1>3, <1>5, <1>6, <1>7 DEF LostIds, Lost

(* What a fault costs: one incident, or those the handlers had in hand. *)
InHand == {fire[w].inc : w \in Workers}

LEMMA SilenceError ==
  ASSUME SilenceBase, NEW p \in Actors, FireError(p)
  PROVE  Armed' /\ LostIds' \subseteq LostIds \cup {fire[p].inc}
<1>0. Armed /\ TypeInv /\ fire \in [Actors -> Frame] /\ fire[p] \in Frame
  BY PosTypes DEF SilenceBase, ExclInv
<1>1. /\ UNCHANGED <<incidents, due, exhausted>>
      /\ Return(p) \/ (Busy(p) /\ Goto(p, "stop"))
  BY DEF FireError
<1>2. /\ \A q \in Actors : q # p => fire'[q] = fire[q]
      /\ \/ fire'[p].pc = "idle"
         \/ Busy(p) /\ fire'[p].pc = "stop" /\ fire'[p].inc = fire[p].inc
  BY <1>0, <1>1 DEF Return, Goto, IdleFrame, Frame
<1>3. ASSUME NEW i \in Incidents
      PROVE  /\ Held(i)' => Held(i)
             /\ Claimed(i) => Claimed(i)' \/ i \in {fire[p].inc}
             /\ Stopping(i)' => Stopping(i) \/ i \in {fire[p].inc}
  BY <1>1, <1>2 DEF Held, Queued, Claimed, Stopping
<1> QED
  BY <1>0, <1>1, <1>3, SilenceFrame

LEMMA SilenceCrash ==
  ASSUME SilenceBase, Restart
  PROVE  Armed' /\ LostIds' \subseteq LostIds \cup InHand
<1>1. /\ UNCHANGED <<incidents, exhausted>> /\ due' = {}
      /\ \A p \in Actors : fire'[p] = IdleFrame
  BY DEF Restart
<1>2. ASSUME NEW i \in Incidents, incidents[i].status = "triggered"
      PROVE  /\ ~Held(i)' /\ ~Stopping(i)'
             /\ Claimed(i) => incidents[i].next # "none" \/ i \in InHand
  <2>1. ~Held(i)' /\ ~Stopping(i)'
    BY <1>1 DEF Held, Queued, Stopping, IdleFrame
  <2>2. ASSUME Claimed(i) PROVE Held(i) \/ i \in InHand
    BY <2>2 DEF Claimed, Held, InHand
  <2>3. Held(i) => incidents[i].next = "due"
    BY <1>2 DEF SilenceBase, Armed
  <2> QED
    BY <2>1, <2>2, <2>3
<1> QED
  BY <1>1, <1>2, SilenceFrame DEF SilenceBase

(* Every step, by what it may add to the lost. *)
LEMMA LostNext ==
  ASSUME SilenceBase, [Next]_vars
  PROVE  /\ Armed'
         /\ \/ faults' = faults /\ LostIds' \subseteq LostIds
            \/ faults' = faults + 1 /\ LostIds' \subseteq LostIds \cup InHand
            \/ faults' = faults + 1 /\ \E p \in Actors : LostIds' \subseteq LostIds \cup {fire[p].inc}
<1> DEFINE Goal == \/ faults' = faults /\ LostIds' \subseteq LostIds
                   \/ faults' = faults + 1 /\ LostIds' \subseteq LostIds \cup InHand
                   \/ faults' = faults + 1 /\ \E p \in Actors : LostIds' \subseteq LostIds \cup {fire[p].inc}
<1>0. Armed /\ TypeInv
  BY DEF SilenceBase, ExclInv
<1>1. CASE Restart
  BY <1>1, SilenceCrash DEF Restart
<1>2. ASSUME NEW p \in Actors, FireError(p) PROVE Armed' /\ Goal
  BY <1>2, SilenceError DEF FireError
<1>3. ASSUME NEW w \in Workers, RequestError(w) PROVE Armed' /\ Goal
  <2>1. UNCHANGED <<incidents, due, fire, exhausted>> /\ faults' = faults + 1
    BY <1>3 DEF RequestError
  <2>2. Armed' /\ LostIds' \subseteq LostIds
    BY <1>0, <2>1, SilenceTable
  <2> QED
    BY <2>1, <2>2
<1>4. CASE Tick \/ TickNext
  BY <1>4, SilenceTick DEF Tick, TickNext
<1>5. ASSUME NEW p \in Actors, FireStep(p) PROVE Armed' /\ Goal
  <2>1. faults' = faults
    BY <1>5 DEF FireStep, LoadSteps, LoadPolicy, LogExhausted, Stop, Notify, Commit
  <2> QED
    BY <1>5, <2>1, SilenceLoad, SilenceStored DEF FireStep
<1>6. ASSUME NEW w \in Workers, Create(w) PROVE Armed' /\ Goal
  BY <1>6, SilenceCreate DEF Create
<1>7. ASSUME \/ UNCHANGED vars
             \/ \E q \in Policies : EditPolicy(q)
             \/ \E w \in Workers :
                  \/ Lookup(w) \/ CreateFails(w) \/ MatchResolved(w)
                  \/ \E s \in Services, fp \in Fingerprints \cup {NoFingerprint} :
                        Ingest(w, s, fp) \/ SourceResolved(w, s, fp)
      PROVE  Armed' /\ Goal
  <2>1. UNCHANGED <<incidents, due, fire, exhausted, faults>>
    BY <1>7 DEF vars, EditPolicy, Lookup, CreateFails, MatchResolved, Ingest, SourceResolved
  <2> QED
    BY <1>0, <2>1, SilenceTable
<1>8. ASSUME NEW i \in Incidents, AcknowledgeIncident(i) \/ ResolveIncident(i),
             UNCHANGED <<due, fire, exhausted, faults>>
      PROVE  Armed' /\ Goal
  <2>1. \A j \in Incidents : incidents'[j].status = "triggered" => incidents'[j] = incidents[j]
    BY <1>0, <1>8, CloseEffect
  <2> QED
    BY <1>0, <1>8, <2>1, SilenceTable
<1>9. ASSUME NEW w \in Workers, ResolveMatched(w) PROVE Armed' /\ Goal
  BY <1>0, <1>8, <1>9 DEF ResolveMatched, TypeInv, WellFormed
<1>10. ASSUME NEW i \in Incidents, Acknowledge(i) \/ Resolve(i) PROVE Armed' /\ Goal
  BY <1>8, <1>10 DEF Acknowledge, Resolve
<1>11. ASSUME NEW i \in Incidents, Elapse(i) PROVE Armed' /\ Goal
  <2>1. UNCHANGED <<due, fire, exhausted, faults>>
    BY <1>11 DEF Elapse
  <2>2. \A j \in Incidents : /\ incidents'[j].status = incidents[j].status
                             /\ incidents'[j].next = incidents[j].next \/ incidents'[j].next = "due"
    BY <1>0, <1>11, ElapseEffect
  <2> QED
    BY <1>0, <2>1, <2>2, SilenceTable
<1>12. ASSUME NEW s \in Services, RemoveService(s) PROVE Armed' /\ Goal
  <2>1. UNCHANGED <<due, fire, faults>>
    BY <1>12, RemoveEffect, <1>0 DEF RemoveService
  <2>2. \A j \in Incidents : incidents'[j].status = "triggered" =>
          incidents'[j] = incidents[j] /\ (j \in exhausted => j \in exhausted')
    BY <1>0, <1>12 DEF RemoveService, DeleteService, FreeRow
  <2> QED
    BY <1>0, <2>1, <2>2, SilenceTable
<1> HIDE DEF Goal
<1>13. Armed' /\ Goal
  BY <1>1, <1>2, <1>3, <1>4, <1>5, <1>6, <1>7, <1>9, <1>10, <1>11, <1>12
  DEF Next, RequestStep, Goal
<1> QED
  BY <1>13 DEF Goal

(* Counting them. *)
LEMMA LostFinite == IsFiniteSet(LostIds) /\ Cardinality(LostIds) \in Nat
<1>1. LostIds \in SUBSET Incidents /\ IsFiniteSet(Incidents)
  BY StoreAssumption DEF LostIds
<1>2. IsFiniteSet(LostIds)
  BY <1>1, FS_Subset
<1> QED
  BY <1>2, FS_CardinalityType

LEMMA InHandBounded ==
  IsFiniteSet(InHand) /\ Cardinality(InHand) <= Cardinality(Workers)
<1> DEFINE f == [w \in Workers |-> fire[w].inc]
<1>1. f \in Surjection(Workers, InHand)
  BY DEF Surjection, InHand
<1> QED
  BY <1>1, FS_Surjection, ActorAssumption

LEMMA UnionBounded ==
  ASSUME NEW S, NEW T, NEW U, IsFiniteSet(S), IsFiniteSet(T), U \subseteq S \cup T
  PROVE  Cardinality(U) <= Cardinality(S) + Cardinality(T)
<1>1. /\ IsFiniteSet(S \cup T)
      /\ Cardinality(S \cup T) = Cardinality(S) + Cardinality(T) - Cardinality(S \cap T)
  BY FS_Union
<1>2. S \cap T \in SUBSET S /\ U \in SUBSET (S \cup T)
  OBVIOUS
<1>3. IsFiniteSet(S \cap T) /\ IsFiniteSet(U) /\ Cardinality(U) <= Cardinality(S \cup T)
  BY <1>1, <1>2, FS_Subset
<1>4. /\ Cardinality(S) \in Nat /\ Cardinality(T) \in Nat /\ Cardinality(U) \in Nat
      /\ Cardinality(S \cap T) \in Nat /\ Cardinality(S \cup T) \in Nat
  BY <1>1, <1>3, FS_CardinalityType
<1> QED
  BY <1>1, <1>3, <1>4

LEMMA SilenceInit == Init => SilenceInv
<1> SUFFICES ASSUME Init PROVE SilenceInv
  OBVIOUS
<1>1. /\ due = {} /\ faults = 0 /\ \A p \in Actors : fire[p] = IdleFrame
      /\ \A i \in Incidents : fired[i] = {} /\ incidents[i] = FreeRow
      /\ \A w \in Workers : request[w].pc = "idle"
  BY DEF Init, StoreInit, IdleRequest
<1>2. Grounded /\ OneTask /\ Armed
  BY <1>1 DEF Grounded, Housed, FreeRow, Present, OneTask, Armed
<1>3. LostIds = {}
  BY <1>1 DEF LostIds, Lost, FreeRow
<1>4. Cardinality(LostIds) = 0 /\ Cardinality(Workers) \in Nat
  BY <1>3, FS_EmptySet, FS_CardinalityType, ActorAssumption
<1>5. Cardinality(LostIds) <= faults * Cardinality(Workers)
  BY <1>1, <1>4
<1> QED
  BY <1>2, <1>5, ExclInit DEF SilenceInv, SilenceBase

LEMMA SilenceNext == SilenceInv /\ [Next]_vars => SilenceInv'
<1> SUFFICES ASSUME SilenceInv, [Next]_vars PROVE SilenceInv'
  OBVIOUS
<1>1. SilenceBase /\ TypeInv
  BY DEF SilenceInv, SilenceBase, ExclInv
<1>2. SilenceBase'
  BY <1>1, ExclNext, GroundedNext, OneTaskNext, LostNext DEF SilenceBase
<1> DEFINE n == Cardinality(LostIds)
           m == Cardinality(LostIds')
           W == Cardinality(Workers)
<1>3. n \in Nat /\ m \in Nat /\ IsFiniteSet(LostIds)
  <2>1. LostIds' \in SUBSET Incidents
    BY DEF LostIds
  <2>2. IsFiniteSet(LostIds')
    BY <2>1, FS_Subset, StoreAssumption
  <2> QED
    BY <2>2, LostFinite, FS_CardinalityType
<1>4. W \in Nat /\ W >= 1 /\ faults \in Nat
  <2>1. W \in Nat /\ W # 0
    BY ActorAssumption, FS_CardinalityType, FS_EmptySet
  <2> QED
    BY <1>1, <2>1, ActorAssumption DEF TypeInv, TypeOK
<1>5. n <= faults * W
  BY DEF SilenceInv
<1>6. \/ faults' = faults /\ m <= n
      \/ faults' = faults + 1 /\ m <= n + W
  <2>1. CASE faults' = faults /\ LostIds' \subseteq LostIds
    BY <1>3, <2>1, FS_Subset
  <2>2. CASE faults' = faults + 1 /\ LostIds' \subseteq LostIds \cup InHand
    <3>1. m <= n + Cardinality(InHand)
      BY <1>3, <2>2, UnionBounded, InHandBounded
    <3>2. Cardinality(InHand) <= W /\ Cardinality(InHand) \in Nat
      BY InHandBounded, FS_CardinalityType
    <3> QED
      BY <1>3, <1>4, <2>2, <3>1, <3>2
  <2>3. ASSUME faults' = faults + 1, NEW p \in Actors, LostIds' \subseteq LostIds \cup {fire[p].inc}
        PROVE  faults' = faults + 1 /\ m <= n + W
    <3>1. IsFiniteSet({fire[p].inc}) /\ Cardinality({fire[p].inc}) = 1
      BY FS_Singleton
    <3>2. m <= n + 1
      BY <1>3, <2>3, <3>1, UnionBounded
    <3> QED
      BY <1>3, <1>4, <2>3, <3>2
  <2> HIDE DEF m, n, W
  <2> QED
    BY <1>1, <2>1, <2>2, <2>3, LostNext
<1>7. m <= faults' * W
  <2> HIDE DEF m, n, W
  <2>1. (faults + 1) * W = faults * W + W /\ faults * W \in Nat
    BY <1>4
  <2> QED
    BY <1>3, <1>4, <1>5, <1>6, <2>1
<1> QED
  BY <1>2, <1>7 DEF SilenceInv

(* No incident is left to silence but by a fault, and each fault leaves no    *)
(* more than there are handlers: while it is triggered, somebody works on     *)
(* it, its row is armed for the engine, or its timeline says that the policy  *)
(* is exhausted, whatever becomes of policies and services.                   *)
THEOREM SilenceTakesAFault == Spec => []SilenceIsBounded
<1>1. SilenceInv => SilenceIsBounded
  <2> SUFFICES ASSUME SilenceInv PROVE SilenceIsBounded
    OBVIOUS
  <2> DEFINE S == {i \in Incidents : Silent(i)}
  <2>1. S \in SUBSET LostIds
    BY DEF LostIds, Lost, Silent
  <2>2. Cardinality(S) <= Cardinality(LostIds) /\ Cardinality(S) \in Nat
    BY <2>1, LostFinite, FS_Subset, FS_CardinalityType
  <2>3. /\ Cardinality(LostIds) <= faults * Cardinality(Workers)
        /\ faults \in Nat /\ Cardinality(Workers) \in Nat
    BY ActorAssumption, FS_CardinalityType DEF SilenceInv, SilenceBase, ExclInv, TypeInv, TypeOK
  <2>4. faults * Cardinality(Workers) \in Nat
    BY <2>3
  <2> HIDE DEF S
  <2>5. Cardinality(S) <= faults * Cardinality(Workers)
    BY <2>2, <2>3, <2>4, LostFinite
  <2> QED
    BY <2>5 DEF S, SilenceIsBounded
<1> QED
  BY <1>1, SilenceInit, SilenceNext, PTL DEF Spec

-----------------------------------------------------------------------------
(* The whole policy.  With policies and services left alone, what an          *)
(* incident's policy asks for does not change, and wherever the incident      *)
(* stands, everything up to there has been paged.                             *)
PolicyFor(i) == policies[PolicyOf[incidents[i].svc]]
Rounds(i)    == IF PolicyFor(i).len = 0 THEN {}
                ELSE (0..PolicyFor(i).repeat) \X (0..(PolicyFor(i).len - 1))

UpTo(i, r, k)  == \A pos \in Rounds(i) : Before(pos[1], pos[2], r, k) => pos \in fired[i]
Below(i, r, k) == \A pos \in Rounds(i) :
                     Before(pos[1], pos[2], r, k) /\ pos # <<r, k>> => pos \in fired[i]

RunRow(i) ==
    /\ fired[i] \subseteq Rounds(i)
    /\ i \in exhausted => Rounds(i) \subseteq fired[i]
    /\ incidents[i].next # "none" =>
          /\ incidents[i].rep <= PolicyFor(i).repeat
          /\ UpTo(i, incidents[i].rep, incidents[i].step)

RunQueued(d) == d.rep <= PolicyFor(d.inc).repeat /\ UpTo(d.inc, d.rep, d.step)

RunFrame(f) ==
    /\ f.rep <= PolicyFor(f.inc).repeat
    /\ f.pc \in {"load", "policy", "notify"} => Below(f.inc, f.rep, f.step)
    /\ f.pc = "policy" => f.step >= PolicyFor(f.inc).len
    /\ f.pc = "notify" => f.step < PolicyFor(f.inc).len
    /\ f.pc \in {"log", "stop"} => Rounds(f.inc) \subseteq fired[f.inc]
    /\ f.pc = "commit" => UpTo(f.inc, f.rep, f.step)

OnTrack ==
    /\ \A i \in Incidents : incidents[i].status \in Present \cup {"free"}
    /\ \A i \in exhausted : incidents[i].status # "free"
    /\ \A i \in Incidents : incidents[i].status # "free" => RunRow(i)
    /\ \A d \in due : RunQueued(d)
    /\ \A p \in Actors : Busy(p) => RunFrame(fire[p])

RunInv == ExclInv /\ Grounded /\ (MayEdit \/ OnTrack)

(* A row that is there keeps its service, as long as none is deleted. *)
SameService ==
    \A i \in Incidents : incidents[i].status # "free" =>
        incidents'[i].status # "free" /\ incidents'[i].svc = incidents[i].svc

LEMMA ServiceKept ==
  ASSUME TypeInv, ~MayEdit, [Next]_vars PROVE SameService /\ UNCHANGED policies
<1>1. UNCHANGED policies
  BY DEF Next, vars, Tick, TickNext, FireStep, LoadSteps, LoadPolicy, LogExhausted, Stop,
         Notify, Commit, FireError, RequestStep, Lookup, Create, CreateFails, MatchResolved,
         ResolveMatched, RequestError, Ingest, SourceResolved, Acknowledge, Resolve, Elapse,
         RemoveService, EditPolicy, Restart
<1>2. UNCHANGED incidents => SameService
  BY DEF SameService
<1>3. incidents \in [Incidents -> Row]
  BY DEF TypeInv, TypeOK, StoreTypeOK
<1>4. ASSUME NEW i \in Incidents,
             \/ AcknowledgeIncident(i) \/ ResolveIncident(i)
             \/ \E k, r, n : SetNextEscalation(i, k, r, n)
             \/ Elapse(i)
      PROVE  SameService
  <2> DEFINE same(row) == row.status # "free" /\ row.svc = incidents[i].svc
  <2>1. SUFFICES incidents[i].status # "free" => same(incidents'[i])
    <3>1. \A j \in Incidents : j # i => incidents'[j] = incidents[j]
      BY <1>3, <1>4 DEF AcknowledgeIncident, ResolveIncident, SetNextEscalation, Elapse
    <3> QED
      BY <3>1 DEF SameService
  <2>2. CASE AcknowledgeIncident(i)
    BY <1>3, <2>2 DEF AcknowledgeIncident, Row
  <2>3. CASE ResolveIncident(i)
    BY <1>3, <2>3 DEF ResolveIncident, Row
  <2>4. ASSUME NEW k, NEW r, NEW n, SetNextEscalation(i, k, r, n)
        PROVE  incidents[i].status # "free" => same(incidents'[i])
    BY <1>3, <2>4 DEF SetNextEscalation, Row
  <2>5. CASE Elapse(i)
    BY <1>3, <2>5 DEF Elapse, Row
  <2> HIDE DEF same
  <2> QED
    BY <1>4, <2>2, <2>3, <2>4, <2>5
<1>5. ASSUME NEW w \in Workers, Create(w) PROVE SameService
  <2>1. PICK i \in Incidents : CreateIncident(i, request[w].svc, request[w].fp)
    BY <1>5 DEF Create
  <2> QED
    BY <2>1, CreateEffect DEF SameService
<1>6. ASSUME NEW p \in Actors, Stop(p) \/ Commit(p) PROVE SameService
  <2>1. fire[p].inc \in Incidents
    BY <1>6, PosTypes DEF Stop, Commit
  <2> QED
    BY <1>4, <1>6, <2>1 DEF Stop, Commit
<1>7. ASSUME NEW w \in Workers, ResolveMatched(w) PROVE SameService
  BY <1>4, <1>7 DEF ResolveMatched, TypeInv, WellFormed
<1>8. ASSUME NEW i \in Incidents, Acknowledge(i) \/ Resolve(i) \/ Elapse(i) PROVE SameService
  BY <1>4, <1>8 DEF Acknowledge, Resolve
<1>9. ASSUME NEW s \in Services, RemoveService(s) PROVE FALSE
  BY <1>9 DEF RemoveService
<1> QED
  BY <1>1, <1>2, <1>5, <1>6, <1>7, <1>8, <1>9, TableUnchanged DEF Next, FireStep, RequestStep

LEMMA PolicyKept ==
  ASSUME SameService, UNCHANGED policies, NEW i \in Incidents, incidents[i].status # "free"
  PROVE  PolicyFor(i)' = PolicyFor(i) /\ Rounds(i)' = Rounds(i)
  BY DEF SameService, PolicyFor, Rounds

(* What a policy says is numbers, and a frame and a snapshot know their       *)
(* incident.                                                                  *)
LEMMA RunTypes ==
  ASSUME ExclInv, Grounded, OnTrack, ~MayEdit
  PROVE  /\ \A i \in Incidents : incidents[i].status \in Present =>
              PolicyFor(i).len \in Nat /\ PolicyFor(i).repeat \in Nat
         /\ \A p \in Actors : Busy(p) => fire[p].inc \in Incidents
                                          /\ incidents[fire[p].inc].status \in Present
         /\ \A d \in due : d.inc \in Incidents /\ incidents[d.inc].status \in Present
<1>1. TypeInv /\ Handled
  BY DEF ExclInv
<1>2. ASSUME NEW i \in Incidents, incidents[i].status \in Present
      PROVE  PolicyFor(i).len \in Nat /\ PolicyFor(i).repeat \in Nat
  <2>1. incidents[i].svc \in services
    BY <1>2 DEF Grounded, Housed
  <2>2. PolicyOf[incidents[i].svc] \in Policies
    BY <1>1, <2>1, StoreAssumption DEF TypeInv, TypeOK, StoreTypeOK
  <2> QED
    BY <1>1, <2>2, StoreAssumption DEF PolicyFor, TypeInv, TypeOK, StoreTypeOK, Policy
<1> QED
  BY <1>1, <1>2, PosTypes DEF Handled, OnTrack, Present

(* What has been paged only grows, and policies stay: a frame or a snapshot   *)
(* that stands right stays right.                                             *)
LEMMA RunGrows ==
  ASSUME SameService, UNCHANGED policies, NEW i \in Incidents, incidents[i].status # "free",
         fired[i] \subseteq fired'[i]
  PROVE  /\ \A r, k : UpTo(i, r, k) => UpTo(i, r, k)'
         /\ \A f : f.inc = i /\ RunFrame(f) => RunFrame(f)'
         /\ \A d : d.inc = i /\ RunQueued(d) => RunQueued(d)'
<1>1. PolicyFor(i)' = PolicyFor(i) /\ Rounds(i)' = Rounds(i)
  BY PolicyKept
<1>2. \A r, k : UpTo(i, r, k) => UpTo(i, r, k)'
  BY <1>1 DEF UpTo
<1>3. \A r, k : Below(i, r, k) => Below(i, r, k)'
  BY <1>1 DEF Below
<1>4. ASSUME NEW f, f.inc = i, RunFrame(f) PROVE RunFrame(f)'
  BY <1>1, <1>2, <1>3, <1>4 DEF RunFrame
<1>5. ASSUME NEW d, d.inc = i, RunQueued(d) PROVE RunQueued(d)'
  BY <1>1, <1>2, <1>5 DEF RunQueued
<1> QED
  BY <1>2, <1>4, <1>5

LEMMA RunKept ==
  ASSUME ExclInv, Grounded, OnTrack, ~MayEdit, SameService, UNCHANGED policies,
         \A i \in Incidents : incidents[i].status # "free" =>
            /\ incidents'[i].status \in Present
            /\ incidents'[i].next # "none" =>
                  \/ /\ incidents[i].next # "none"
                     /\ incidents'[i].rep = incidents[i].rep
                     /\ incidents'[i].step = incidents[i].step
                  \/ /\ incidents'[i].rep <= PolicyFor(i).repeat
                     /\ UpTo(i, incidents'[i].rep, incidents'[i].step)
            /\ fired[i] \subseteq fired'[i]
            /\ fired'[i] \subseteq Rounds(i)
            /\ i \in exhausted' => i \in exhausted \/ Rounds(i) \subseteq fired[i],
         \A i \in Incidents : incidents[i].status = "free" =>
            \/ incidents'[i].status = "free" /\ i \notin exhausted'
            \/ /\ incidents'[i].status \in Present /\ incidents'[i].next = "none"
               /\ fired'[i] = {} /\ i \notin exhausted',
         exhausted' \subseteq Incidents,
         \A d \in due' : d \in due \/ (d.inc \in Incidents /\ incidents[d.inc].status # "free"
                                        /\ RunQueued(d)),
         \A p \in Actors : Busy(p)' =>
            \/ Busy(p) /\ fire'[p] = fire[p]
            \/ /\ fire'[p].inc \in Incidents /\ incidents[fire'[p].inc].status # "free"
               /\ RunFrame(fire'[p])
            \/ RunFrame(fire[p])'
  PROVE  OnTrack'
<1>1. \A i \in Incidents : incidents'[i].status \in Present \cup {"free"}
  OBVIOUS
<1>2. \A i \in exhausted' : incidents'[i].status # "free"
  BY DEF OnTrack, Present
<1>3. ASSUME NEW i \in Incidents, incidents'[i].status # "free"
      PROVE  RunRow(i)'
  <2>1. CASE incidents[i].status # "free"
    <3>1. PolicyFor(i)' = PolicyFor(i) /\ Rounds(i)' = Rounds(i)
      BY <2>1, PolicyKept
    <3>2. RunRow(i)
      BY <2>1 DEF OnTrack
    <3>3. \A r, k : UpTo(i, r, k) => UpTo(i, r, k)'
      BY <2>1, RunGrows
    <3>4. /\ fired'[i] \subseteq Rounds(i)'
          /\ i \in exhausted' => Rounds(i)' \subseteq fired'[i]
      BY <2>1, <3>1, <3>2 DEF RunRow
    <3>5. incidents'[i].next # "none" =>
             /\ incidents'[i].rep <= PolicyFor(i).repeat
             /\ UpTo(i, incidents'[i].rep, incidents'[i].step)
      BY <2>1, <3>2 DEF RunRow
    <3>6. incidents'[i].next # "none" => UpTo(i, incidents[i].rep, incidents[i].step)'
      <4>1. PICK r, k : r = incidents'[i].rep /\ k = incidents'[i].step
        OBVIOUS
      <4> QED
        BY <3>3, <3>5, <4>1 DEF UpTo
    <3> QED
      BY <3>1, <3>4, <3>5, <3>6 DEF RunRow
  <2>2. CASE incidents[i].status = "free"
    BY <1>3, <2>2 DEF RunRow
  <2> QED
    BY <2>1, <2>2
<1>4. ASSUME NEW d \in due' PROVE RunQueued(d)'
  <2>1. d.inc \in Incidents /\ incidents[d.inc].status # "free" /\ RunQueued(d)
    BY RunTypes DEF OnTrack, Present
  <2> QED
    BY <2>1, RunGrows
<1>5. ASSUME NEW p \in Actors, Busy(p)' PROVE RunFrame(fire[p])'
  <2>1. CASE ~RunFrame(fire[p])'
    <3>1. PICK f : f = fire'[p]
      OBVIOUS
    <3>2. f.inc \in Incidents /\ incidents[f.inc].status # "free" /\ RunFrame(f)
      BY <1>5, <2>1, <3>1, RunTypes DEF OnTrack, Present
    <3>3. RunFrame(f)'
      BY <3>2, RunGrows
    <3> QED
      BY <3>1, <3>3 DEF RunFrame
  <2> QED
    BY <2>1
<1> QED
  BY <1>1, <1>2, <1>3, <1>4, <1>5 DEF OnTrack

(* The next step, and the first of the next round once this one is through. *)
LEMMA BelowNext ==
  ASSUME NEW i, NEW r \in Nat, NEW k \in Nat, UpTo(i, r, k),
         PolicyFor(i).len \in Nat, PolicyFor(i).repeat \in Nat
  PROVE  Below(i, r, k + 1)
<1> SUFFICES ASSUME NEW pos \in Rounds(i), Before(pos[1], pos[2], r, k + 1), pos # <<r, k + 1>>
             PROVE  pos \in fired[i]
  BY DEF Below
<1>1. pos = <<pos[1], pos[2]>> /\ pos[1] \in Nat /\ pos[2] \in Nat
  BY DEF Rounds
<1>2. Before(pos[1], pos[2], r, k)
  BY <1>1 DEF Before
<1> QED
  BY <1>2 DEF UpTo

LEMMA BelowRound ==
  ASSUME NEW i, NEW r \in Nat, NEW k \in Nat, Below(i, r, k), k >= PolicyFor(i).len,
         PolicyFor(i).len \in Nat, PolicyFor(i).repeat \in Nat
  PROVE  /\ Below(i, r + 1, 0)
         /\ r >= PolicyFor(i).repeat => Rounds(i) \subseteq fired[i]
<1>1. ASSUME NEW pos \in Rounds(i), pos[1] <= r PROVE pos \in fired[i]
  <2>1. /\ pos = <<pos[1], pos[2]>> /\ pos[1] \in Nat /\ pos[2] \in Nat
        /\ pos[2] < PolicyFor(i).len
    BY DEF Rounds
  <2>2. Before(pos[1], pos[2], r, k) /\ pos # <<r, k>>
    BY <1>1, <2>1 DEF Before
  <2> QED
    BY <2>2 DEF Below
<1>2. ASSUME NEW pos \in Rounds(i), Before(pos[1], pos[2], r + 1, 0), pos # <<r + 1, 0>>
      PROVE  pos[1] <= r
  <2>1. pos = <<pos[1], pos[2]>> /\ pos[1] \in Nat /\ pos[2] \in Nat
    BY DEF Rounds
  <2> QED
    BY <1>2, <2>1 DEF Before
<1>3. r >= PolicyFor(i).repeat => \A pos \in Rounds(i) : pos[1] <= r
  BY DEF Rounds
<1> QED
  BY <1>1, <1>2, <1>3 DEF Below

LEMMA RunLoad ==
  ASSUME ExclInv, Grounded, OnTrack, ~MayEdit, NEW p \in Actors,
         LoadSteps(p) \/ LoadPolicy(p) \/ FireError(p) \/ LogExhausted(p), Busy(p)'
  PROVE  fire'[p].inc = fire[p].inc /\ RunFrame(fire'[p])
<1>0. TypeInv
  BY DEF ExclInv
<1>1. /\ fire \in [Actors -> Frame] /\ fire[p] \in Frame /\ Busy(p)
      /\ fire[p].step \in Nat /\ fire[p].rep \in Nat
  BY <1>0, PosTypes DEF LoadSteps, LoadPolicy, LogExhausted, FireError
<1>2. PICK i \in Incidents, r \in Nat, k \in Nat :
         i = fire[p].inc /\ r = fire[p].rep /\ k = fire[p].step
  BY <1>1, RunTypes
<1>3. PICK q : q = PolicyFor(i)
  OBVIOUS
<1>4. /\ incidents[i].status \in Present /\ q.len \in Nat /\ q.repeat \in Nat
      /\ RunFrame(fire[p]) /\ policies[policyOfFrame(p)] = q
  BY <1>1, <1>2, <1>3, RunTypes DEF OnTrack, PolicyFor, policyOfFrame
<1>5. r <= q.repeat
  BY <1>2, <1>3, <1>4 DEF RunFrame
<1>6. CASE LoadSteps(p)
  <2>1. incidents[fire[p].inc].svc \in services /\ fire[p].pc = "load"
    BY <1>1, <1>6 DEF LoadSteps, Return, IdleFrame
  <2>2. Goto(p, IF k < q.len THEN "notify" ELSE IF q.len = 0 THEN "log" ELSE "policy")
    BY <1>2, <1>4, <1>6, <2>1 DEF LoadSteps
  <2>3. /\ fire'[p].inc = i /\ fire'[p].rep = r /\ fire'[p].step = k
        /\ fire'[p].pc = IF k < q.len THEN "notify" ELSE IF q.len = 0 THEN "log" ELSE "policy"
    BY <1>1, <1>2, <2>2 DEF Goto, Frame
  <2>4. Below(i, r, k)
    BY <1>2, <1>4, <2>1 DEF RunFrame
  <2>5. q.len = 0 => Rounds(i) = {}
    BY <1>3 DEF Rounds
  <2> QED
    BY <1>2, <1>3, <1>4, <1>5, <2>3, <2>4, <2>5 DEF RunFrame
<1>7. CASE LoadPolicy(p)
  <2>1. incidents[fire[p].inc].svc \in services /\ fire[p].pc = "policy"
    BY <1>1, <1>7 DEF LoadPolicy, Return, IdleFrame
  <2>2. Below(i, r, k) /\ k >= q.len
    BY <1>2, <1>3, <1>4, <2>1 DEF RunFrame
  <2>3. Below(i, r + 1, 0) /\ (r >= q.repeat => Rounds(i) \subseteq fired[i])
    BY <1>3, <1>4, <2>2, BelowRound
  <2>4. CASE r < q.repeat
    <3>1. fire' = [fire EXCEPT ![p] = [pc |-> "load", inc |-> i, step |-> 0, rep |-> r + 1]]
      BY <1>2, <1>4, <1>7, <2>1, <2>4 DEF LoadPolicy
    <3>2. fire'[p] = [pc |-> "load", inc |-> i, step |-> 0, rep |-> r + 1]
      BY <1>1, <3>1
    <3> QED
      BY <1>2, <1>3, <1>4, <2>3, <2>4, <3>2 DEF RunFrame
  <2>5. CASE ~(r < q.repeat)
    <3>1. Goto(p, "log")
      BY <1>2, <1>4, <1>7, <2>1, <2>5 DEF LoadPolicy
    <3>2. fire'[p].inc = i /\ fire'[p].rep = r /\ fire'[p].pc = "log"
      BY <1>1, <1>2, <3>1 DEF Goto, Frame
    <3> QED
      BY <1>2, <1>3, <1>4, <1>5, <2>3, <2>5, <3>2 DEF RunFrame
  <2> QED
    BY <2>4, <2>5
<1>8. CASE LogExhausted(p) \/ FireError(p)
  <2>1. fire[p].pc = "log" /\ Goto(p, "stop")
    BY <1>1, <1>8 DEF LogExhausted, FireError, Return, IdleFrame
  <2>2. fire'[p].inc = i /\ fire'[p].rep = r /\ fire'[p].pc = "stop"
    BY <1>1, <1>2, <2>1 DEF Goto, Frame
  <2> QED
    BY <1>2, <1>3, <1>4, <1>5, <2>1, <2>2 DEF RunFrame
<1> QED
  BY <1>6, <1>7, <1>8

LEMMA RunNext ==
  ASSUME ExclInv, Grounded, OnTrack, ~MayEdit, [Next]_vars PROVE OnTrack'
<1>0. TypeInv /\ SameService /\ UNCHANGED policies /\ exhausted \subseteq Incidents
  BY ServiceKept DEF ExclInv, TypeInv, TypeOK
<1>1. /\ \A i \in Incidents : incidents[i].status # "free" =>
            incidents[i].status \in Present /\ fired[i] \subseteq Rounds(i)
      /\ \A i \in Incidents : incidents[i].status = "free" => fired[i] = {} /\ i \notin exhausted
  BY DEF OnTrack, RunRow, Grounded, Present
(* Steps that leave rows, pages and marks alone. *)
<1>2. ASSUME UNCHANGED <<incidents, fired>>, exhausted' = exhausted,
             \A d \in due' : d \in due \/ (d.inc \in Incidents /\ incidents[d.inc].status # "free"
                                            /\ RunQueued(d)),
             \A p \in Actors : Busy(p)' =>
                \/ Busy(p) /\ fire'[p] = fire[p]
                \/ /\ fire'[p].inc \in Incidents /\ incidents[fire'[p].inc].status # "free"
                   /\ RunFrame(fire'[p])
      PROVE  OnTrack'
  BY <1>0, <1>1, <1>2, RunKept
<1>3. ASSUME NEW p \in Actors, LoadSteps(p) \/ LoadPolicy(p) \/ FireError(p)
      PROVE  OnTrack'
  <2>1. UNCHANGED <<incidents, fired, exhausted, due>>
    BY <1>3 DEF LoadSteps, LoadPolicy, FireError
  <2>2. /\ Busy(p) /\ fire[p].inc \in Incidents /\ incidents[fire[p].inc].status # "free"
        /\ \A q \in Actors : q # p => fire'[q] = fire[q]
    BY <1>0, <1>3, PosTypes, RunTypes
    DEF LoadSteps, LoadPolicy, FireError, Goto, Return, Present
  <2>3. Busy(p)' => fire'[p].inc = fire[p].inc /\ RunFrame(fire'[p])
    BY <1>3, RunLoad
  <2> QED
    BY <1>2, <2>1, <2>2, <2>3
<1>4. ASSUME NEW p \in Actors, LogExhausted(p)
      PROVE  OnTrack'
  <2>1. UNCHANGED <<incidents, fired, due>> /\ fire[p].pc = "log" /\ Busy(p)
    BY <1>4 DEF LogExhausted
  <2>2. /\ fire[p].inc \in Incidents /\ incidents[fire[p].inc].status \in Present
        /\ \A q \in Actors : q # p => fire'[q] = fire[q]
    BY <1>0, <1>4, <2>1, PosTypes, RunTypes DEF LogExhausted, Goto
  <2>3. Busy(p)' => fire'[p].inc = fire[p].inc /\ RunFrame(fire'[p])
    BY <1>4, RunLoad
  <2>4. Rounds(fire[p].inc) \subseteq fired[fire[p].inc]
    BY <2>1 DEF OnTrack, RunFrame
  <2>5. exhausted' = exhausted \cup {fire[p].inc} /\ incidents[fire[p].inc].status # "free"
    BY <1>4, <2>2 DEF LogExhausted, Present
  <2> QED
    BY <1>0, <1>1, <2>1, <2>2, <2>3, <2>4, <2>5, RunKept
<1>5. ASSUME NEW p \in Actors, Stop(p) \/ Commit(p)
      PROVE  OnTrack'
  <2>1. /\ Busy(p) /\ fire[p].inc \in Incidents /\ incidents[fire[p].inc].status \in Present
        /\ RunFrame(fire[p])
    BY <1>5, RunTypes DEF Stop, Commit, OnTrack
  <2>2. PICK i \in Incidents, r \in {fire[p].rep}, k \in {fire[p].step} :
          i = fire[p].inc /\ r = fire[p].rep /\ k = fire[p].step
    BY <2>1
  <2>3. /\ \A j \in Incidents : incidents'[j].status = incidents[j].status
        /\ \A j \in Incidents : j # i => incidents'[j] = incidents[j]
        /\ incidents'[i].step = k /\ incidents'[i].rep = r
        /\ incidents'[i].next # "none" => fire[p].pc = "commit"
    <3>1. CASE Stop(p)
      BY <1>0, <2>1, <2>2, <3>1, SetNextEffect DEF Stop
    <3>2. CASE Commit(p)
      BY <1>0, <2>1, <2>2, <3>2, SetNextEffect DEF Commit
    <3> QED
      BY <1>5, <3>1, <3>2
  <2>4. /\ UNCHANGED <<due, fired, exhausted>> /\ ~Busy(p)'
        /\ \A q \in Actors : q # p => fire'[q] = fire[q]
    BY <1>0, <1>5, PosTypes DEF Stop, Commit, Return, IdleFrame
  <2>5. incidents'[i].next # "none" => r <= PolicyFor(i).repeat /\ UpTo(i, r, k)
    BY <2>1, <2>2, <2>3 DEF RunFrame
  <2> QED
    BY <1>0, <1>1, <2>3, <2>4, <2>5, RunKept
<1>6. ASSUME NEW p \in Actors, Notify(p)
      PROVE  OnTrack'
  <2>1. /\ Busy(p) /\ fire[p].inc \in Incidents /\ incidents[fire[p].inc].status \in Present
        /\ RunFrame(fire[p]) /\ fire[p].pc = "notify"
        /\ fire[p].rep \in Nat /\ fire[p].step \in Nat
        /\ fire \in [Actors -> Frame] /\ fire[p] \in Frame
        /\ fired \in [Incidents -> SUBSET Positions]
    BY <1>0, <1>6, RunTypes, PosTypes DEF Notify, OnTrack, TypeInv, TypeOK
  <2>2. PICK i \in Incidents, r \in Nat, k \in Nat :
           i = fire[p].inc /\ r = fire[p].rep /\ k = fire[p].step
    BY <2>1
  <2>3. /\ UNCHANGED <<incidents, due, exhausted>>
        /\ fired' = [fired EXCEPT ![i] = fired[i] \cup {<<r, k>>}]
        /\ fire' = [fire EXCEPT ![p].pc = "commit"]
    BY <1>6, <2>1, <2>2 DEF Notify, Goto
  <2>4. /\ \A j \in Incidents : j # i => fired'[j] = fired[j]
        /\ fired'[i] = fired[i] \cup {<<r, k>>}
    BY <2>1, <2>3
  <2>5. /\ \A q \in Actors : q # p => fire'[q] = fire[q]
        /\ fire'[p].pc = "commit" /\ fire'[p].inc = i
        /\ fire'[p].rep = r /\ fire'[p].step = k
    BY <2>1, <2>2, <2>3 DEF Frame
  <2>6. /\ r <= PolicyFor(i).repeat /\ Below(i, r, k) /\ k < PolicyFor(i).len
        /\ PolicyFor(i).len \in Nat /\ PolicyFor(i).repeat \in Nat
    BY <2>1, <2>2, RunTypes DEF RunFrame
  <2>7. <<r, k>> \in Rounds(i)
    BY <2>6 DEF Rounds
  <2>8. incidents[i].status \in Present /\ incidents[i].status # "free"
    BY <2>1, <2>2 DEF Present
  <2>9. PolicyFor(i)' = PolicyFor(i) /\ Rounds(i)' = Rounds(i)
    BY <1>0, <2>8, PolicyKept
  <2>10. UpTo(i, r, k)'
    BY <2>4, <2>6, <2>9 DEF UpTo, Below
  <2>11. RunFrame(fire[p])'
    <3>1. /\ UpTo(fire[p].inc, fire[p].rep, fire[p].step)'
          /\ PolicyFor(fire[p].inc)' = PolicyFor(i)
      BY <2>5, <2>9, <2>10 DEF UpTo, PolicyFor, Rounds
    <3> QED
      BY <2>5, <2>6, <3>1 DEF RunFrame
  <2>12. \A j \in Incidents : incidents[j].status # "free" =>
            fired[j] \subseteq fired'[j] /\ fired'[j] \subseteq Rounds(j)
    BY <1>1, <2>4, <2>7
  <2>13. \A j \in Incidents : incidents[j].status = "free" => j # i
    BY <2>8
  <2> QED
    BY <1>0, <1>1, <2>3, <2>5, <2>11, <2>12, <2>13, RunKept
<1>7. CASE Tick
  <2>1. UNCHANGED <<incidents, fired, exhausted, fire>>
    BY <1>7 DEF Tick
  <2>2. \A d \in due' : /\ d.inc \in Incidents /\ incidents[d.inc].next = "due"
                        /\ incidents[d.inc].status = "triggered"
                        /\ d.step = incidents[d.inc].step /\ d.rep = incidents[d.inc].rep
    BY <1>7 DEF Tick, DueForEscalation
  <2>3. \A d \in due' : incidents[d.inc].status # "free" /\ RunQueued(d)
    BY <2>2 DEF OnTrack, RunRow, RunQueued
  <2> QED
    BY <1>2, <2>1, <2>2, <2>3
<1>8. CASE TickNext
  <2>1. PICK d \in due :
          /\ due' = due \ {d}
          /\ fire' = [fire EXCEPT ![Engine] =
                        [pc |-> "load", inc |-> d.inc, step |-> d.step + 1, rep |-> d.rep]]
    BY <1>8 DEF TickNext
  <2>2. UNCHANGED <<incidents, fired, exhausted>>
    BY <1>8 DEF TickNext
  <2>3. /\ fire'[Engine] = [pc |-> "load", inc |-> d.inc, step |-> d.step + 1, rep |-> d.rep]
        /\ \A q \in Actors : q # Engine => fire'[q] = fire[q]
        /\ d.step \in Nat /\ d.rep \in Nat
    BY <1>0, <2>1, PosTypes
  <2>4. d.inc \in Incidents /\ incidents[d.inc].status \in Present /\ RunQueued(d)
    BY RunTypes DEF OnTrack
  <2>5. PolicyFor(d.inc).len \in Nat /\ PolicyFor(d.inc).repeat \in Nat
    BY <2>4, RunTypes
  <2>6. Below(d.inc, d.rep, d.step + 1) /\ d.rep <= PolicyFor(d.inc).repeat
    BY <2>3, <2>4, <2>5, BelowNext DEF RunQueued
  <2>7. RunFrame(fire'[Engine]) /\ fire'[Engine].inc = d.inc
    BY <2>3, <2>6 DEF RunFrame
  <2> QED
    BY <1>2, <2>1, <2>2, <2>3, <2>4, <2>7 DEF Present
<1>9. ASSUME NEW w \in Workers, Create(w)
      PROVE  OnTrack'
  <2>1. PICK i \in Incidents :
          /\ CreateIncident(i, request[w].svc, request[w].fp)
          /\ fire' = [fire EXCEPT ![w] = [pc |-> "load", inc |-> i, step |-> 0, rep |-> 0]]
    BY <1>9 DEF Create
  <2>2. /\ incidents[i].status = "free" /\ incidents'[i].status = "triggered"
        /\ incidents'[i].next = "none"
        /\ \A j \in Incidents : j # i => incidents'[j] = incidents[j]
    BY <1>0, <2>1, CreateEffect
  <2>3. /\ UNCHANGED <<due, fired, exhausted>>
        /\ fire'[w] = [pc |-> "load", inc |-> i, step |-> 0, rep |-> 0]
        /\ \A q \in Actors : q # w => fire'[q] = fire[q]
    BY <1>0, <1>9, <2>1, PosTypes DEF Create
  <2>4. ExclInv' /\ Grounded'
    BY <1>0, ExclNext, GroundedNext
  <2>5. (PolicyFor(i).repeat \in Nat /\ PolicyFor(i).len \in Nat)'
    <3>1. incidents'[i].svc \in services'
      BY <2>2, <2>4 DEF Grounded, Housed, Present
    <3>2. TypeInv'
      BY <2>4 DEF ExclInv
    <3>3. PolicyOf[incidents'[i].svc] \in Policies
      BY <3>1, <3>2, StoreAssumption DEF TypeInv, TypeOK, StoreTypeOK
    <3> QED
      BY <3>2, <3>3, StoreAssumption DEF PolicyFor, TypeInv, TypeOK, StoreTypeOK, Policy
  <2>6. Below(i, 0, 0)'
    <3>1. \A pos \in Rounds(i)' : Before(pos[1], pos[2], 0, 0) => pos = <<0, 0>>
      BY <2>5 DEF Rounds, Before
    <3> QED
      BY <3>1 DEF Below
  <2>7. RunFrame(fire[w])'
    <3>1. Below(fire[w].inc, fire[w].rep, fire[w].step)' /\ PolicyFor(fire[w].inc)' = PolicyFor(i)'
      BY <2>3, <2>6 DEF Below, PolicyFor, Rounds
    <3> QED
      BY <2>3, <2>5, <3>1 DEF RunFrame
  <2>8. \A j \in Incidents : incidents[j].status # "free" => j # i /\ incidents'[j] = incidents[j]
    BY <2>2
  <2>9. incidents'[i].status \in Present
    BY <2>2 DEF Present
  <2> QED
    BY <1>0, <1>1, <2>2, <2>3, <2>7, <2>8, <2>9, RunKept
<1>10. ASSUME UNCHANGED <<due, fire, fired, exhausted>>,
              \A i \in Incidents :
                 /\ incidents[i].status = "free" => incidents'[i].status = "free"
                 /\ incidents[i].status # "free" => incidents'[i].status \in Present
                 /\ incidents'[i].next # "none" =>
                       /\ incidents[i].next # "none" /\ incidents'[i].rep = incidents[i].rep
                       /\ incidents'[i].step = incidents[i].step
       PROVE  OnTrack'
  BY <1>0, <1>1, <1>10, RunKept
<1>11. ASSUME NEW i \in Incidents, AcknowledgeIncident(i) \/ ResolveIncident(i),
              UNCHANGED <<due, fire, exhausted, fired>>
       PROVE  OnTrack'
  <2>1. \A j \in Incidents :
          \/ incidents'[j] = incidents[j]
          \/ incidents[j].status \in Open /\ incidents'[j].status \in Closed
                /\ incidents'[j].next = "none"
    BY <1>0, <1>11, CloseEffect DEF Open, Closed
  <2>2. \A j \in Incidents :
          /\ incidents[j].status = "free" => incidents'[j].status = "free"
          /\ incidents[j].status # "free" => incidents'[j].status \in Present
          /\ incidents'[j].next # "none" => incidents'[j] = incidents[j]
    BY <1>1, <2>1 DEF Open, Present, Closed
  <2> QED
    BY <1>10, <1>11, <2>2
<1>12. ASSUME NEW w \in Workers, ResolveMatched(w)
       PROVE  OnTrack'
  BY <1>0, <1>11, <1>12 DEF ResolveMatched, TypeInv, WellFormed
<1>13. ASSUME NEW i \in Incidents, Acknowledge(i) \/ Resolve(i)
       PROVE  OnTrack'
  BY <1>11, <1>13 DEF Acknowledge, Resolve
<1>14. ASSUME NEW i \in Incidents, Elapse(i)
       PROVE  OnTrack'
  <2>1. /\ incidents[i].next = "future"
        /\ \A j \in Incidents : /\ incidents'[j].status = incidents[j].status
                                /\ incidents'[j].step = incidents[j].step
                                /\ incidents'[j].rep = incidents[j].rep
        /\ \A j \in Incidents : j # i => incidents'[j] = incidents[j]
    BY <1>0, <1>14, ElapseEffect
  <2>2. UNCHANGED <<due, fire, exhausted, fired>>
    BY <1>14 DEF Elapse
  <2> QED
    BY <1>1, <1>10, <2>1, <2>2
<1>15. ASSUME \/ UNCHANGED vars
              \/ \E w \in Workers :
                   \/ Lookup(w) \/ CreateFails(w) \/ MatchResolved(w) \/ RequestError(w)
                   \/ \E s \in Services, fp \in Fingerprints \cup {NoFingerprint} :
                         Ingest(w, s, fp) \/ SourceResolved(w, s, fp)
       PROVE  OnTrack'
  <2>1. UNCHANGED <<incidents, due, fire, exhausted, fired>>
    BY <1>15 DEF vars, Lookup, CreateFails, MatchResolved, RequestError, Ingest, SourceResolved
  <2> QED
    BY <1>2, <2>1
<1>16. CASE Restart
  <2>1. UNCHANGED <<incidents, exhausted, fired>> /\ due' = {} /\ \A p \in Actors : ~Busy(p)'
    BY <1>16 DEF Restart, IdleFrame
  <2> QED
    BY <1>2, <2>1
<1>17. ASSUME (\E s \in Services : RemoveService(s)) \/ (\E q \in Policies : EditPolicy(q))
       PROVE  FALSE
  BY <1>17 DEF RemoveService, EditPolicy
<1> QED
  BY <1>3, <1>4, <1>5, <1>6, <1>7, <1>8, <1>9, <1>12, <1>13, <1>14, <1>15, <1>16, <1>17
  DEF Next, FireStep, RequestStep

LEMMA RunInit == Init => RunInv
<1> SUFFICES ASSUME Init PROVE RunInv
  OBVIOUS
<1>1. /\ due = {} /\ exhausted = {} /\ \A p \in Actors : ~Busy(p)
      /\ \A i \in Incidents : fired[i] = {} /\ incidents[i] = FreeRow
  BY DEF Init, StoreInit, IdleFrame
<1>2. Grounded
  BY <1>1 DEF Grounded, Housed, FreeRow, Present
<1>3. OnTrack
  BY <1>1 DEF OnTrack, FreeRow
<1> QED
  BY <1>2, <1>3, ExclInit DEF RunInv

LEMMA RunInvNext == RunInv /\ [Next]_vars => RunInv'
  BY ExclNext, GroundedNext, RunNext DEF RunInv, ExclInv

(* An incident marked exhausted has had every step of every round that its    *)
(* policy asks for, and nothing else, if policies and services were left      *)
(* alone: no restart, failed statement or race lets it stop early.            *)
THEOREM PoliciesRunInFull == Spec => []PolicyRunsInFull
<1>1. RunInv => PolicyRunsInFull
  <2> SUFFICES ASSUME RunInv, ~MayEdit, NEW i \in exhausted
               PROVE  fired[i] = Rounds(i)
    BY DEF PolicyRunsInFull, Rounds, PolicyFor
  <2>1. i \in Incidents
    BY DEF RunInv, ExclInv, TypeInv, TypeOK
  <2> QED
    BY <2>1 DEF RunInv, OnTrack, RunRow
<1> QED
  BY <1>1, RunInit, RunInvNext, PTL DEF Spec

=============================================================================
