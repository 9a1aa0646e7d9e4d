--------------------------- MODULE PolicyVersions ---------------------------
(***************************************************************************)
(* What an escalation policy promises whoever reads it: its steps are one  *)
(* value, replaced in one step by steps nobody has seen before.  A reader  *)
(* looks at all of it at once, and pages whom a step it has seen means by  *)
(* then, or nobody if that step is not in the policy any more.  Of queries *)
(* for each step's target and of updates underway, nothing shows.          *)
(***************************************************************************)
EXTENDS Naturals, Sequences

CONSTANTS Readers, Users, Schedules, Numbers, Places, Nobody, Gone

VARIABLES
    stored,     \* the steps: whose, at which place, to page whom after which wait
    onDuty,     \* whom each schedule resolves to, or Nobody, or Gone
    seen,       \* what each reader has before its eyes, if it has looked
    turn        \* what each reader was sent to page, and whom it has paged

versionVars == <<stored, onDuty, seen, turn>>

Unseen == [looked |-> FALSE, steps |-> <<>>]
AtRest == [pc |-> "idle", step |-> 1, user |-> Nobody]

Init ==
    /\ stored = <<>>
    /\ onDuty \in [Schedules -> Users]
    /\ seen = [r \in Readers |-> Unseen]
    /\ turn = [r \in Readers |-> AtRest]

(* Some step of version n is there, or before somebody's eyes. *)
Around(n) ==
    \/ \E k \in DOMAIN stored : stored[k].id[1] = n
    \/ \E r \in Readers : \E k \in DOMAIN seen[r].steps : seen[r].steps[k].id[1] = n

Replace(n) ==
    /\ ~Around(n)
    /\ \A k \in DOMAIN stored' : stored'[k].id = <<n, k>>
    /\ UNCHANGED <<onDuty, seen, turn>>

Clear ==
    /\ stored' = <<>>
    /\ UNCHANGED <<onDuty, seen, turn>>

Handover(s) ==
    /\ \E d \in Users \cup {Nobody, Gone} : onDuty' = [onDuty EXCEPT ![s] = d]
    /\ UNCHANGED <<stored, seen, turn>>

Send(r, k) ==
    /\ turn[r].pc = "idle"
    /\ ~seen[r].looked
    /\ turn' = [turn EXCEPT ![r] = [AtRest EXCEPT !.pc = "read", !.step = k]]
    /\ UNCHANGED <<stored, onDuty, seen>>

Look(r) ==
    /\ ~seen[r].looked
    /\ turn[r].pc # "paged"
    /\ seen' = [seen EXCEPT ![r] = [looked |-> TRUE, steps |-> stored]]
    /\ UNCHANGED <<stored, onDuty, turn>>

(* One that was only to show the policy looks away. *)
LookAway(r) ==
    /\ seen[r].looked
    /\ turn[r].pc = "idle"
    /\ seen' = [seen EXCEPT ![r] = Unseen]
    /\ UNCHANGED <<stored, onDuty, turn>>

Meant(t) == IF t \in Users THEN t ELSE IF onDuty[t] \in Users THEN onDuty[t] ELSE Nobody

StillStored(s) == \E k \in DOMAIN stored : stored[k].id = s.id

Page(r) ==
    /\ turn[r].pc = "read"
    /\ turn[r].step \in DOMAIN seen[r].steps
    /\ LET s == seen[r].steps[turn[r].step]
       IN  \E u \in {Meant(s.target)} \cup (IF StillStored(s) THEN {} ELSE {Nobody}) :
              turn' = [turn EXCEPT ![r] = [@ EXCEPT !.pc = "paged", !.user = u]]
    /\ seen' = [seen EXCEPT ![r] = Unseen]
    /\ UNCHANGED <<stored, onDuty>>

(* There is no such step. *)
PastTheEnd(r) ==
    /\ turn[r].pc = "read"
    /\ seen[r].looked
    /\ turn[r].step \notin DOMAIN seen[r].steps
    /\ turn' = [turn EXCEPT ![r] = AtRest]
    /\ seen' = [seen EXCEPT ![r] = Unseen]
    /\ UNCHANGED <<stored, onDuty>>

Settle(r) ==
    /\ turn[r].pc = "paged"
    /\ turn' = [turn EXCEPT ![r] = AtRest]
    /\ UNCHANGED <<stored, onDuty, seen>>

Next ==
    \/ \E n \in Numbers : Replace(n)
    \/ Clear
    \/ \E s \in Schedules : Handover(s)
    \/ \E r \in Readers : \/ Look(r) \/ LookAway(r)
                          \/ Page(r) \/ PastTheEnd(r) \/ Settle(r)
    \/ \E r \in Readers, k \in Places : Send(r, k)

Spec == Init /\ [][Next]_versionVars
=============================================================================
