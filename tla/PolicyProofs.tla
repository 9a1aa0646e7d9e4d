---------------------------- MODULE PolicyProofs ----------------------------
(***************************************************************************)
(* Proofs about PolicySteps for any number of browsers, pagers, users,     *)
(* schedules, rows, submissions and faults: the tables hold one submission, *)
(* readers see one submission, and what they page is what it says.         *)
(***************************************************************************)
EXTENDS PolicySteps, TLAPS, FiniteSetTheorems, SequenceTheorems, WellFoundedInduction

USE PolicyAssumption

-----------------------------------------------------------------------------
(* What parseStepsForm returns.                                              *)

LEMMA ASeq == ASSUME NEW S, NEW n \in Nat, NEW f \in [1..n -> S] PROVE f \in Seq(S)
  OBVIOUS

(* A part of 1..n that leaves nothing out before its elements is some 1..m.  *)
LEMMA Prefix ==
    ASSUME NEW n \in Nat, NEW S \in SUBSET (1..n), \A k \in S : 1..k \subseteq S
    PROVE  \E m \in 0..n : S = 1..m
<1>1. CASE S = 1..n
  BY <1>1
<1>2. CASE S # 1..n
  <2> DEFINE T == {1..k : k \in (1..n) \ S}
             R == StrictSubsetOrdering(1..n)
  <2>1. T # {}
    <3>1. PICK k \in (1..n) \ S : TRUE
      BY <1>2
    <3> QED BY <3>1
  <2>2. T \subseteq SUBSET (1..n)
    OBVIOUS
  <2>3. IsWellFoundedOn(R, SUBSET (1..n))
    <3>1. IsFiniteSet(1..n)
      BY FS_Interval
    <3>2. FiniteSubsetsOf(1..n) = SUBSET (1..n)
      BY <3>1, FS_FiniteSubsetsOfFinite, Zenon
    <3>3. IsWellFoundedOn(R, FiniteSubsetsOf(1..n))
      BY FS_StrictSubsetOrderingWellFounded, Zenon
    <3> QED BY <3>2, <3>3, Zenon
  <2>4. \E x \in T : \A y \in T : <<y, x>> \notin R
    <3> HIDE DEF T, R
    <3> QED BY <2>1, <2>2, <2>3, WFMin
  <2>5. PICK k \in (1..n) \ S : \A y \in T : <<y, 1..k>> \notin R
    BY <2>4
  <2>6. ASSUME NEW j \in 1..(k - 1) PROVE j \in S
    <3>1. CASE j \notin S
      <4>1. j \in 1..n /\ 1..j \in T
        BY <2>6, <3>1
      <4>2. 1..j \subseteq 1..k /\ k \in 1..k /\ k \notin 1..j
        BY <2>6
      <4>3. <<1..j, 1..k>> \in R
        BY <4>1, <4>2 DEF StrictSubsetOrdering
      <4> QED BY <4>1, <4>3, <2>5
    <3> QED BY <3>1
  <2>7. ASSUME NEW j \in S PROVE j \in 1..(k - 1)
    <3>1. k \notin 1..j
      OBVIOUS
    <3> QED BY <3>1
  <2>8. S = 1..(k - 1)
    BY <2>6, <2>7
  <2> QED BY <2>8
<1> QED BY <1>1, <1>2

(* Rows that are there, in their order, and none after a gap.                *)
LEMMA ParseTyped ==
    ASSUME NEW rows \in Seq(Row \cup {Removed})
    PROVE  /\ ParseStepsForm(rows) \in Seq(Row)
           /\ DOMAIN ParseStepsForm(rows) \subseteq DOMAIN rows
<1> DEFINE S == {n \in DOMAIN rows : \A j \in 1..n : rows[j] # Removed}
<1>1. S \subseteq 1..Len(rows) /\ Len(rows) \in Nat
  OBVIOUS
<1>2. ASSUME NEW k \in S, NEW i \in 1..k PROVE i \in S
  <2>1. i \in DOMAIN rows /\ 1..i \subseteq 1..k
    BY <1>1
  <2> QED BY <2>1
<1>3. PICK m \in 0..Len(rows) : S = 1..m
  BY <1>1, <1>2, Prefix
<1>4. ASSUME NEW k \in S PROVE rows[k] \in Row
  BY <1>1
<1>5. ParseStepsForm(rows) \in [1..m -> Row]
  BY <1>3, <1>4 DEF ParseStepsForm
<1>6. ParseStepsForm(rows) \in Seq(Row)
  BY <1>5, ASeq
<1> QED BY <1>3, <1>5, <1>6

(* Without a gap it returns every row.                                       *)
LEMMA ParseAll ==
    ASSUME NEW rows \in Seq(Row \cup {Removed}), \A k \in DOMAIN rows : rows[k] # Removed
    PROVE  ParseStepsForm(rows) = rows
<1>1. ASSUME NEW k \in DOMAIN rows, NEW j \in 1..k PROVE rows[j] # Removed
  BY DOMAIN rows = 1..Len(rows)
<1>2. {n \in DOMAIN rows : \A j \in 1..n : rows[j] # Removed} = DOMAIN rows
  BY <1>1
<1>3. rows = [k \in DOMAIN rows |-> rows[k]]
  OBVIOUS
<1> QED BY <1>2, <1>3 DEF ParseStepsForm

(* What the browser makes of rows of its own are rows again.                 *)
LEMMA EditedTyped ==
    ASSUME NEW rows \in Seq(Row \cup {Removed}), NEW options, NEW r \in Edited(rows, options)
    PROVE  r \in Seq(Row \cup {Removed}) /\ DOMAIN r \subseteq 1..MaxRows
<1> DEFINE cell(k) == {Removed, IF k \in DOMAIN rows THEN rows[k] ELSE DefaultRow}
                        \cup {x \in Entries : x.target \in options}
<1>1. PICK n \in Len(rows)..MaxRows : r \in [1..n -> UNION {cell(k) : k \in 1..n}]
  BY Zenon DEF Edited
<1>2. n \in Nat /\ n <= MaxRows
  BY <1>1
<1>3. DefaultRow \in Row
  BY DEF DefaultRow, Row, Targets
<1>4. Entries \subseteq Row
  BY DEF Row, Targets
<1>5. ASSUME NEW k \in 1..n PROVE cell(k) \subseteq Row \cup {Removed}
  BY <1>3, <1>4
<1>6. r \in [1..n -> Row \cup {Removed}]
  BY <1>1, <1>5
<1> QED BY <1>1, <1>2, <1>6, ASeq

-----------------------------------------------------------------------------
(* Types.                                                                    *)

LEMMA NoFrames == NoRead \in Reading /\ NoForm \in Form /\ NoPage \in Paging
  BY ASeq DEF NoRead, NoForm, NoPage, Reading, Form, Paging

LEMMA TypeInit == Init => TypeOK
<1> SUFFICES ASSUME Init PROVE TypeOK
  OBVIOUS
<1>1. read \in [Actors -> Reading] /\ form \in [Actors -> Form] /\ page \in [Actors -> Paging]
  BY NoFrames DEF Init
<1>2. submitted \in [0..MaxSaves -> Seq(Row)]
  BY DEF Init
<1> QED BY <1>1, <1>2 DEF Init, TypeOK

(* A step that replaces one reading, form or page by another.                *)
LEMMA ReadReplaced ==
    ASSUME TypeOK, NEW a \in Actors, NEW x \in Reading, read' = [read EXCEPT ![a] = x]
    PROVE  read' \in [Actors -> Reading]
  BY DEF TypeOK

LEMMA FormReplaced ==
    ASSUME TypeOK, NEW e \in Actors, NEW x \in Form, form' = [form EXCEPT ![e] = x]
    PROVE  form' \in [Actors -> Form]
  BY DEF TypeOK

LEMMA PageReplaced ==
    ASSUME TypeOK, NEW p \in Actors, NEW x \in Paging, page' = [page EXCEPT ![p] = x]
    PROVE  page' \in [Actors -> Paging]
  BY DEF TypeOK

(* The target of a step that is still stored, or none.                       *)
LEMMA TargetTyped == ASSUME TypeOK, NEW id PROVE TargetsForStep(id) \in Targets \cup {NoTarget}
<1> DEFINE found == {k \in DOMAIN steps : steps[k].id = id}
<1>1. CASE found = {}
  BY <1>1 DEF TargetsForStep
<1>2. CASE found # {}
  <2>1. (CHOOSE k \in found : TRUE) \in found
    BY <1>2
  <2>2. (CHOOSE k \in found : TRUE) \in DOMAIN steps
    BY <2>1
  <2> DEFINE k == CHOOSE k \in found : TRUE
  <2>3. steps[k] \in Step
    BY <2>2 DEF TypeOK
  <2>4. TargetsForStep(id) = steps[k].target
    BY <1>2 DEF TargetsForStep
  <2> QED BY <2>3, <2>4 DEF Step
<1> QED BY <1>1, <1>2

LEMMA ReadStepsTyped == ASSUME TypeOK, NEW a \in Actors, ReadSteps(a) PROVE TypeOK'
<1> DEFINE rows == [k \in DOMAIN steps |-> [StepRows[k] EXCEPT !.target = Unread]]
           x == [pc |-> "targets", steps |-> rows]
<1>1. Len(steps) \in Nat /\ DOMAIN steps = 1..Len(steps)
  BY DEF TypeOK
<1>2. ASSUME NEW k \in DOMAIN steps PROVE [StepRows[k] EXCEPT !.target = Unread] \in StepRead
  <2>1. steps[k] \in Step
    BY DEF TypeOK
  <2> QED BY <2>1 DEF StepRows, Step, StepRead
<1>3. rows \in [1..Len(steps) -> StepRead]
  BY <1>1, <1>2
<1>4. rows \in Seq(StepRead)
  BY <1>1, <1>3, ASeq
<1>5. x \in Reading
  BY <1>4 DEF Reading
<1>6. read' = [read EXCEPT ![a] = x]
  BY DEF ReadSteps
<1>7. read' \in [Actors -> Reading]
  BY <1>5, <1>6, ReadReplaced
<1> QED BY <1>7 DEF TypeOK, ReadSteps

LEMMA ReadTargetsTyped == ASSUME TypeOK, NEW a \in Actors, ReadTargets(a) PROVE TypeOK'
<1>1. PICK k \in DOMAIN read[a].steps :
        read' = [read EXCEPT ![a].steps[k].target = TargetsForStep(read[a].steps[k].id)]
  BY DEF ReadTargets
<1> DEFINE s == read[a].steps
           t == TargetsForStep(s[k].id)
           y == [s[k] EXCEPT !.target = t]
           x == [read[a] EXCEPT !.steps = [s EXCEPT ![k] = y]]
<1>2. read[a] \in Reading /\ s \in Seq(StepRead) /\ s[k] \in StepRead
  BY DEF TypeOK, Reading
<1>3. y \in StepRead
  BY <1>2, TargetTyped DEF StepRead
<1>4. [s EXCEPT ![k] = y] \in Seq(StepRead)
  <2> HIDE DEF y, s
  <2>1. k \in 1..Len(s)
    BY <1>1, <1>2 DEF s
  <2> QED BY <1>2, <1>3, <2>1, ExceptSeq
<1>5. x \in Reading
  <2> HIDE DEF y, s
  <2> QED BY <1>2, <1>4 DEF Reading
<1>6. read' = [read EXCEPT ![a] = x]
  BY <1>1 DEF TypeOK
<1>7. read' \in [Actors -> Reading]
  <2> HIDE DEF x
  <2> QED BY <1>5, <1>6, ReadReplaced
<1> QED BY <1>7 DEF TypeOK, ReadTargets

LEMMA OpenedTyped ==
    ASSUME TypeOK, NEW rows \in Seq(Row \cup {Removed})
    PROVE  Opened(rows) \in Form
  BY NoFrames DEF Opened, TargetOptions, Targets, Form

LEMMA DefaultTyped == <<DefaultRow>> \in Seq(Row \cup {Removed}) /\ DefaultRow \in Row
  BY DEF DefaultRow, Row, Targets

LEMMA EditFormTyped == ASSUME TypeOK, NEW e \in Actors, EditForm(e) PROVE TypeOK'
<1> DEFINE f == [form[e] EXCEPT !.pc = "loading"]
           x == [read[e] EXCEPT !.pc = "steps"]
<1>1. f \in Form /\ x \in Reading
  <2>1. form[e] \in Form /\ read[e] \in Reading
    BY DEF TypeOK
  <2>2. f \in Form
    BY <2>1 DEF Form
  <2>3. x \in Reading
    BY <2>1 DEF Reading
  <2> QED BY <2>2, <2>3
<1>2. /\ form' = [form EXCEPT ![e] = [form[e] EXCEPT !.pc = "loading"]]
      /\ read' = [read EXCEPT ![e] = [read[e] EXCEPT !.pc = "steps"]]
  BY DEF EditForm
<1>3. form' \in [Actors -> Form] /\ read' \in [Actors -> Reading]
  BY <1>1, <1>2, FormReplaced, ReadReplaced
<1> QED BY <1>3 DEF TypeOK, EditForm

LEMMA NewFormTyped == ASSUME TypeOK, NEW e \in Actors, NewForm(e) PROVE TypeOK'
<1> DEFINE x == [Opened(<<DefaultRow>>) EXCEPT !.new = TRUE]
<1>1. Opened(<<DefaultRow>>) \in Form
  BY DefaultTyped, OpenedTyped
<1>2. x \in Form
  BY <1>1 DEF Form
<1>3. form' = [form EXCEPT ![e] = x]
  BY DEF NewForm
<1>4. form' \in [Actors -> Form]
  BY <1>2, <1>3, FormReplaced
<1> QED BY <1>4 DEF TypeOK, NewForm

(* The rows a form is rendered with.                                         *)
RowsShown(found) == [k \in DOMAIN found |-> [wait |-> found[k].wait, target |-> Shown(found[k].target)]]

LEMMA RowsShownTyped ==
    ASSUME TypeOK, NEW found \in Seq(StepRead)
    PROVE  /\ RowsShown(found) \in Seq(Row \cup {Removed})
           /\ \A k \in DOMAIN found : RowsShown(found)[k] \in Row
<1>1. ASSUME NEW t PROVE Shown(t) \in Targets
  BY DEF Shown, TargetOptions, Targets
<1>2. ASSUME NEW k \in DOMAIN found PROVE RowsShown(found)[k] \in Row
  <2>1. found[k] \in StepRead
    OBVIOUS
  <2> QED BY <1>1, <2>1 DEF RowsShown, StepRead, Row
<1>3. Len(found) \in Nat /\ DOMAIN found = 1..Len(found)
  OBVIOUS
<1>4. RowsShown(found) \in [1..Len(found) -> Row \cup {Removed}]
  BY <1>2, <1>3 DEF RowsShown
<1>5. RowsShown(found) \in Seq(Row \cup {Removed})
  BY <1>3, <1>4, ASeq
<1> QED BY <1>2, <1>5

(* The form a policy is edited in.                                           *)
Rendered(found) ==
    IF found = <<>> THEN Opened(<<DefaultRow>>)
    ELSE [Opened(RowsShown(found)) EXCEPT !.basis = found[1].id[1]]

LEMMA RenderedForm ==
    ASSUME NEW e \in Actors, RenderForm(e)
    PROVE  form' = [form EXCEPT ![e] = Rendered(read[e].steps)]
  BY Zenon DEF RenderForm, Rendered, RowsShown

LEMMA RenderFormTyped == ASSUME TypeOK, NEW e \in Actors, RenderForm(e) PROVE TypeOK'
<1> DEFINE found == read[e].steps
<1>1. found \in Seq(StepRead)
  BY DEF TypeOK, Reading
<1>2. ASSUME found = <<>> PROVE Rendered(found) \in Form
  <2>1. Rendered(found) = Opened(<<DefaultRow>>)
    BY <1>2 DEF Rendered
  <2>2. Opened(<<DefaultRow>>) \in Form
    BY DefaultTyped, OpenedTyped
  <2> QED BY <2>1, <2>2
<1>3. ASSUME found # <<>> PROVE Rendered(found) \in Form
  <2>1. found[1] \in StepRead
    BY <1>1, <1>3
  <2>2. found[1].id[1] \in 0..MaxSaves
    BY <2>1 DEF StepRead, StepId
  <2>3. Opened(RowsShown(found)) \in Form
    <3> HIDE DEF found
    <3> QED BY <1>1, RowsShownTyped, OpenedTyped
  <2> DEFINE f == Opened(RowsShown(found))
             n == found[1].id[1]
  <2>4. Rendered(found) = [f EXCEPT !.basis = n]
    BY <1>3 DEF Rendered
  <2>5. Rendered(found) \in Form
    <3> HIDE DEF f, n
    <3>1. [f EXCEPT !.basis = n] \in Form
      BY <2>2, <2>3 DEF Form, f, n
    <3> QED BY <2>4, <3>1
  <2> QED BY <2>5
<1>4. form' \in [Actors -> Form]
  <2>1. Rendered(found) \in Form
    BY <1>2, <1>3
  <2>2. form' = [form EXCEPT ![e] = Rendered(found)]
    BY RenderedForm
  <2> HIDE DEF found
  <2> QED BY <2>1, <2>2, FormReplaced
<1>5. read' \in [Actors -> Reading]
  BY NoFrames, ReadReplaced DEF RenderForm
<1> QED BY <1>4, <1>5 DEF TypeOK, RenderForm

(* The form as it is sent.                                                   *)
Sent(e, rows) ==
    [form[e] EXCEPT !.pc = "policy", !.rows = rows, !.options = {}, !.save = saves + 1,
                    !.basis = IF rows = form[e].rows THEN form[e].basis ELSE 0]

LEMMA SubmitTyped == ASSUME TypeOK, NEW e \in Actors, Submit(e) PROVE TypeOK'
<1>1. PICK rows \in Edited(form[e].rows, form[e].options) :
        /\ submitted' = [submitted EXCEPT ![saves + 1] = ParseStepsForm(rows)]
        /\ form' = [form EXCEPT ![e] = Sent(e, rows)]
  BY Zenon DEF Submit, Sent
<1>2. form[e] \in Form /\ form[e].rows \in Seq(Row \cup {Removed})
  BY DEF TypeOK, Form
<1>3. rows \in Seq(Row \cup {Removed})
  BY <1>1, <1>2, EditedTyped
<1>4. saves + 1 \in 0..MaxSaves
  BY DEF TypeOK, Submit
<1>5. Sent(e, rows) \in Form
  <2> DEFINE b == IF rows = form[e].rows THEN form[e].basis ELSE 0
  <2>1. b \in 0..MaxSaves
    BY <1>2 DEF Form, TypeOK
  <2>2. Sent(e, rows) = [form[e] EXCEPT !.pc = "policy", !.rows = rows, !.options = {},
                                        !.save = saves + 1, !.basis = b]
    BY DEF Sent
  <2> HIDE DEF b
  <2> QED BY <1>2, <1>3, <1>4, <2>1, <2>2 DEF Form
<1>6. form' \in [Actors -> Form]
  BY <1>1, <1>5, FormReplaced
<1>7. ParseStepsForm(rows) \in Seq(Row)
  BY <1>3, ParseTyped
<1>8. submitted' \in [0..MaxSaves -> Seq(Row)]
  BY <1>1, <1>4, <1>7 DEF TypeOK
<1> QED BY <1>4, <1>6, <1>8 DEF TypeOK, Submit

-----------------------------------------------------------------------------
(* The inductive invariant.                                                  *)

Saving(e) == form[e].pc \in {"policy", "steps"}

(* A form under way carries its own submission, which nobody knows of yet.   *)
FormInv ==
    \A e \in Actors : Saving(e) =>
        /\ form[e].save \in 1..saves
        /\ DOMAIN form[e].rows \subseteq 1..MaxRows
        /\ submitted[form[e].save] = ParseStepsForm(form[e].rows)

Distinct ==
    \A e, f \in Actors : Saving(e) /\ Saving(f) /\ e # f => form[e].save # form[f].save

Known(n) ==
    \/ n = storedBy
    \/ \E f \in Actors : form[f].basis = n
    \/ \E a \in Actors : \E k \in DOMAIN read[a].steps : read[a].steps[k].id[1] = n

Fresh ==
    \A n \in 0..MaxSaves : Known(n) =>
        /\ n <= saves
        /\ \A e \in Actors : Saving(e) => form[e].save # n

(* What is stored was submitted.                                             *)
StoreInv ==
    /\ submitted[0] = <<>>
    /\ policy.status # "live" => steps = <<>>
    /\ policy.status = "none" => storedBy = 0
    /\ StoredIsSubmitted

(* What was read of a submission is all of it.                               *)
ReadInv ==
    /\ ReadsOneVersion
    /\ \A a \in Actors : read[a].steps # <<>> =>
          DOMAIN read[a].steps = DOMAIN submitted[read[a].steps[1].id[1]]

(* The rows of a form that was not changed, while its submission is stored.  *)
Matches(row, was) ==
    /\ row \in Row
    /\ row.wait = was.wait
    /\ row.target = was.target \/ (was.target \in Schedules /\ onCall[was.target] = Gone)

BasisInv ==
    \A e \in Actors : policy.status = "live" /\ form[e].basis # 0 /\ form[e].basis = storedBy =>
        /\ DOMAIN form[e].rows = DOMAIN submitted[storedBy]
        /\ \A k \in DOMAIN form[e].rows : Matches(form[e].rows[k], submitted[storedBy][k])

(* An update that runs alone has stored the repeat of its own submission.    *)
RepeatInv ==
    policy.status = "live" /\ ~raced =>
        /\ \A e, f \in Actors : form[e].pc = "steps" /\ form[f].pc = "steps" => e = f
        /\ \A e \in Actors : form[e].pc = "steps" => form[e].save = policy.repeat
        /\ policy.repeat = storedBy \/ \E e \in Actors : form[e].pc = "steps"

IInv == TypeOK /\ FormInv /\ Distinct /\ Fresh /\ StoreInv /\ ReadInv /\ BasisInv /\ RepeatInv

-----------------------------------------------------------------------------
(* Each part depends on few variables.                                       *)

LEMMA TypeKept == ASSUME TypeOK, UNCHANGED vars PROVE TypeOK'
  BY DEF TypeOK, vars

LEMMA FormKept ==
    ASSUME FormInv, Distinct, UNCHANGED <<form, saves, submitted>>
    PROVE  FormInv' /\ Distinct'
  BY DEF FormInv, Distinct, Saving

LEMMA FreshKept == ASSUME Fresh, UNCHANGED <<form, read, saves, storedBy>> PROVE Fresh'
  BY DEF Fresh, Known, Saving

LEMMA StoreKept == ASSUME StoreInv, UNCHANGED <<policy, steps, submitted, storedBy>> PROVE StoreInv'
  BY DEF StoreInv, StoredIsSubmitted, RowsOf, RowOf

LEMMA ReadKept == ASSUME ReadInv, UNCHANGED <<read, steps, submitted>> PROVE ReadInv'
<1>1. StoredIds' = StoredIds
  BY DEF StoredIds
<1> QED BY <1>1 DEF ReadInv, ReadsOneVersion

LEMMA BasisKept ==
    ASSUME BasisInv, UNCHANGED <<policy, form, onCall, submitted, storedBy>>
    PROVE  BasisInv'
  BY DEF BasisInv, Matches

LEMMA RepeatKept == ASSUME RepeatInv, UNCHANGED <<policy, form, storedBy, raced>> PROVE RepeatInv'
  BY DEF RepeatInv

-----------------------------------------------------------------------------
(* The services, and the schedules.                                          *)

LEMMA ServiceStep ==
    ASSUME IInv, CreateService \/ DeleteService
    PROVE  IInv'
<1>1. UNCHANGED <<policy, steps, onCall, read, form, page, saves, faults, submitted, storedBy, raced>>
      /\ inUse' \in BOOLEAN
  BY DEF CreateService, DeleteService
<1>2. TypeOK'
  BY <1>1 DEF IInv, TypeOK
<1> QED BY <1>1, <1>2, FormKept, FreshKept, StoreKept, ReadKept, BasisKept, RepeatKept DEF IInv

(* A schedule that is gone stays gone.                                       *)
LEMMA HandoverStep == ASSUME IInv, NEW s \in Schedules, Handover(s) PROVE IInv'
<1>1. TypeOK'
  BY DEF IInv, TypeOK, Handover
<1>2. ASSUME NEW t \in Schedules, onCall[t] = Gone PROVE onCall'[t] = Gone
  BY <1>2 DEF IInv, TypeOK, Handover
<1>3. BasisInv'
  <2>1. ASSUME NEW row, NEW was, Matches(row, was) PROVE Matches(row, was)'
    BY <1>2, <2>1 DEF Matches
  <2> QED BY <2>1 DEF IInv, BasisInv, Handover
<1> QED BY <1>1, <1>3, FormKept, FreshKept, StoreKept, ReadKept, RepeatKept DEF IInv, Handover

(* No policy, no steps.                                                      *)
LEMMA DeletePolicyStep == ASSUME IInv, DeletePolicy PROVE IInv'
<1>1. TypeOK'
  BY EmptySeq DEF IInv, TypeOK, DeletePolicy
<1>2. policy'.status = "gone" /\ steps' = <<>>
  BY DEF IInv, TypeOK, DeletePolicy
<1>3. StoreInv'
  BY <1>2 DEF IInv, StoreInv, StoredIsSubmitted, DeletePolicy
<1>4. ReadInv'
  <2>1. StoredIds' = {}
    BY <1>2 DEF StoredIds
  <2> QED BY <2>1 DEF IInv, ReadInv, ReadsOneVersion, OneVersion, DeletePolicy
<1>5. BasisInv' /\ RepeatInv'
  BY <1>2 DEF BasisInv, RepeatInv
<1> QED BY <1>1, <1>3, <1>4, <1>5, FormKept, FreshKept DEF IInv, DeletePolicy

-----------------------------------------------------------------------------
(* Forms that come and go.                                                   *)

(* One form is replaced by one that is not being saved.                      *)
LEMMA FormDropped ==
    ASSUME IInv, NEW e \in Actors, NEW f \in Form, form' = [form EXCEPT ![e] = f],
           f.pc \notin {"policy", "steps"}, UNCHANGED <<saves, submitted>>
    PROVE  FormInv' /\ Distinct'
<1>1. ASSUME NEW g \in Actors, Saving(g)' PROVE Saving(g) /\ form'[g] = form[g]
  BY <1>1 DEF Saving, IInv, TypeOK
<1> QED BY <1>1 DEF IInv, FormInv, Distinct

(* No submission becomes known but those that were.                          *)
LEMMA FreshDropped ==
    ASSUME IInv, saves' = saves,
           \A n \in 0..MaxSaves : Known(n)' => Known(n) \/ n = 0,
           \A g \in Actors : Saving(g)' => Saving(g) /\ form'[g].save = form[g].save
    PROVE  Fresh'
<1>1. 0 <= saves /\ \A g \in Actors : Saving(g) => form[g].save # 0
  BY DEF IInv, TypeOK, FormInv
<1> QED BY <1>1 DEF IInv, Fresh

(* ... if the form put in its place shows none, or one that was read.        *)
LEMMA KnownForm ==
    ASSUME IInv, NEW e \in Actors, NEW f \in Form, form' = [form EXCEPT ![e] = f],
           f.basis = 0 \/ Known(f.basis), UNCHANGED storedBy,
           \A a \in Actors : read'[a].steps = read[a].steps \/ read'[a].steps = <<>>
    PROVE  \A n \in 0..MaxSaves : Known(n)' => Known(n) \/ n = 0
<1> SUFFICES ASSUME NEW n \in 0..MaxSaves, Known(n)' PROVE Known(n) \/ n = 0
  OBVIOUS
<1>1. CASE n = storedBy'
  BY <1>1 DEF Known
<1>2. CASE \E g \in Actors : form'[g].basis = n
  BY <1>2 DEF Known, IInv, TypeOK
<1>3. CASE \E a \in Actors : \E k \in DOMAIN read'[a].steps : read'[a].steps[k].id[1] = n
  BY <1>3 DEF Known
<1> QED BY <1>1, <1>2, <1>3 DEF Known

(* Every other form keeps the rows it shows.                                 *)
LEMMA BasisDropped ==
    ASSUME IInv, NEW e \in Actors, NEW f \in Form, form' = [form EXCEPT ![e] = f],
           UNCHANGED <<policy, onCall, submitted, storedBy>>,
           f.basis = 0 \/ (f.basis = form[e].basis /\ f.rows = form[e].rows)
    PROVE  BasisInv'
<1>1. ASSUME NEW g \in Actors
      PROVE  form'[g].basis = 0 \/ (form'[g].basis = form[g].basis /\ form'[g].rows = form[g].rows)
  BY DEF IInv, TypeOK
<1> QED BY <1>1 DEF IInv, BasisInv, Matches

LEMMA RepeatDropped ==
    ASSUME IInv, UNCHANGED <<policy, storedBy, raced>>,
           \A g \in Actors : form'[g].pc = "steps" <=> form[g].pc = "steps",
           \A g \in Actors : form[g].pc = "steps" => form'[g].save = form[g].save
    PROVE  RepeatInv'
  BY DEF IInv, RepeatInv

LEMMA NewFormStep == ASSUME IInv, NEW e \in Actors, NewForm(e) PROVE IInv'
<1> DEFINE f == [Opened(<<DefaultRow>>) EXCEPT !.new = TRUE]
<1>1. TypeOK'
  BY NewFormTyped DEF IInv
<1>2. f \in Form /\ f.pc = "open" /\ f.basis = 0 /\ form' = [form EXCEPT ![e] = f]
  <2>1. Opened(<<DefaultRow>>) \in Form
    BY DefaultTyped, OpenedTyped DEF IInv
  <2>2. f \in Form
    BY <2>1 DEF Form
  <2> QED BY <2>2 DEF NewForm, Opened, NoForm
<1> HIDE DEF f
<1>3. form[e].pc = "closed"
  BY DEF NewForm, Free
<1>4. FormInv' /\ Distinct'
  BY <1>2, FormDropped DEF NewForm
<1>5. \A g \in Actors : Saving(g)' => Saving(g) /\ form'[g] = form[g]
  BY <1>2 DEF IInv, TypeOK, Saving
<1>6. Fresh'
  <2>1. \A n \in 0..MaxSaves : Known(n)' => Known(n) \/ n = 0
    BY <1>2, KnownForm DEF NewForm
  <2> QED BY <2>1, <1>5, FreshDropped DEF NewForm
<1>7. BasisInv'
  BY <1>2, BasisDropped DEF NewForm
<1>8. RepeatInv'
  BY <1>2, <1>3, RepeatDropped DEF NewForm, IInv, TypeOK
<1> QED BY <1>1, <1>4, <1>6, <1>7, <1>8, StoreKept, ReadKept DEF IInv, NewForm

(* A step that only starts a read, or ends one.                              *)
LEMMA ReadForgotten ==
    ASSUME IInv, UNCHANGED <<steps, submitted>>,
           \A a \in Actors : read'[a].steps = read[a].steps \/ read'[a].steps = <<>>
    PROVE  ReadInv'
<1>1. StoredIds' = StoredIds
  BY DEF StoredIds
<1>2. OneVersion(<<>>, submitted, StoredIds)
  BY DEF OneVersion
<1>3. ReadsOneVersion'
  BY <1>1, <1>2 DEF IInv, ReadInv, ReadsOneVersion
<1> QED BY <1>3 DEF IInv, ReadInv

LEMMA EditFormStep == ASSUME IInv, NEW e \in Actors, EditForm(e) PROVE IInv'
<1> DEFINE f == [form[e] EXCEPT !.pc = "loading"]
<1>1. TypeOK'
  BY EditFormTyped DEF IInv
<1>2. /\ f \in Form /\ f.pc = "loading" /\ f.basis = form[e].basis /\ f.rows = form[e].rows
      /\ form' = [form EXCEPT ![e] = f]
  <2>1. form[e] \in Form
    BY DEF IInv, TypeOK
  <2>2. f \in Form /\ f.pc = "loading" /\ f.basis = form[e].basis /\ f.rows = form[e].rows
    BY <2>1 DEF Form
  <2> QED BY <2>2 DEF EditForm
<1> HIDE DEF f
<1>3. form[e].pc = "closed" /\ UNCHANGED <<policy, steps, onCall, saves, submitted, storedBy, raced>>
  BY DEF EditForm, Free
<1>4. FormInv' /\ Distinct'
  BY <1>2, <1>3, FormDropped
<1>5. \A g \in Actors : Saving(g)' => Saving(g) /\ form'[g] = form[g]
  BY <1>2 DEF IInv, TypeOK, Saving
<1>6. \A a \in Actors : read'[a].steps = read[a].steps
  BY DEF EditForm, IInv, TypeOK, Reading
<1>7. Fresh'
  <2>1. Known(f.basis)
    BY <1>2 DEF Known
  <2>2. \A n \in 0..MaxSaves : Known(n)' => Known(n) \/ n = 0
    BY <1>2, <1>3, <1>6, <2>1, KnownForm
  <2> QED BY <2>2, <1>3, <1>5, FreshDropped
<1>8. BasisInv'
  BY <1>2, <1>3, BasisDropped
<1>9. RepeatInv'
  BY <1>2, <1>3, RepeatDropped DEF IInv, TypeOK
<1>10. ReadInv'
  BY <1>3, <1>6, ReadForgotten
<1> QED BY <1>1, <1>3, <1>4, <1>7, <1>8, <1>9, <1>10, StoreKept DEF IInv

(* A form rendered while the submission it was read from is stored: a target *)
(* it does not show was a schedule that is gone.                             *)
LEMMA RenderedMatches ==
    ASSUME IInv, NEW e \in Actors, HasRead(e), policy.status = "live",
           read[e].steps # <<>>, read[e].steps[1].id[1] = storedBy
    PROVE  LET rows == RowsShown(read[e].steps)
           IN  /\ DOMAIN rows = DOMAIN submitted[storedBy]
               /\ \A k \in DOMAIN rows : Matches(rows[k], submitted[storedBy][k])
<1> DEFINE found == read[e].steps
           rows == RowsShown(found)
<1>1. found \in Seq(StepRead) /\ DOMAIN rows = DOMAIN found
  BY DEF IInv, TypeOK, Reading, RowsShown
<1>2. DOMAIN found = DOMAIN submitted[storedBy]
  BY DEF IInv, ReadInv
<1>3. DOMAIN steps = DOMAIN submitted[storedBy]
  BY DEF IInv, StoreInv, StoredIsSubmitted, RowsOf
<1>4. ASSUME NEW k \in DOMAIN found PROVE Matches(rows[k], submitted[storedBy][k])
  <2> DEFINE s == found[k]
             was == submitted[storedBy][k]
  <2>1. /\ s.id = <<storedBy, k>>
        /\ s.wait = was.wait
        /\ s.target \in {was.target, NoTarget, Unread}
        /\ s.target = NoTarget => s.id \notin StoredIds
    BY DEF IInv, ReadInv, ReadsOneVersion, OneVersion
  <2>2. s.id \in StoredIds
    BY <1>2, <1>3, <2>1 DEF IInv, StoreInv, StoredIsSubmitted, StoredIds
  <2>3. s.target = was.target
    BY <2>1, <2>2 DEF HasRead
  <2>4. was \in Row
    BY <1>2 DEF IInv, TypeOK
  <2>5. rows[k] \in Row
    BY <1>1, RowsShownTyped DEF IInv
  <2>6. rows[k].wait = s.wait /\ rows[k].target = Shown(s.target)
    BY DEF RowsShown
  <2>7. Shown(was.target) = was.target \/ (was.target \in Schedules /\ onCall[was.target] = Gone)
    BY <2>4 DEF Shown, TargetOptions, Row, Targets
  <2> QED BY <2>1, <2>3, <2>5, <2>6, <2>7 DEF Matches
<1> QED BY <1>1, <1>2, <1>4

LEMMA RenderFormStep == ASSUME IInv, NEW e \in Actors, RenderForm(e) PROVE IInv'
<1> DEFINE found == read[e].steps
           f == Rendered(found)
<1>1. TypeOK'
  BY RenderFormTyped DEF IInv
<1>2. form' = [form EXCEPT ![e] = f]
  BY RenderedForm
<1>3. f \in Form
  BY <1>1, <1>2 DEF IInv, TypeOK
<1>4. f.pc = "open" /\ (found = <<>> => f.basis = 0)
      /\ (found # <<>> => f.basis = found[1].id[1] /\ f.rows = RowsShown(found))
  BY DEF Rendered, Opened, NoForm
<1> HIDE DEF f
<1>5. /\ form[e].pc = "loading"
      /\ UNCHANGED <<policy, steps, onCall, saves, submitted, storedBy, raced>>
      /\ HasRead(e)
  BY DEF RenderForm
<1>6. FormInv' /\ Distinct'
  BY <1>2, <1>3, <1>4, <1>5, FormDropped
<1>7. \A g \in Actors : Saving(g)' => Saving(g) /\ form'[g] = form[g]
  BY <1>2, <1>4 DEF IInv, TypeOK, Saving
<1>8. \A a \in Actors : read'[a].steps = read[a].steps \/ read'[a].steps = <<>>
  BY DEF RenderForm, IInv, TypeOK, NoRead
<1>9. Fresh'
  <2>1. f.basis = 0 \/ Known(f.basis)
    <3>1. CASE found # <<>>
      <4>1. found \in Seq(StepRead)
        BY DEF IInv, TypeOK, Reading
      <4>2. 1 \in DOMAIN found
        BY <3>1, <4>1
      <4> QED BY <3>1, <4>2, <1>4 DEF Known
    <3> QED BY <3>1, <1>4
  <2>2. \A n \in 0..MaxSaves : Known(n)' => Known(n) \/ n = 0
    BY <1>2, <1>3, <1>5, <1>8, <2>1, KnownForm
  <2> QED BY <2>2, <1>5, <1>7, FreshDropped
<1>10. BasisInv'
  <2> SUFFICES ASSUME NEW g \in Actors, policy.status = "live", form'[g].basis # 0,
                      form'[g].basis = storedBy
               PROVE  /\ DOMAIN form'[g].rows = DOMAIN submitted[storedBy]
                      /\ \A k \in DOMAIN form'[g].rows :
                            Matches(form'[g].rows[k], submitted[storedBy][k])
    BY <1>5 DEF BasisInv, Matches
  <2>1. CASE g # e
    <3>1. form'[g] = form[g]
      BY <1>2, <2>1 DEF IInv, TypeOK
    <3> QED BY <3>1 DEF IInv, BasisInv
  <2>2. CASE g = e
    <3>1. form'[g] = f
      BY <1>2, <2>2 DEF IInv, TypeOK
    <3>2. found # <<>> /\ found[1].id[1] = storedBy /\ form'[g].rows = RowsShown(found)
      BY <1>4, <3>1
    <3> QED BY <1>5, <3>2, RenderedMatches
  <2> QED BY <2>1, <2>2
<1>11. RepeatInv'
  BY <1>2, <1>4, <1>5, RepeatDropped DEF IInv, TypeOK
<1>12. ReadInv'
  BY <1>5, <1>8, ReadForgotten
<1> QED BY <1>1, <1>5, <1>6, <1>9, <1>10, <1>11, <1>12, StoreKept DEF IInv

-----------------------------------------------------------------------------
(* Saving.                                                                   *)

(* A submission is all that a reader of it depends on.                       *)
LEMMA SameVersion ==
    ASSUME NEW found, NEW all, NEW new, NEW ids, OneVersion(found, all, ids),
           new[found[1].id[1]] = all[found[1].id[1]]
    PROVE  OneVersion(found, new, ids)
<1> DEFINE n == found[1].id[1]
<1>1. \A k \in DOMAIN found :
         /\ found[k].id = <<n, k>>
         /\ found[k].wait = all[n][k].wait
         /\ found[k].target \in {all[n][k].target, NoTarget, Unread}
         /\ found[k].target = NoTarget => found[k].id \notin ids
  BY DEF OneVersion
<1>2. new[n] = all[n]
  OBVIOUS
<1> HIDE DEF n
<1>3. \A k \in DOMAIN found :
         /\ found[k].id = <<n, k>>
         /\ found[k].wait = new[n][k].wait
         /\ found[k].target \in {new[n][k].target, NoTarget, Unread}
         /\ found[k].target = NoTarget => found[k].id \notin ids
  BY <1>1, <1>2
<1> QED BY <1>3 DEF OneVersion, n

LEMMA SubmitStep == ASSUME IInv, NEW e \in Actors, Submit(e) PROVE IInv'
<1>1. PICK rows \in Edited(form[e].rows, form[e].options) :
        /\ submitted' = [submitted EXCEPT ![saves + 1] = ParseStepsForm(rows)]
        /\ form' = [form EXCEPT ![e] = Sent(e, rows)]
  BY Zenon DEF Submit, Sent
<1>2. TypeOK'
  BY SubmitTyped DEF IInv
<1>3. form[e].pc = "open" /\ saves' = saves + 1 /\ saves + 1 \in 1..MaxSaves /\ saves \in 0..MaxSaves
      /\ UNCHANGED <<policy, steps, onCall, read, storedBy, raced>>
  BY DEF Submit, IInv, TypeOK
<1>4. form[e].rows \in Seq(Row \cup {Removed}) /\ form[e] \in Form
  BY DEF IInv, TypeOK, Form
<1>5. DOMAIN rows \subseteq 1..MaxRows
  BY <1>1, <1>4, EditedTyped
<1>6. /\ form'[e].pc = "policy" /\ form'[e].rows = rows /\ form'[e].save = saves + 1
      /\ form'[e].basis = 0 \/ (form'[e].basis = form[e].basis /\ rows = form[e].rows)
  BY <1>1, <1>4 DEF Sent, IInv, TypeOK, Form
<1>7. \A g \in Actors : g # e => form'[g] = form[g]
  BY <1>1 DEF IInv, TypeOK
<1>8. /\ submitted'[saves + 1] = ParseStepsForm(rows)
      /\ \A n \in 0..saves : submitted'[n] = submitted[n]
  BY <1>1, <1>3 DEF IInv, TypeOK
<1>9. FormInv' /\ Distinct'
  BY <1>3, <1>5, <1>6, <1>7, <1>8 DEF IInv, FormInv, Distinct, Saving
<1>10. \A n \in 0..MaxSaves : Known(n) => n <= saves
  BY DEF IInv, Fresh
<1>11. Fresh'
  <2> SUFFICES ASSUME NEW n \in 0..MaxSaves, Known(n)'
               PROVE  n <= saves' /\ \A g \in Actors : Saving(g)' => form'[g].save # n
    BY DEF Fresh
  <2>1. Known(n) \/ n = 0
    <3>1. CASE \E g \in Actors : form'[g].basis = n
      BY <1>6, <1>7, <3>1 DEF Known
    <3>2. CASE ~\E g \in Actors : form'[g].basis = n
      BY <1>3, <3>2 DEF Known
    <3> QED BY <3>1, <3>2
  <2>2. n <= saves
    BY <1>3, <1>10, <2>1
  <2>3. ASSUME NEW g \in Actors, Saving(g)' PROVE form'[g].save # n
    BY <1>3, <1>6, <1>7, <2>1, <2>2, <2>3 DEF IInv, Fresh, FormInv, Saving
  <2> QED BY <1>3, <2>2, <2>3
<1>12. submitted'[storedBy] = submitted[storedBy] /\ submitted'[0] = submitted[0]
  <2>1. storedBy \in 0..saves
    <3>1. Known(storedBy)
      BY DEF Known
    <3>2. storedBy \in 0..MaxSaves
      BY DEF IInv, TypeOK
    <3> QED BY <1>3, <1>10, <3>1, <3>2
  <2> QED BY <1>3, <1>8, <2>1
<1>13. StoreInv'
  BY <1>3, <1>12 DEF IInv, StoreInv, StoredIsSubmitted, RowsOf, RowOf
<1>14. ReadInv'
  <2>1. StoredIds' = StoredIds
    BY <1>3 DEF StoredIds
  <2>2. ASSUME NEW a \in Actors, read[a].steps # <<>>
        PROVE  submitted'[read[a].steps[1].id[1]] = submitted[read[a].steps[1].id[1]]
    <3>1. read[a].steps \in Seq(StepRead)
      BY DEF IInv, TypeOK, Reading
    <3>2. 1 \in DOMAIN read[a].steps /\ read[a].steps[1] \in StepRead
      BY <2>2, <3>1
    <3>3. read[a].steps[1].id[1] \in 0..MaxSaves /\ Known(read[a].steps[1].id[1])
      BY <3>2 DEF StepRead, StepId, Known
    <3> QED BY <1>3, <1>8, <1>10, <3>3
  <2>3. ASSUME NEW a \in Actors PROVE OneVersion(read[a].steps, submitted', StoredIds)
    <3>1. CASE read[a].steps = <<>>
      BY <3>1 DEF OneVersion
    <3>2. CASE read[a].steps # <<>>
      BY <2>2, <3>2, SameVersion DEF IInv, ReadInv, ReadsOneVersion
    <3> QED BY <3>1, <3>2
  <2>4. ReadsOneVersion'
    BY <1>3, <2>1, <2>3 DEF ReadsOneVersion
  <2> QED BY <1>3, <2>2, <2>4 DEF IInv, ReadInv
<1>15. BasisInv'
  <2> SUFFICES ASSUME NEW g \in Actors, policy.status = "live", form'[g].basis # 0,
                      form'[g].basis = storedBy
               PROVE  /\ DOMAIN form'[g].rows = DOMAIN submitted[storedBy]
                      /\ \A k \in DOMAIN form'[g].rows :
                            Matches(form'[g].rows[k], submitted[storedBy][k])
    BY <1>3, <1>12 DEF BasisInv, Matches
  <2>1. form'[g].basis = form[g].basis /\ form'[g].rows = form[g].rows
    BY <1>6, <1>7
  <2> QED BY <2>1 DEF IInv, BasisInv
<1>9a. RepeatInv'
  <2>1. \A g \in Actors : form'[g].pc = "steps" <=> form[g].pc = "steps"
    BY <1>3, <1>6, <1>7
  <2>2. \A g \in Actors : form[g].pc = "steps" => form'[g].save = form[g].save
    BY <1>3, <1>7
  <2> QED BY <1>3, <2>1, <2>2, RepeatDropped
<1> QED BY <1>2, <1>9, <1>11, <1>13, <1>14, <1>15, <1>9a DEF IInv

(* CreatePolicy or the UPDATE: the repeat is this submission's, and its steps *)
(* are next.                                                                 *)
LEMMA StorePolicyTyped == ASSUME TypeOK, NEW e \in Actors, StorePolicy(e) PROVE TypeOK'
<1> DEFINE elsewhere == form[e].new /\ policy.status # "none"
           f == IF elsewhere THEN NoForm ELSE Then(e)
<1>1. form[e] \in Form
  BY DEF TypeOK
<1>2. Then(e) \in Form
  BY <1>1 DEF Then, Form
<1>3. f \in Form /\ form' = [form EXCEPT ![e] = f]
  BY <1>2, NoFrames DEF StorePolicy
<1>4. form' \in [Actors -> Form]
  <2> HIDE DEF f
  <2> QED BY <1>3, FormReplaced
<1>5. form[e].save \in 0..MaxSaves
  BY <1>1 DEF Form
<1>6. policy' \in [status : {"none", "live", "gone"}, repeat : 0..MaxSaves]
  BY <1>5 DEF StorePolicy, TypeOK
<1>7. raced' \in BOOLEAN
  BY DEF StorePolicy, TypeOK
<1> QED BY <1>4, <1>6, <1>7 DEF TypeOK, StorePolicy

LEMMA StorePolicyStep == ASSUME IInv, NEW e \in Actors, StorePolicy(e) PROVE IInv'
<1> DEFINE elsewhere == form[e].new /\ policy.status # "none"
           f == IF elsewhere THEN NoForm ELSE Then(e)
<1>1. TypeOK'
  BY StorePolicyTyped DEF IInv
<1>2. form' = [form EXCEPT ![e] = f]
  BY DEF StorePolicy
<1>3. f \in Form /\ form[e] \in Form
  BY <1>1, <1>2 DEF IInv, TypeOK
<1>4. \/ elsewhere /\ f = NoForm /\ policy' = policy /\ raced' = raced
      \/ /\ ~elsewhere
         /\ f.pc = "steps" /\ f.rows = form[e].rows /\ f.save = form[e].save /\ f.basis = form[e].basis
         /\ raced' = \E g \in Actors : form[g].pc = "steps"
         /\ \/ policy' = policy /\ policy.status = "gone"
            \/ policy'.status = "live" /\ policy'.repeat = form[e].save /\ policy.status \in {"none", "live"}
  BY <1>3 DEF StorePolicy, Then, Form, IInv, TypeOK
<1>5. form[e].pc = "policy" /\ UNCHANGED <<steps, onCall, read, saves, submitted, storedBy>>
  BY DEF StorePolicy
<1>6. f.basis = 0 \/ (f.basis = form[e].basis /\ f.rows = form[e].rows)
  BY <1>4 DEF NoForm
<1>7. f.pc \in {"closed", "steps"} /\ (f.pc = "steps" => f.save = form[e].save /\ f.rows = form[e].rows)
  BY <1>4 DEF NoForm
<1> HIDE DEF f, elsewhere
<1>8. \A g \in Actors : g # e => form'[g] = form[g]
  BY <1>2 DEF IInv, TypeOK
<1>9. form'[e] = f
  BY <1>2 DEF IInv, TypeOK
<1>10. \A g \in Actors : Saving(g)' => /\ Saving(g) /\ form'[g].save = form[g].save
                                       /\ form'[g].rows = form[g].rows
  BY <1>5, <1>7, <1>8, <1>9 DEF Saving
<1>11. FormInv' /\ Distinct'
  BY <1>5, <1>10 DEF IInv, FormInv, Distinct
<1>12. Fresh'
  <2>1. f.basis = 0 \/ Known(f.basis)
    BY <1>6 DEF Known
  <2>2. \A n \in 0..MaxSaves : Known(n)' => Known(n) \/ n = 0
    BY <1>2, <1>3, <1>5, <2>1, KnownForm
  <2> QED BY <2>2, <1>5, <1>10, FreshDropped
<1>13. StoreInv'
  <2>1. CASE policy' = policy
    BY <1>5, <2>1, StoreKept DEF IInv
  <2>2. CASE policy'.status = "live" /\ policy.status = "live"
    BY <1>5, <2>2 DEF IInv, StoreInv, StoredIsSubmitted, RowsOf, RowOf
  <2>3. CASE policy'.status = "live" /\ policy.status = "none"
    <3>1. steps = <<>> /\ storedBy = 0 /\ submitted[0] = <<>>
      BY <2>3 DEF IInv, StoreInv
    <3>2. RowsOf(<<>>) = <<>>
      BY DEF RowsOf
    <3> QED BY <1>5, <2>3, <3>1, <3>2 DEF StoreInv, StoredIsSubmitted, RowsOf, RowOf
  <2> QED BY <1>4, <2>1, <2>2, <2>3
<1>14. ReadInv'
  BY <1>5, ReadKept DEF IInv
<1>15. BasisInv'
  <2> SUFFICES ASSUME NEW g \in Actors, policy'.status = "live", form'[g].basis # 0,
                      form'[g].basis = storedBy
               PROVE  /\ DOMAIN form'[g].rows = DOMAIN submitted[storedBy]
                      /\ \A k \in DOMAIN form'[g].rows :
                            Matches(form'[g].rows[k], submitted[storedBy][k])
    BY <1>5 DEF BasisInv, Matches
  <2>1. form'[g].basis = form[g].basis /\ form'[g].rows = form[g].rows
    BY <1>6, <1>8, <1>9
  <2>2. policy.status = "live"
    BY <1>4 DEF IInv, StoreInv
  <2> QED BY <2>1, <2>2 DEF IInv, BasisInv
<1>9a. RepeatInv'
  <2> SUFFICES ASSUME policy'.status = "live", ~raced' PROVE RepeatInv'
    BY DEF RepeatInv
  <2>1. CASE elsewhere
    <3>1. f.pc = "closed" /\ policy' = policy /\ raced' = raced
      BY <1>4, <2>1 DEF NoForm
    <3>2. \A g \in Actors : form'[g].pc = "steps" <=> form[g].pc = "steps"
      BY <1>5, <1>8, <1>9, <3>1
    <3>3. \A g \in Actors : form[g].pc = "steps" => form'[g].save = form[g].save
      BY <1>5, <1>8
    <3> QED BY <1>5, <3>1, <3>2, <3>3, RepeatDropped
  <2>2. CASE ~elsewhere
    <3>1. f.pc = "steps" /\ f.save = form[e].save /\ policy'.repeat = form[e].save
          /\ \A g \in Actors : form[g].pc # "steps"
      BY <1>4, <2>2
    <3>2. \A g \in Actors : form'[g].pc = "steps" <=> g = e
      BY <1>8, <1>9, <3>1
    <3> QED BY <1>9, <3>1, <3>2 DEF RepeatInv
  <2> QED BY <2>1, <2>2
<1> QED BY <1>1, <1>11, <1>12, <1>13, <1>14, <1>15, <1>9a DEF IInv

(* ReplaceSteps commits: the steps are this submission's.                    *)
LEMMA StepsStored ==
    ASSUME IInv, NEW e \in Actors, StoreSteps(e), policy.status = "live"
    PROVE  /\ storedBy' = form[e].save
           /\ DOMAIN steps' = DOMAIN submitted[storedBy']
           /\ RowsOf(steps)' = submitted[storedBy']
           /\ \A k \in DOMAIN steps' : steps'[k].id = <<storedBy', k>>
           /\ steps' \in Seq(Step)
<1> DEFINE rows == ParseStepsForm(form[e].rows)
<1>1. /\ storedBy' = form[e].save
      /\ steps' = [k \in DOMAIN rows |->
                     [id |-> <<form[e].save, k>>, wait |-> rows[k].wait, target |-> rows[k].target]]
  BY DEF StoreSteps
<1>2. Saving(e) /\ form[e].rows \in Seq(Row \cup {Removed})
  BY DEF StoreSteps, Saving, IInv, TypeOK, Form
<1>3. submitted[form[e].save] = rows /\ form[e].save \in 1..MaxSaves
  BY <1>2 DEF IInv, FormInv, TypeOK
<1>4. rows \in Seq(Row) /\ DOMAIN rows \subseteq 1..MaxRows
  BY <1>2, ParseTyped DEF IInv, FormInv
<1> HIDE DEF rows
<1>5. ASSUME NEW k \in DOMAIN rows
      PROVE  steps'[k] \in Step /\ RowOf(steps'[k]) = rows[k] /\ steps'[k].id = <<form[e].save, k>>
  <2>1. rows[k] \in Row /\ k \in 1..MaxRows
    BY <1>4
  <2> QED BY <1>1, <1>3, <2>1 DEF Step, StepId, Row, RowOf
<1>6. DOMAIN steps' = DOMAIN rows /\ DOMAIN rows = 1..Len(rows) /\ Len(rows) \in Nat
  BY <1>1, <1>4
<1>7. steps' \in [1..Len(rows) -> Step]
  BY <1>1, <1>5, <1>6
<1>8. steps' \in Seq(Step)
  BY <1>6, <1>7, ASeq
<1>9. RowsOf(steps)' = rows
  <2>1. RowsOf(steps)' = [k \in DOMAIN rows |-> rows[k]]
    BY <1>5, <1>6 DEF RowsOf, RowOf
  <2>2. rows = [k \in DOMAIN rows |-> rows[k]]
    BY <1>4
  <2> QED BY <2>1, <2>2
<1> QED BY <1>1, <1>3, <1>5, <1>6, <1>8, <1>9

LEMMA StoreStepsStep == ASSUME IInv, NEW e \in Actors, StoreSteps(e) PROVE IInv'
<1>1. /\ form[e].pc = "steps" /\ Saving(e) /\ form' = [form EXCEPT ![e] = NoForm]
      /\ UNCHANGED <<policy, inUse, onCall, read, page, saves, faults, submitted, raced>>
  BY DEF StoreSteps, Saving
<1>2. NoForm \in Form /\ NoForm.pc = "closed" /\ NoForm.basis = 0
  BY NoFrames DEF NoForm
<1>3. form'[e] = NoForm /\ \A g \in Actors : g # e => form'[g] = form[g]
  BY <1>1 DEF IInv, TypeOK
<1>4. FormInv' /\ Distinct'
  BY <1>1, <1>2, FormDropped
<1>5. \A g \in Actors : Saving(g)' => Saving(g) /\ form'[g] = form[g] /\ g # e
  BY <1>2, <1>3 DEF Saving
<1>6. CASE policy.status # "live"
  <2>1. UNCHANGED <<steps, storedBy>>
    BY <1>6 DEF StoreSteps
  <2>2. TypeOK'
    BY <1>1, <1>2, <2>1, FormReplaced DEF IInv, TypeOK
  <2>3. Fresh'
    <3>1. \A n \in 0..MaxSaves : Known(n)' => Known(n) \/ n = 0
      BY <1>1, <1>2, <2>1, KnownForm
    <3> QED BY <1>1, <1>5, <3>1, FreshDropped
  <2>4. BasisInv' /\ RepeatInv'
    BY <1>1, <1>6 DEF BasisInv, RepeatInv
  <2> QED BY <1>1, <1>4, <2>1, <2>2, <2>3, <2>4, StoreKept, ReadKept DEF IInv
<1>7. CASE policy.status = "live"
  <2>1. /\ storedBy' = form[e].save
        /\ DOMAIN steps' = DOMAIN submitted[storedBy']
        /\ RowsOf(steps)' = submitted[storedBy']
        /\ \A k \in DOMAIN steps' : steps'[k].id = <<storedBy', k>>
        /\ steps' \in Seq(Step)
    BY <1>7, StepsStored
  <2>2. form[e].save \in 1..saves
    BY <1>1 DEF IInv, FormInv
  <2>3. TypeOK'
    <3>1. form' \in [Actors -> Form]
      BY <1>1, <1>2, FormReplaced DEF IInv
    <3>2. storedBy' \in 0..MaxSaves
      BY <2>1, <2>2 DEF IInv, TypeOK
    <3> QED BY <1>1, <2>1, <3>1, <3>2 DEF IInv, TypeOK
  <2>4. ASSUME NEW n \in 0..MaxSaves, Known(n)' PROVE Known(n) \/ n = 0 \/ n = form[e].save
    <3>1. CASE n = storedBy'
      BY <2>1, <3>1
    <3>2. CASE \E g \in Actors : form'[g].basis = n
      BY <1>2, <1>3, <3>2 DEF Known
    <3>3. CASE \E a \in Actors : \E k \in DOMAIN read'[a].steps : read'[a].steps[k].id[1] = n
      BY <1>1, <3>3 DEF Known
    <3> QED BY <2>4, <3>1, <3>2, <3>3 DEF Known
  <2>5. Fresh'
    <3> SUFFICES ASSUME NEW n \in 0..MaxSaves, Known(n)'
                 PROVE  n <= saves' /\ \A g \in Actors : Saving(g)' => form'[g].save # n
      BY DEF Fresh
    <3>1. CASE Known(n)
      BY <1>1, <1>5, <3>1 DEF IInv, Fresh
    <3>2. CASE n = 0
      BY <1>1, <1>5, <3>2 DEF IInv, TypeOK, FormInv
    <3>3. CASE n = form[e].save
      BY <1>1, <1>5, <2>2, <3>3 DEF IInv, Distinct
    <3> QED BY <2>4, <3>1, <3>2, <3>3
  <2>6. StoreInv'
    BY <1>1, <1>7, <2>1 DEF IInv, StoreInv, StoredIsSubmitted
  <2>7. ReadInv'
    <3>1. ASSUME NEW a \in Actors, NEW k \in DOMAIN read[a].steps
          PROVE  read[a].steps[k].id \notin StoredIds'
      <4> DEFINE n == read[a].steps[k].id[1]
      <4>1. read[a].steps[k] \in StepRead
        BY DEF IInv, TypeOK, Reading
      <4>2. n \in 0..MaxSaves /\ Known(n)
        BY <4>1 DEF StepRead, StepId, Known
      <4>3. form[e].save # n
        BY <1>1, <4>2 DEF IInv, Fresh
      <4>4. \A j \in DOMAIN steps' : steps'[j].id[1] = form[e].save
        BY <2>1
      <4> QED BY <4>3, <4>4 DEF StoredIds
    <3>2. ASSUME NEW a \in Actors PROVE OneVersion(read[a].steps, submitted, StoredIds')
      BY <3>1 DEF IInv, ReadInv, ReadsOneVersion, OneVersion
    <3>3. ReadsOneVersion'
      BY <1>1, <3>2 DEF ReadsOneVersion
    <3> QED BY <1>1, <3>3 DEF IInv, ReadInv
  <2>8. BasisInv'
    <3> SUFFICES ASSUME NEW g \in Actors, form'[g].basis # 0, form'[g].basis = storedBy' PROVE FALSE
      BY DEF BasisInv
    <3>1. g # e /\ form'[g] = form[g]
      BY <1>2, <1>3
    <3>2. Known(form[g].basis) /\ form[g].basis \in 0..MaxSaves
      BY DEF Known, IInv, TypeOK, Form
    <3> QED BY <1>1, <2>1, <3>1, <3>2 DEF IInv, Fresh
  <2>9. RepeatInv'
    <3> SUFFICES ASSUME ~raced PROVE RepeatInv'
      BY <1>1 DEF RepeatInv
    <3>1. form[e].save = policy.repeat /\ \A g \in Actors : form[g].pc = "steps" => g = e
      BY <1>1, <1>7 DEF IInv, RepeatInv
    <3>2. \A g \in Actors : form'[g].pc # "steps"
      BY <1>2, <1>3, <3>1
    <3> QED BY <1>1, <2>1, <3>1, <3>2 DEF RepeatInv
  <2> QED BY <1>4, <2>3, <2>5, <2>6, <2>7, <2>8, <2>9 DEF IInv
<1> QED BY <1>6, <1>7

(* A statement fails: nothing of the steps is lost.                          *)
LEMMA SaveErrorStep == ASSUME IInv, NEW e \in Actors, SaveError(e) PROVE IInv'
<1>1. /\ form' = [form EXCEPT ![e] = NoForm] /\ raced' = TRUE /\ steps' = steps
      /\ faults' \in 0..MaxFaults
      /\ UNCHANGED <<policy, inUse, onCall, read, page, saves, submitted, storedBy>>
  BY DEF SaveError, RolledBack, IInv, TypeOK
<1>2. NoForm \in Form /\ NoForm.pc = "closed" /\ NoForm.basis = 0
  BY NoFrames DEF NoForm
<1>3. TypeOK'
  BY <1>1, <1>2, FormReplaced DEF IInv, TypeOK
<1>4. FormInv' /\ Distinct'
  BY <1>1, <1>2, FormDropped
<1>5. \A g \in Actors : Saving(g)' => Saving(g) /\ form'[g] = form[g]
  BY <1>1, <1>2 DEF IInv, TypeOK, Saving
<1>6. Fresh'
  <2>1. \A n \in 0..MaxSaves : Known(n)' => Known(n) \/ n = 0
    BY <1>1, <1>2, KnownForm
  <2> QED BY <1>1, <1>5, <2>1, FreshDropped
<1>7. BasisInv'
  BY <1>1, <1>2, BasisDropped
<1>8. RepeatInv'
  BY <1>1 DEF RepeatInv
<1> QED BY <1>1, <1>3, <1>4, <1>6, <1>7, <1>8, StoreKept, ReadKept DEF IInv

-----------------------------------------------------------------------------
(* Reading.                                                                  *)

(* One reading is replaced by the steps of what is stored, or by the same    *)
(* steps with one target more.                                               *)
LEMMA ReadMoved ==
    ASSUME IInv, NEW a \in Actors, NEW x \in Reading, read' = [read EXCEPT ![a] = x],
           UNCHANGED <<policy, steps, inUse, onCall, form, saves, faults, submitted, storedBy, raced>>,
           page' \in [Actors -> Paging],
           \A k \in DOMAIN x.steps : Known(x.steps[k].id[1]),
           x.steps # <<>> => DOMAIN x.steps = DOMAIN submitted[x.steps[1].id[1]],
           OneVersion(x.steps, submitted, StoredIds)
    PROVE  IInv'
<1>1. TypeOK'
  BY ReadReplaced DEF IInv, TypeOK
<1>2. read'[a] = x /\ \A b \in Actors : b # a => read'[b] = read[b]
  BY DEF IInv, TypeOK
<1>3. Fresh'
  <2>1. ASSUME NEW n \in 0..MaxSaves, Known(n)' PROVE Known(n)
    <3>1. CASE \E b \in Actors : \E k \in DOMAIN read'[b].steps : read'[b].steps[k].id[1] = n
      <4>1. PICK b \in Actors : \E k \in DOMAIN read'[b].steps : read'[b].steps[k].id[1] = n
        BY <3>1
      <4>2. CASE b = a
        BY <1>2, <4>1, <4>2
      <4>3. CASE b # a
        BY <1>2, <4>1, <4>3 DEF Known
      <4> QED BY <4>2, <4>3
    <3>2. CASE ~\E b \in Actors : \E k \in DOMAIN read'[b].steps : read'[b].steps[k].id[1] = n
      BY <2>1, <3>2 DEF Known
    <3> QED BY <3>1, <3>2
  <2> QED BY <2>1 DEF IInv, Fresh, Saving
<1>4. ReadInv'
  <2>1. StoredIds' = StoredIds
    BY DEF StoredIds
  <2>2. ASSUME NEW b \in Actors PROVE OneVersion(read'[b].steps, submitted, StoredIds)
    BY <1>2 DEF IInv, ReadInv, ReadsOneVersion
  <2>3. ReadsOneVersion'
    BY <2>1, <2>2 DEF ReadsOneVersion
  <2> QED BY <1>2, <2>3 DEF IInv, ReadInv
<1> QED BY <1>1, <1>3, <1>4, FormKept, StoreKept, BasisKept, RepeatKept DEF IInv

LEMMA ReadStepsStep == ASSUME IInv, NEW a \in Actors, ReadSteps(a) PROVE IInv'
<1> DEFINE rows == [k \in DOMAIN steps |-> [StepRows[k] EXCEPT !.target = Unread]]
           x == [pc |-> "targets", steps |-> rows]
<1>1. read' = [read EXCEPT ![a] = x]
  BY DEF ReadSteps
<1>2. x \in Reading
  <2>1. read' \in [Actors -> Reading]
    BY ReadStepsTyped DEF IInv, TypeOK
  <2> QED BY <1>1, <2>1 DEF IInv, TypeOK
<1>3. CASE steps = <<>>
  <2>1. DOMAIN x.steps = {}
    BY <1>3
  <2>2. x.steps = <<>> /\ OneVersion(x.steps, submitted, StoredIds)
    BY <1>3 DEF OneVersion
  <2> HIDE DEF x
  <2> QED BY <1>1, <1>2, <2>1, <2>2, ReadMoved DEF ReadSteps, IInv, TypeOK
<1>4. CASE steps # <<>>
  <2>1. policy.status = "live"
    BY <1>4 DEF IInv, StoreInv
  <2>2. /\ DOMAIN steps = DOMAIN submitted[storedBy]
        /\ \A k \in DOMAIN steps : steps[k].id = <<storedBy, k>> /\ steps[k].wait = submitted[storedBy][k].wait
    <3>1. RowsOf(steps) = submitted[storedBy] /\ \A k \in DOMAIN steps : steps[k].id = <<storedBy, k>>
      BY <2>1 DEF IInv, StoreInv, StoredIsSubmitted
    <3>2. DOMAIN steps = DOMAIN RowsOf(steps) /\ \A k \in DOMAIN steps : RowsOf(steps)[k].wait = steps[k].wait
      BY DEF RowsOf, RowOf
    <3> QED BY <3>1, <3>2
  <2>3. ASSUME NEW k \in DOMAIN steps
        PROVE  /\ rows[k].id = <<storedBy, k>>
               /\ rows[k].wait = submitted[storedBy][k].wait
               /\ rows[k].target = Unread
    <3>1. steps[k] \in Step
      BY DEF IInv, TypeOK
    <3> QED BY <2>2, <3>1 DEF StepRows, Step
  <2>4. 1 \in DOMAIN steps
    BY <1>4 DEF IInv, TypeOK
  <2>5. x.steps = rows /\ DOMAIN rows = DOMAIN steps /\ rows[1].id[1] = storedBy
    BY <2>3, <2>4
  <2>6. Known(storedBy)
    BY DEF Known
  <2>7. /\ \A k \in DOMAIN x.steps : Known(x.steps[k].id[1])
        /\ x.steps # <<>> => DOMAIN x.steps = DOMAIN submitted[x.steps[1].id[1]]
        /\ OneVersion(x.steps, submitted, StoredIds)
    <3> HIDE DEF rows
    <3>1. Unread # NoTarget
      OBVIOUS
    <3> QED BY <2>2, <2>3, <2>5, <2>6, <3>1 DEF OneVersion
  <2> HIDE DEF x
  <2> QED BY <1>1, <1>2, <2>7, ReadMoved DEF ReadSteps, IInv, TypeOK
<1> QED BY <1>3, <1>4

(* A target that is found is the one that was submitted with its step.       *)
LEMMA TargetFound ==
    ASSUME IInv, NEW a \in Actors, NEW k \in DOMAIN read[a].steps
    PROVE  LET id == read[a].steps[k].id
               n == read[a].steps[1].id[1]
           IN  \/ TargetsForStep(id) = submitted[n][k].target
               \/ TargetsForStep(id) = NoTarget /\ id \notin StoredIds
<1> DEFINE id == read[a].steps[k].id
           n == read[a].steps[1].id[1]
           found == {j \in DOMAIN steps : steps[j].id = id}
<1>1. id = <<n, k>>
  BY DEF IInv, ReadInv, ReadsOneVersion, OneVersion
<1>2. CASE found = {}
  BY <1>2 DEF TargetsForStep, StoredIds
<1>3. CASE found # {}
  <2> DEFINE j == CHOOSE j \in found : TRUE
  <2>1. j \in found
    BY <1>3
  <2>2. j \in DOMAIN steps /\ steps[j].id = id
    BY <2>1
  <2>3. TargetsForStep(id) = steps[j].target
    BY <1>3 DEF TargetsForStep
  <2> HIDE DEF j, id
  <2>4. steps # <<>>
    BY <2>2
  <2>5. policy.status = "live"
    BY <2>4 DEF IInv, StoreInv
  <2>6. steps[j].id = <<storedBy, j>> /\ RowsOf(steps) = submitted[storedBy]
    BY <2>2, <2>5 DEF IInv, StoreInv, StoredIsSubmitted
  <2>7. storedBy = n /\ j = k
    BY <1>1, <2>2, <2>6
  <2>8. RowsOf(steps)[j].target = steps[j].target
    BY <2>2 DEF RowsOf, RowOf
  <2> QED BY <2>3, <2>6, <2>7, <2>8 DEF id
<1> QED BY <1>2, <1>3

(* What was read of a submission had a target when it was submitted.         *)
LEMMA TargetSubmitted ==
    ASSUME IInv, NEW p \in Actors, NEW k \in DOMAIN read[p].steps
    PROVE  submitted[read[p].steps[1].id[1]][k].target \in Targets
<1> DEFINE n == read[p].steps[1].id[1]
<1>1. read[p].steps \in Seq(StepRead)
  BY DEF IInv, TypeOK, Reading
<1>2. read[p].steps # <<>> /\ 1 \in DOMAIN read[p].steps
  BY <1>1
<1>3. read[p].steps[1] \in StepRead
  BY <1>1, <1>2
<1>4. n \in 0..MaxSaves
  BY <1>3 DEF StepRead, StepId
<1>5. k \in DOMAIN submitted[n]
  BY <1>2 DEF IInv, ReadInv
<1>6. submitted[n] \in Seq(Row)
  BY <1>4 DEF IInv, TypeOK
<1>7. submitted[n][k] \in Row
  BY <1>5, <1>6
<1> QED BY <1>7 DEF Row

LEMMA ReadTargetsStep == ASSUME IInv, NEW a \in Actors, ReadTargets(a) PROVE IInv'
<1>1. PICK k \in DOMAIN read[a].steps :
        read' = [read EXCEPT ![a].steps[k].target = TargetsForStep(read[a].steps[k].id)]
  BY DEF ReadTargets
<1> DEFINE s == read[a].steps
           t == TargetsForStep(s[k].id)
           y == [s[k] EXCEPT !.target = t]
           x == [read[a] EXCEPT !.steps = [s EXCEPT ![k] = y]]
<1>2. read[a] \in Reading /\ s \in Seq(StepRead) /\ s[k] \in StepRead
  BY DEF IInv, TypeOK, Reading
<1>3. read' = [read EXCEPT ![a] = x]
  BY <1>1 DEF IInv, TypeOK
<1>4. x \in Reading
  <2>1. read' \in [Actors -> Reading]
    BY ReadTargetsTyped DEF IInv, TypeOK
  <2> HIDE DEF x
  <2> QED BY <1>3, <2>1 DEF IInv, TypeOK
<1>5. x.steps = [s EXCEPT ![k] = y]
  <2> HIDE DEF y, s
  <2> QED BY <1>2 DEF Reading
<1>6. y.id = s[k].id /\ y.wait = s[k].wait /\ y.target = t
  BY <1>2 DEF StepRead
<1> DEFINE n == s[1].id[1]
<1>7. t = submitted[n][k].target \/ (t = NoTarget /\ s[k].id \notin StoredIds)
  BY TargetFound
<1>8. \A j \in DOMAIN s :
         /\ s[j].id = <<n, j>>
         /\ s[j].wait = submitted[n][j].wait
         /\ s[j].target \in {submitted[n][j].target, NoTarget, Unread}
         /\ s[j].target = NoTarget => s[j].id \notin StoredIds
  BY DEF IInv, ReadInv, ReadsOneVersion, OneVersion
<1>9. DOMAIN s = DOMAIN submitted[n] /\ \A j \in DOMAIN s : Known(s[j].id[1])
  BY <1>1 DEF IInv, ReadInv, Known
<1>9a. submitted[n][k].target \in Targets
  BY <1>1, TargetSubmitted
<1> HIDE DEF s, t, y, x, n
<1>10. DOMAIN x.steps = DOMAIN s /\ k \in DOMAIN s /\ x.steps[k] = y
       /\ \A j \in DOMAIN s : j # k => x.steps[j] = s[j]
  BY <1>1, <1>2, <1>5 DEF s
<1>11. x.steps[1].id[1] = n
  <2>1. 1 \in DOMAIN s
    BY <1>2, <1>10
  <2> QED BY <1>6, <1>10, <2>1 DEF n
<1>12. /\ \A j \in DOMAIN x.steps : Known(x.steps[j].id[1])
       /\ DOMAIN x.steps = DOMAIN submitted[n]
  BY <1>6, <1>9, <1>10
<1>13. ASSUME NEW j \in DOMAIN x.steps
       PROVE  /\ x.steps[j].id = <<n, j>>
              /\ x.steps[j].wait = submitted[n][j].wait
              /\ x.steps[j].target \in {submitted[n][j].target, NoTarget, Unread}
              /\ x.steps[j].target = NoTarget => x.steps[j].id \notin StoredIds
  <2>1. CASE j = k
    <3>1. x.steps[j].id = s[k].id /\ x.steps[j].wait = s[k].wait /\ x.steps[j].target = t
      BY <1>6, <1>10, <2>1
    <3>2. s[k].id = <<n, k>> /\ s[k].wait = submitted[n][k].wait
      BY <1>8, <1>10
    <3>3. t \in {submitted[n][j].target, NoTarget, Unread}
      BY <1>7, <2>1
    <3>4. t = NoTarget => s[k].id \notin StoredIds
      <4>1. CASE t = NoTarget /\ s[k].id \notin StoredIds
        BY <4>1
      <4>2. CASE t = submitted[n][k].target /\ t = NoTarget
        <5>1. t # NoTarget
          BY <1>9a, <4>2, PolicyAssumption DEF Targets
        <5> QED BY <4>2, <5>1
      <4> QED BY <1>7, <4>1, <4>2
    <3>5. x.steps[j].id = <<n, j>> /\ x.steps[j].wait = submitted[n][j].wait
      BY <2>1, <3>1, <3>2
    <3> QED BY <3>1, <3>3, <3>4, <3>5
  <2>2. CASE j # k
    BY <1>8, <1>10, <2>2
  <2> QED BY <2>1, <2>2
<1>14. UNCHANGED <<policy, steps, inUse, onCall, form, page, saves, faults, submitted, storedBy, raced>>
       /\ page' \in [Actors -> Paging]
  BY DEF ReadTargets, IInv, TypeOK
<1>15. OneVersion(x.steps, submitted, StoredIds)
  BY <1>11, <1>13 DEF OneVersion
<1> QED BY <1>3, <1>4, <1>11, <1>12, <1>14, <1>15, ReadMoved

-----------------------------------------------------------------------------
(* Paging.                                                                   *)

LEMMA FireStep == ASSUME IInv, NEW p \in Actors, Fire(p) PROVE IInv'
<1> DEFINE x == [read[p] EXCEPT !.pc = "steps"]
<1>1. UNCHANGED <<policy, steps, inUse, onCall, form, saves, faults, submitted, storedBy, raced>>
      /\ read' = [read EXCEPT ![p] = x]
  BY DEF Fire
<1>2. read[p] \in Reading
  BY DEF IInv, TypeOK
<1>3. x \in Reading /\ x.steps = read[p].steps
  BY <1>2 DEF Reading
<1>4. page' \in [Actors -> Paging]
  <2>1. PICK k \in 1..MaxRows : page' = [page EXCEPT ![p] = [NoPage EXCEPT !.pc = "read", !.step = k]]
    BY DEF Fire
  <2>2. [NoPage EXCEPT !.pc = "read", !.step = k] \in Paging
    BY NoFrames DEF Paging
  <2> QED BY <2>1, <2>2, PageReplaced DEF IInv
<1>5. /\ \A k \in DOMAIN x.steps : Known(x.steps[k].id[1])
      /\ x.steps # <<>> => DOMAIN x.steps = DOMAIN submitted[x.steps[1].id[1]]
      /\ OneVersion(x.steps, submitted, StoredIds)
  BY <1>3 DEF IInv, ReadInv, ReadsOneVersion, Known
<1> HIDE DEF x
<1> QED BY <1>1, <1>3, <1>4, <1>5, ReadMoved

(* Whom a target in the tables means, if anybody.                            *)
LEMMA Resolved ==
    ASSUME TypeOK, NEW t \in Targets \cup {NoTarget}
    PROVE  /\ ResolveTargetUsers(t) \in Users \cup {NoTarget}
           /\ t \in Targets => ResolveTargetUsers(t) = Meant(t)
           /\ ResolveTargetUsers(NoTarget) = NoTarget
  BY DEF ResolveTargetUsers, Meant, Targets

(* What a step that is read completely may look like.                        *)
LEMMA ReadWhole ==
    ASSUME IInv, NEW p \in Actors, HasRead(p), NEW k \in DOMAIN read[p].steps
    PROVE  LET t == read[p].steps[k].target
               n == read[p].steps[1].id[1]
           IN  /\ t \in Targets \cup {NoTarget}
               /\ t = submitted[n][k].target \/ (t = NoTarget /\ ~Stored(<<n, k>>))
               /\ submitted[n][k].target \in Targets
<1> DEFINE s == read[p].steps[k]
           n == read[p].steps[1].id[1]
<1>1. s \in StepRead /\ read[p].steps \in Seq(StepRead)
  BY DEF IInv, TypeOK, Reading
<1>2. /\ s.id = <<n, k>>
      /\ s.target \in {submitted[n][k].target, NoTarget, Unread}
      /\ s.target = NoTarget => s.id \notin StoredIds
  BY DEF IInv, ReadInv, ReadsOneVersion, OneVersion
<1>3. s.target # Unread
  BY DEF HasRead
<1>4. submitted[n][k].target \in Targets
  BY TargetSubmitted
<1> QED BY <1>1, <1>2, <1>3, <1>4 DEF StepRead, Stored

LEMMA PageStep == ASSUME IInv, NEW p \in Actors, Page(p) PROVE IInv'
<1> DEFINE k == page[p].step
           x == IF k \notin DOMAIN read[p].steps THEN NoPage
                ELSE [pc |-> "paged", step |-> k, user |-> ResolveTargetUsers(read[p].steps[k].target)]
<1>1. /\ UNCHANGED <<policy, steps, inUse, onCall, form, saves, faults, submitted, storedBy, raced>>
      /\ read' = [read EXCEPT ![p] = NoRead]
      /\ page' = [page EXCEPT ![p] = x]
  BY DEF Page
<1>2. page[p] \in Paging
  BY DEF IInv, TypeOK
<1>3. x \in Paging
  <2>1. CASE k \in DOMAIN read[p].steps
    <3>1. read[p].steps[k].target \in Targets \cup {NoTarget}
      BY <2>1, ReadWhole DEF Page
    <3>2. ResolveTargetUsers(read[p].steps[k].target) \in Users \cup {NoTarget}
      BY <3>1, Resolved DEF IInv
    <3> QED BY <1>2, <2>1, <3>2 DEF Paging
  <2> QED BY <2>1, NoFrames
<1>4. page' \in [Actors -> Paging]
  <2> HIDE DEF x
  <2> QED BY <1>1, <1>3, PageReplaced DEF IInv
<1>5. NoRead \in Reading /\ NoRead.steps = <<>> /\ OneVersion(NoRead.steps, submitted, StoredIds)
      /\ \A j \in DOMAIN NoRead.steps : Known(NoRead.steps[j].id[1])
  BY NoFrames DEF NoRead, OneVersion
<1> HIDE DEF x
<1> QED BY <1>1, <1>4, <1>5, ReadMoved

LEMMA SettleStep == ASSUME IInv, NEW p \in Actors, Settle(p) PROVE IInv'
<1>1. TypeOK'
  BY NoFrames, PageReplaced DEF IInv, TypeOK, Settle
<1> QED BY <1>1, FormKept, FreshKept, StoreKept, ReadKept, BasisKept, RepeatKept DEF IInv, Settle

-----------------------------------------------------------------------------
LEMMA IInvInit == Init => IInv
<1> SUFFICES ASSUME Init PROVE IInv
  OBVIOUS
<1>1. \A a \in Actors : read[a].steps = <<>> /\ form[a].pc = "closed" /\ form[a].basis = 0
  BY DEF Init, NoRead, NoForm
<1>2. FormInv /\ Distinct
  BY <1>1 DEF FormInv, Distinct, Saving
<1>3. Fresh
  BY <1>1 DEF Init, Fresh, Known, Saving
<1>4. StoreInv
  BY DEF Init, StoreInv, StoredIsSubmitted
<1>5. ReadInv
  <2>1. OneVersion(<<>>, submitted, StoredIds)
    BY DEF OneVersion
  <2> QED BY <1>1, <2>1 DEF ReadInv, ReadsOneVersion
<1>6. BasisInv
  BY <1>1 DEF BasisInv
<1>7. RepeatInv
  BY DEF Init, RepeatInv
<1> QED BY TypeInit, <1>2, <1>3, <1>4, <1>5, <1>6, <1>7 DEF IInv

LEMMA IInvStep == IInv /\ [Next]_vars => IInv'
<1> SUFFICES ASSUME IInv, [Next]_vars PROVE IInv'
  OBVIOUS
<1>1. CASE UNCHANGED vars
  BY <1>1, TypeKept, FormKept, FreshKept, StoreKept, ReadKept, BasisKept, RepeatKept DEF IInv, vars
<1>2. ASSUME NEW a \in Actors, ReadSteps(a) \/ ReadTargets(a) PROVE IInv'
  BY <1>2, ReadStepsStep, ReadTargetsStep
<1>3. ASSUME NEW e \in Actors, NewForm(e) \/ EditForm(e) \/ RenderForm(e) PROVE IInv'
  BY <1>3, NewFormStep, EditFormStep, RenderFormStep
<1>4. ASSUME NEW e \in Actors, Submit(e) \/ StorePolicy(e) \/ StoreSteps(e) \/ SaveError(e) PROVE IInv'
  BY <1>4, SubmitStep, StorePolicyStep, StoreStepsStep, SaveErrorStep
<1>5. CASE DeletePolicy
  BY <1>5, DeletePolicyStep
<1>6. CASE CreateService \/ DeleteService
  BY <1>6, ServiceStep
<1>7. ASSUME NEW s \in Schedules, Handover(s) PROVE IInv'
  BY <1>7, HandoverStep
<1>8. ASSUME NEW p \in Actors, Fire(p) \/ Page(p) \/ Settle(p) PROVE IInv'
  BY <1>8, FireStep, PageStep, SettleStep
<1> QED BY <1>1, <1>2, <1>3, <1>4, <1>5, <1>6, <1>7, <1>8 DEF Next

LEMMA Inductive == Spec => []IInv
  BY IInvInit, IInvStep, PTL DEF Spec

(* Types, for any constants: every variable of PolicySteps, over every path  *)
(* of the policy handlers and of the paging that reads the policy.           *)
THEOREM TypeCorrect == Spec => []TypeOK
<1>1. IInv => TypeOK
  BY DEF IInv
<1> QED BY <1>1, Inductive, PTL

(* The steps in the tables are one submission, whole and in order, however   *)
(* many updates overlap and statements fail (ReplaceSteps).                  *)
THEOREM StoredWhole == Spec => []StoredIsSubmitted
<1>1. IInv => StoredIsSubmitted
  BY DEF IInv, StoreInv
<1> QED BY <1>1, Inductive, PTL

(* Whoever reads the policy sees one submission's steps, although            *)
(* StepsForPolicy reads every target in a query of its own.                  *)
THEOREM NoMixedRead == Spec => []ReadsOneVersion
<1>1. IInv => ReadsOneVersion
  BY DEF IInv, ReadInv
<1> QED BY <1>1, Inductive, PTL

(* The repeat and the steps belong together unless updates overlapped or     *)
(* failed (policyUpdate's two statements).                                   *)
THEOREM RepeatInStep == Spec => []RepeatMatchesSteps
<1>1. IInv => RepeatMatchesSteps
  BY DEF IInv, RepeatInv, RepeatMatchesSteps
<1> QED BY <1>1, Inductive, PTL

(* A step pages whom one submission means by its place (fireStep).           *)
THEOREM PagesTruly == Spec => PagesAsStored
<1>1. ASSUME IInv, [Next]_vars
      PROVE  [\A p \in Actors : page[p].pc = "read" /\ page'[p].pc = "paged" =>
                LET n == read[p].steps[1].id[1]
                    k == page[p].step
                IN  \/ page'[p].user = Meant(submitted[n][k].target)
                    \/ page'[p].user = NoTarget /\ ~Stored(<<n, k>>)]_vars
  <2> SUFFICES ASSUME NEW p \in Actors, page[p].pc = "read", page'[p].pc = "paged"
               PROVE  LET n == read[p].steps[1].id[1]
                          k == page[p].step
                      IN  \/ page'[p].user = Meant(submitted[n][k].target)
                          \/ page'[p].user = NoTarget /\ ~Stored(<<n, k>>)
    OBVIOUS
  <2> DEFINE k == page[p].step
  <2>1. Page(p)
    <3>1. page'[p] # page[p]
      OBVIOUS
    <3>2. PICK q \in Actors : Fire(q) \/ Page(q) \/ Settle(q)
      BY <1>1, <3>1 DEF Next, vars, ReadSteps, ReadTargets, NewForm, EditForm, RenderForm, Submit,
         StorePolicy, StoreSteps, SaveError, DeletePolicy, CreateService, DeleteService, Handover
    <3>3. \A x : page' = [page EXCEPT ![q] = x] => p = q
      BY <1>1, <3>1 DEF IInv, TypeOK
    <3>4. CASE Fire(q)
      BY <1>1, <3>4 DEF Fire, NoPage, IInv, TypeOK
    <3>5. CASE Settle(q)
      BY <1>1, <3>5 DEF Settle, NoPage, IInv, TypeOK
    <3>6. CASE Page(q)
      BY <3>3, <3>6 DEF Page
    <3> QED BY <3>2, <3>4, <3>5, <3>6
  <2>2. /\ HasRead(p) /\ k \in DOMAIN read[p].steps
        /\ page'[p].user = ResolveTargetUsers(read[p].steps[k].target)
    BY <1>1, <2>1 DEF Page, NoPage, IInv, TypeOK
  <2> DEFINE t == read[p].steps[k].target
             n == read[p].steps[1].id[1]
  <2>3. /\ t \in Targets \cup {NoTarget}
        /\ t = submitted[n][k].target \/ (t = NoTarget /\ ~Stored(<<n, k>>))
        /\ submitted[n][k].target \in Targets
    BY <1>1, <2>2, ReadWhole
  <2> HIDE DEF t, n
  <2>4. ResolveTargetUsers(NoTarget) = NoTarget /\ (t \in Targets => ResolveTargetUsers(t) = Meant(t))
    BY <1>1, <2>3, Resolved DEF IInv
  <2> QED BY <2>2, <2>3, <2>4 DEF t, n
<1> QED BY <1>1, Inductive, PTL DEF Spec, PagesAsStored

(* A form saved as it was loaded changes nothing (policyEditForm, the page   *)
(* it renders, parseStepsForm and ReplaceSteps, one after the other).        *)
THEOREM SavedAsLoaded == Spec => RoundTrip
<1>1. ASSUME IInv, [Next]_vars
      PROVE  [\A e \in Actors : Commits(e) /\ form[e].basis # 0 /\ form[e].basis = storedBy =>
                /\ DOMAIN steps' = DOMAIN steps
                /\ \A k \in DOMAIN steps :
                      \/ RowOf(steps'[k]) = RowOf(steps[k])
                      \/ steps[k].target \in Schedules /\ onCall[steps[k].target] = Gone]_vars
  <2> SUFFICES ASSUME NEW e \in Actors, Commits(e), form[e].basis # 0, form[e].basis = storedBy
               PROVE  /\ DOMAIN steps' = DOMAIN steps
                      /\ \A k \in DOMAIN steps :
                            \/ RowOf(steps'[k]) = RowOf(steps[k])
                            \/ steps[k].target \in Schedules /\ onCall[steps[k].target] = Gone
    OBVIOUS
  <2>1. StoreSteps(e) /\ policy.status = "live"
    <3>1. storedBy' # storedBy /\ form[e].pc = "steps" /\ form'[e].pc = "closed"
      BY DEF Commits
    <3>2. PICK f \in Actors : StoreSteps(f)
      BY <1>1, <3>1 DEF Next, vars, ReadSteps, ReadTargets, NewForm, EditForm, RenderForm, Submit,
         StorePolicy, SaveError, DeletePolicy, CreateService, DeleteService, Handover,
         Fire, Page, Settle
    <3>3. f = e
      BY <1>1, <3>1, <3>2 DEF StoreSteps, IInv, TypeOK
    <3>4. policy.status = "live"
      BY <3>1, <3>2 DEF StoreSteps
    <3> QED BY <3>2, <3>3, <3>4
  <2> DEFINE rows == form[e].rows
  <2>2. /\ DOMAIN rows = DOMAIN submitted[storedBy]
        /\ \A k \in DOMAIN rows : Matches(rows[k], submitted[storedBy][k])
    BY <1>1, <2>1 DEF IInv, BasisInv
  <2>3. rows \in Seq(Row \cup {Removed}) /\ Removed \notin Row
    BY <1>1 DEF IInv, TypeOK, Form, Row, Targets
  <2>4. ParseStepsForm(rows) = rows
    BY <2>2, <2>3, ParseAll DEF Matches
  <2>5. RowsOf(steps) = submitted[storedBy] /\ DOMAIN steps = DOMAIN submitted[storedBy]
    BY <1>1, <2>1 DEF IInv, StoreInv, StoredIsSubmitted, RowsOf
  <2>6. RowsOf(steps)' = rows
    <3>1. RowsOf(steps)' = submitted[form[e].save]
      BY <1>1, <2>1, StepsStored DEF StoreSteps
    <3>2. submitted[form[e].save] = rows
      BY <1>1, <2>1, <2>4 DEF IInv, FormInv, Saving, StoreSteps
    <3> QED BY <3>1, <3>2
  <2>7. DOMAIN steps' = DOMAIN rows /\ \A k \in DOMAIN rows : RowOf(steps'[k]) = rows[k]
    <3>1. RowsOf(steps)' = [k \in DOMAIN steps' |-> RowOf(steps'[k])]
      BY DEF RowsOf, RowOf
    <3> QED BY <2>6, <3>1
  <2>8. ASSUME NEW k \in DOMAIN steps
        PROVE  \/ RowOf(steps'[k]) = RowOf(steps[k])
               \/ steps[k].target \in Schedules /\ onCall[steps[k].target] = Gone
    <3>1. submitted[storedBy][k] = RowOf(steps[k])
      BY <2>5 DEF RowsOf
    <3>2. RowOf(steps[k]).wait = steps[k].wait /\ RowOf(steps[k]).target = steps[k].target
      BY DEF RowOf
    <3>3. Matches(rows[k], RowOf(steps[k])) /\ RowOf(steps'[k]) = rows[k]
      BY <2>2, <2>5, <2>7, <3>1
    <3>4. RowOf(steps[k]) = [wait |-> steps[k].wait, target |-> steps[k].target]
      BY DEF RowOf
    <3> QED BY <3>2, <3>3, <3>4 DEF Matches, Row
  <2> QED BY <2>2, <2>5, <2>7, <2>8
<1> QED BY <1>1, Inductive, PTL DEF Spec, RoundTrip

-----------------------------------------------------------------------------
(* What a reader sees is the policy as it was at one moment. *)

(* An actor reads for its form or for its page, and does one of both.        *)
TaskInv ==
    \A a \in Actors :
        /\ form[a].pc # "closed" => page[a].pc = "idle"
        /\ read[a].pc # "idle" => form[a].pc = "loading" \/ page[a].pc = "read"

LEMMA TaskInit == Init => TaskInv
BY DEF Init, TaskInv, NoRead, NoForm, NoPage

LEMMA TaskNext == TypeOK /\ TypeOK' /\ TaskInv /\ [Next]_vars => TaskInv'
<1> SUFFICES ASSUME TypeOK, TypeOK', TaskInv, [Next]_vars PROVE TaskInv'
  OBVIOUS
<1> USE DEF TaskInv, NoRead, NoForm, NoPage
<1> USE DEF Reading, Form, Paging
<1>0. /\ read \in [Actors -> Reading] /\ form \in [Actors -> Form] /\ page \in [Actors -> Paging]
  BY DEF TypeOK
<1>1. CASE UNCHANGED <<form, read, page>>
  BY <1>1
<1>2. ASSUME NEW a \in Actors, ReadSteps(a) \/ ReadTargets(a) PROVE TaskInv'
  <2>1. UNCHANGED <<form, page>> /\ read[a].pc # "idle"
    BY <1>2 DEF ReadSteps, ReadTargets
  <2>2. \A b \in Actors : b # a => read'[b] = read[b]
    BY <1>0, <1>2 DEF ReadSteps, ReadTargets
  <2> QED BY <2>1, <2>2
<1>3. ASSUME NEW e \in Actors, EditForm(e) PROVE TaskInv'
  BY <1>0, <1>3 DEF EditForm, Free
<1>4. ASSUME NEW e \in Actors, NewForm(e) PROVE TaskInv'
  BY <1>0, <1>4 DEF NewForm, Free
<1>5. ASSUME NEW e \in Actors, RenderForm(e) PROVE TaskInv'
  <2>1. /\ form[e].pc = "loading" /\ UNCHANGED page
        /\ read' = [read EXCEPT ![e] = NoRead]
    BY <1>5 DEF RenderForm
  <2>2. \A f \in Actors : f # e => form'[f] = form[f] /\ read'[f] = read[f]
    BY <1>0, <1>5 DEF RenderForm
  <2>3. page[e].pc = "idle" /\ read'[e].pc = "idle"
    BY <1>0, <2>1
  <2> QED BY <2>1, <2>2, <2>3
<1>6. ASSUME NEW e \in Actors, Submit(e) \/ StorePolicy(e) \/ StoreSteps(e) \/ SaveError(e)
      PROVE  TaskInv'
  <2>1. UNCHANGED <<read, page>> /\ form[e].pc \notin {"closed", "loading"}
    BY <1>6 DEF Submit, StorePolicy, StoreSteps, SaveError
  <2>2. \A f \in Actors : f # e => form'[f] = form[f]
    BY <1>0, <1>6 DEF Submit, StorePolicy, StoreSteps, SaveError
  <2>3. page[e].pc = "idle" /\ read[e].pc = "idle"
    BY <2>1
  <2> QED BY <2>1, <2>2, <2>3
<1>7. ASSUME NEW p \in Actors, Fire(p) PROVE TaskInv'
  BY <1>0, <1>7 DEF Fire, Free
<1>8. ASSUME NEW p \in Actors, Page(p) PROVE TaskInv'
  <2>1. /\ page[p].pc = "read" /\ UNCHANGED form
        /\ read' = [read EXCEPT ![p] = NoRead]
    BY <1>8 DEF Page
  <2>2. \A q \in Actors : q # p => page'[q] = page[q] /\ read'[q] = read[q]
    BY <1>0, <1>8 DEF Page
  <2>3. form[p].pc = "closed" /\ read'[p].pc = "idle"
    BY <1>0, <2>1
  <2> QED BY <2>1, <2>2, <2>3
<1>9. ASSUME NEW p \in Actors, Settle(p) PROVE TaskInv'
  BY <1>0, <1>9 DEF Settle
<1> QED
  BY <1>1, <1>2, <1>3, <1>4, <1>5, <1>6, <1>7, <1>8, <1>9
  DEF Next, vars, DeletePolicy, CreateService, DeleteService, Handover

VersionInv == IInv /\ TaskInv

LEMMA VersionAlways == Spec => []VersionInv
<1>1. Init => VersionInv
  BY IInvInit, TaskInit DEF VersionInv
<1>2. VersionInv /\ [Next]_vars => VersionInv'
  BY IInvStep, TaskNext DEF VersionInv, IInv
<1> QED BY <1>1, <1>2, PTL DEF Spec

(* The submission that somebody has read is not touched any more.            *)
LEMMA SubmissionKept ==
    ASSUME IInv, [Next]_vars, NEW a \in Actors, NEW k \in DOMAIN read[a].steps
    PROVE  submitted'[read[a].steps[1].id[1]] = submitted[read[a].steps[1].id[1]]
<1> DEFINE n == read[a].steps[1].id[1]
<1>1. read[a].steps \in Seq(StepRead)
  BY DEF IInv, TypeOK, Reading
<1>2. 1 \in DOMAIN read[a].steps /\ read[a].steps[1] \in StepRead
  BY <1>1
<1>3. n \in 0..MaxSaves /\ Known(n)
  BY <1>2 DEF StepRead, StepId, Known
<1>4. n <= saves
  BY <1>3 DEF IInv, Fresh
<1> HIDE DEF n
<1>5. CASE UNCHANGED submitted
  BY <1>5
<1>6. ASSUME NEW e \in Actors, Submit(e) PROVE submitted'[n] = submitted[n]
  <2>1. PICK x : submitted' = [submitted EXCEPT ![saves + 1] = x]
    BY <1>6 DEF Submit
  <2>2. n # saves + 1
    BY <1>3, <1>4 DEF IInv, TypeOK
  <2> QED BY <1>3, <2>1, <2>2 DEF IInv, TypeOK
<1>7. submitted'[n] = submitted[n]
  BY <1>5, <1>6
  DEF Next, vars, ReadSteps, ReadTargets, NewForm, EditForm, RenderForm, StorePolicy, StoreSteps,
      SaveError, DeletePolicy, CreateService, DeleteService, Handover, Fire, Page, Settle
<1> QED BY <1>7 DEF n

(* What a reader has seen changes only by its own steps.                     *)
LEMMA SeenKept ==
    ASSUME IInv, [Next]_vars, NEW a \in Actors, read'[a].pc = read[a].pc,
           DOMAIN read'[a].steps = DOMAIN read[a].steps,
           read[a].steps # <<>> => read'[a].steps[1].id = read[a].steps[1].id
    PROVE  Seen(a)' = Seen(a)
<1>1. read[a].steps \in Seq(StepRead)
  BY DEF IInv, TypeOK, Reading
<1>2. CASE read[a].steps = <<>>
  BY <1>1, <1>2 DEF Seen, Version
<1>3. CASE read[a].steps # <<>>
  <2> DEFINE n == read[a].steps[1].id[1]
  <2>1. read'[a].steps[1].id[1] = n
    BY <1>3
  <2>2. PICK k : k \in DOMAIN read[a].steps
    BY <1>1, <1>3
  <2>3. submitted'[n] = submitted[n]
    BY <2>2, SubmissionKept
  <2>4. Version(read[a].steps)' = Version(read[a].steps)
    BY <2>1, <2>3 DEF Version
  <2> QED BY <2>4 DEF Seen
<1> QED BY <1>2, <1>3

LEMMA AllSeenKept ==
    ASSUME IInv, [Next]_vars, UNCHANGED read
    PROVE  [a \in Actors |-> Seen(a)]' = [a \in Actors |-> Seen(a)]
<1>1. \A a \in Actors : Seen(a)' = Seen(a)
  BY SeenKept
<1> QED BY <1>1

LEMMA OthersSeenKept ==
    ASSUME IInv, [Next]_vars, NEW a \in Actors, NEW x, read' = [read EXCEPT ![a] = x]
    PROVE  [b \in Actors |-> Seen(b)]' = [[b \in Actors |-> Seen(b)] EXCEPT ![a] = Seen(a)']
<1>1. ASSUME NEW b \in Actors, b # a PROVE Seen(b)' = Seen(b)
  <2>1. read'[b] = read[b]
    BY <1>1
  <2> QED BY <2>1, SeenKept
<1> QED BY <1>1

(* The first query sees the tables at one moment, targets included.          *)
LEMMA LookStep ==
    ASSUME VersionInv, [Next]_vars, NEW a \in Actors, ReadSteps(a) PROVE Versions!Next
<1>0. IInv /\ TaskInv /\ TypeOK
  BY DEF VersionInv, IInv
<1>1. PICK x : /\ read' = [read EXCEPT ![a] = x] /\ read[a].pc = "steps"
               /\ x = [pc    |-> "targets",
                       steps |-> [k \in DOMAIN steps |-> [steps[k] EXCEPT !.target = Unread]]]
               /\ UNCHANGED <<steps, onCall, page, submitted>>
  BY DEF ReadSteps, StepRows
<1>2. page[a].pc # "paged"
  BY <1>0, <1>1 DEF TaskInv, TypeOK, Form
<1>3. read'[a] = x
  BY <1>0, <1>1 DEF TypeOK
<1>4. Version(x.steps)' = steps
  <2>1. steps \in Seq(Step) /\ DOMAIN x.steps = DOMAIN steps
    BY <1>0, <1>1 DEF TypeOK
  <2>2. ASSUME NEW k \in DOMAIN steps PROVE x.steps[k].id = steps[k].id
    <3>1. steps[k] \in Step /\ x.steps[k] = [steps[k] EXCEPT !.target = Unread]
      BY <1>1, <2>1
    <3> QED BY <3>1 DEF Step
  <2>3. CASE steps = <<>>
    <3>1. DOMAIN steps = {}
      BY <2>3
    <3>2. Version(x.steps)' = [k \in {} |-> TRUE]
      BY <2>1, <3>1 DEF Version
    <3>3. steps = [k \in {} |-> TRUE]
      BY <2>1, <3>1
    <3> QED BY <3>2, <3>3
  <2>4. CASE steps # <<>>
    <3>1. policy.status = "live" /\ 1 \in DOMAIN steps
      BY <1>0, <2>1, <2>4 DEF IInv, StoreInv
    <3>2. /\ RowsOf(steps) = submitted[storedBy]
          /\ \A k \in DOMAIN steps : steps[k].id = <<storedBy, k>>
      BY <1>0, <3>1 DEF IInv, StoreInv, StoredIsSubmitted
    <3>3. x.steps[1].id[1] = storedBy
      BY <2>2, <3>1, <3>2
    <3>4. ASSUME NEW k \in DOMAIN steps
          PROVE  [id     |-> <<storedBy, k>>, wait |-> submitted[storedBy][k].wait,
                  target |-> submitted[storedBy][k].target] = steps[k]
      <4>1. steps[k] \in Step
        BY <2>1
      <4>2. submitted[storedBy][k] = [wait |-> steps[k].wait, target |-> steps[k].target]
        BY <3>2 DEF RowsOf, RowOf
      <4>3. submitted[storedBy][k].wait = steps[k].wait /\ submitted[storedBy][k].target = steps[k].target
        BY <4>2
      <4>4. steps[k] = [id |-> steps[k].id, wait |-> steps[k].wait, target |-> steps[k].target]
        BY <4>1 DEF Step
      <4> QED BY <3>2, <4>3, <4>4
    <3>5. steps = [k \in DOMAIN steps |-> steps[k]]
      BY <2>1
    <3>6. Version(x.steps) = [k \in DOMAIN steps |->
              [id     |-> <<storedBy, k>>, wait |-> submitted[storedBy][k].wait,
               target |-> submitted[storedBy][k].target]]
      BY <2>1, <3>3 DEF Version
    <3>7. Version(x.steps) = steps
      BY <3>4, <3>5, <3>6
    <3>8. Version(x.steps)' = Version(x.steps)
      BY <1>1 DEF Version
    <3> QED BY <3>7, <3>8
  <2> QED BY <2>3, <2>4
<1>5. Seen(a)' = [looked |-> TRUE, steps |-> steps]
  <2>1. Version(read[a].steps)' = Version(x.steps)'
    BY <1>3 DEF Version
  <2>2. read'[a].pc = "targets"
    BY <1>1, <1>3
  <2> QED BY <1>4, <2>1, <2>2 DEF Seen
<1>6. ~[b \in Actors |-> Seen(b)][a].looked
  BY <1>1 DEF Seen
<1>7. [b \in Actors |-> Seen(b)]' = [[b \in Actors |-> Seen(b)] EXCEPT ![a] = Seen(a)']
  BY <1>0, <1>1, OthersSeenKept
<1>8. Versions!Look(a)
  BY <1>1, <1>2, <1>5, <1>6, <1>7 DEF Versions!Look
<1> QED BY <1>8 DEF Versions!Next

(* The queries for the targets add nothing to it.                            *)
LEMMA TargetsUnseen ==
    ASSUME VersionInv, [Next]_vars, NEW a \in Actors, ReadTargets(a)
    PROVE  UNCHANGED Versions!versionVars
<1>0. IInv /\ TypeOK
  BY DEF VersionInv, IInv
<1>1. PICK k \in DOMAIN read[a].steps :
        read' = [read EXCEPT ![a].steps[k].target = TargetsForStep(read[a].steps[k].id)]
  BY DEF ReadTargets
<1>2. read[a] \in Reading /\ read[a].steps \in Seq(StepRead)
  BY <1>0 DEF TypeOK, Reading
<1> DEFINE y == [read[a].steps[k] EXCEPT !.target = TargetsForStep(read[a].steps[k].id)]
           x == [read[a] EXCEPT !.steps = [read[a].steps EXCEPT ![k] = y]]
<1>3. read' = [read EXCEPT ![a] = x]
  BY <1>0, <1>1 DEF TypeOK
<1>4. x.steps = [read[a].steps EXCEPT ![k] = y] /\ x.pc = read[a].pc
  <2> HIDE DEF y
  <2> QED BY <1>2 DEF Reading
<1>5. y.id = read[a].steps[k].id
  BY <1>2 DEF StepRead
<1> HIDE DEF x, y
<1>6. /\ read'[a].pc = read[a].pc
      /\ DOMAIN read'[a].steps = DOMAIN read[a].steps
      /\ read[a].steps # <<>> => read'[a].steps[1].id = read[a].steps[1].id
  <2>1. read'[a] = x
    BY <1>0, <1>3 DEF TypeOK
  <2>2. DOMAIN x.steps = DOMAIN read[a].steps
    BY <1>2, <1>4
  <2>3. read[a].steps # <<>> => 1 \in DOMAIN read[a].steps
    BY <1>2
  <2>4. \A j \in DOMAIN read[a].steps : x.steps[j].id = read[a].steps[j].id
    BY <1>2, <1>4, <1>5
  <2> QED BY <1>4, <2>1, <2>2, <2>3, <2>4
<1>7. Seen(a)' = Seen(a)
  BY <1>0, <1>6, SeenKept
<1>8. [b \in Actors |-> Seen(b)]' = [b \in Actors |-> Seen(b)]
  <2>1. [b \in Actors |-> Seen(b)]' = [[b \in Actors |-> Seen(b)] EXCEPT ![a] = Seen(a)']
    BY <1>0, <1>3, OthersSeenKept
  <2> QED BY <1>7, <2>1
<1> QED BY <1>8 DEF ReadTargets, Versions!versionVars

(* A form has shown what it saw.                                             *)
LEMMA LookAwayStep ==
    ASSUME VersionInv, [Next]_vars, NEW e \in Actors, RenderForm(e) PROVE Versions!Next
<1>0. IInv /\ TaskInv /\ TypeOK
  BY DEF VersionInv, IInv
<1>1. /\ form[e].pc = "loading" /\ read[e].pc = "targets"
      /\ read' = [read EXCEPT ![e] = NoRead]
      /\ UNCHANGED <<steps, onCall, page>>
  BY DEF RenderForm, HasRead
<1>2. page[e].pc = "idle"
  BY <1>0, <1>1 DEF TaskInv
<1>3. Seen(e)' = Versions!Unseen
  BY <1>0, <1>1 DEF TypeOK, Seen, NoRead, Versions!Unseen
<1>4. [b \in Actors |-> Seen(b)]' = [[b \in Actors |-> Seen(b)] EXCEPT ![e] = Seen(e)']
  BY <1>0, <1>1, OthersSeenKept
<1>5. [b \in Actors |-> Seen(b)][e].looked
  BY <1>1 DEF Seen
<1>6. Versions!LookAway(e)
  BY <1>1, <1>2, <1>3, <1>4, <1>5 DEF Versions!LookAway
<1> QED BY <1>6 DEF Versions!Next

(* Reading begins, for a form or for a page.                                 *)
LEMMA NotYetSeen ==
    ASSUME VersionInv, [Next]_vars, NEW a \in Actors, Free(a),
           read' = [read EXCEPT ![a].pc = "steps"]
    PROVE  /\ [b \in Actors |-> Seen(b)]' = [b \in Actors |-> Seen(b)]
           /\ ~[b \in Actors |-> Seen(b)][a].looked
<1>0. IInv /\ TaskInv /\ TypeOK
  BY DEF VersionInv, IInv
<1> DEFINE x == [read[a] EXCEPT !.pc = "steps"]
<1>1. read' = [read EXCEPT ![a] = x] /\ read[a] \in Reading
  BY <1>0 DEF TypeOK
<1>2. read[a].pc = "idle"
  BY <1>0 DEF TaskInv, Free
<1>3. x.pc = "steps" /\ read'[a] = x
  BY <1>0, <1>1 DEF TypeOK, Reading
<1> HIDE DEF x
<1>4. Seen(a)' = Seen(a) /\ ~Seen(a).looked
  BY <1>2, <1>3 DEF Seen
<1>5. [b \in Actors |-> Seen(b)]' = [[b \in Actors |-> Seen(b)] EXCEPT ![a] = Seen(a)']
  BY <1>0, <1>1, OthersSeenKept
<1> QED BY <1>4, <1>5

LEMMA SendStep ==
    ASSUME VersionInv, [Next]_vars, NEW p \in Actors, Fire(p) PROVE Versions!Next
<1>1. PICK k \in 1..MaxRows : page' = [page EXCEPT ![p] = [NoPage EXCEPT !.pc = "read", !.step = k]]
  BY DEF Fire
<1>2. Versions!AtRest = NoPage
  BY DEF Versions!AtRest, NoPage
<1>3. /\ [b \in Actors |-> Seen(b)]' = [b \in Actors |-> Seen(b)]
      /\ ~[b \in Actors |-> Seen(b)][p].looked
  BY NotYetSeen DEF Fire
<1>4. Versions!Send(p, k)
  BY <1>1, <1>2, <1>3 DEF Versions!Send, Fire, Free
<1> QED BY <1>4 DEF Versions!Next

LEMMA RestStep ==
    ASSUME VersionInv, [Next]_vars, NEW p \in Actors, Settle(p) PROVE Versions!Next
<1>1. [b \in Actors |-> Seen(b)]' = [b \in Actors |-> Seen(b)]
  BY AllSeenKept DEF VersionInv, Settle
<1>2. Versions!AtRest = NoPage
  BY DEF Versions!AtRest, NoPage
<1>3. Versions!Settle(p)
  BY <1>1, <1>2 DEF Versions!Settle, Settle
<1> QED BY <1>3 DEF Versions!Next

LEMMA PagedFrame ==
    ASSUME NEW g \in Paging, NEW u
    PROVE  [pc |-> "paged", step |-> g.step, user |-> u] = [g EXCEPT !.pc = "paged", !.user = u]
<1> DEFINE h == [g EXCEPT !.pc = "paged", !.user = u]
<1>1. DOMAIN h = {"pc", "step", "user"}
  BY DEF Paging
<1>2. h["pc"] = "paged" /\ h["step"] = g.step /\ h["user"] = u
  BY DEF Paging
<1>3. h = [i \in {"pc", "step", "user"} |-> h[i]]
  BY <1>1
<1> HIDE DEF h
<1>4. h = [pc |-> "paged", step |-> g.step, user |-> u]
  BY <1>2, <1>3
<1> QED BY <1>4 DEF h

(* What a step pages, once everything of it is read.                         *)
LEMMA PageOrPass ==
    ASSUME VersionInv, [Next]_vars, NEW p \in Actors, Page(p) PROVE Versions!Next
<1>0. IInv /\ TaskInv /\ TypeOK
  BY DEF VersionInv, IInv
<1> DEFINE k == page[p].step
           n == read[p].steps[1].id[1]
           seen == [b \in Actors |-> Seen(b)]
<1>1. /\ page[p].pc = "read" /\ HasRead(p) /\ read[p].pc = "targets"
      /\ read' = [read EXCEPT ![p] = NoRead]
      /\ UNCHANGED <<steps, onCall>>
  BY DEF Page, HasRead
<1>2. Seen(p)' = Versions!Unseen
  BY <1>0, <1>1 DEF TypeOK, Seen, NoRead, Versions!Unseen
<1>3. seen' = [seen EXCEPT ![p] = Versions!Unseen]
  <2>1. seen' = [seen EXCEPT ![p] = Seen(p)']
    BY <1>0, <1>1, OthersSeenKept
  <2> QED BY <1>2, <2>1
<1>4. seen[p] = [looked |-> TRUE, steps |-> Version(read[p].steps)]
  BY <1>1 DEF Seen
<1>5. /\ DOMAIN seen[p].steps = DOMAIN read[p].steps
      /\ \A j \in DOMAIN read[p].steps :
            /\ seen[p].steps[j].id = <<n, j>>
            /\ seen[p].steps[j].target = submitted[n][j].target
  <2>1. Version(read[p].steps) =
           [j \in DOMAIN read[p].steps |->
              [id |-> <<n, j>>, wait |-> submitted[n][j].wait, target |-> submitted[n][j].target]]
    BY DEF Version
  <2>2. seen[p].steps = Version(read[p].steps)
    BY <1>4
  <2> HIDE DEF seen, n
  <2> QED BY <2>1, <2>2
<1>6. page[p] \in Paging
  BY <1>0 DEF TypeOK
<1> HIDE DEF seen
<1>7. CASE k \notin DOMAIN read[p].steps
  <2>1. page' = [page EXCEPT ![p] = NoPage]
    BY <1>7 DEF Page
  <2>2. Versions!AtRest = NoPage
    BY DEF Versions!AtRest, NoPage
  <2>3. Versions!PastTheEnd(p)
    BY <1>1, <1>3, <1>4, <1>5, <1>7, <2>1, <2>2 DEF Versions!PastTheEnd, seen
  <2> QED BY <2>3 DEF Versions!Next
<1>8. CASE k \in DOMAIN read[p].steps
  <2> DEFINE t == read[p].steps[k].target
             s == seen[p].steps[k]
  <2>1. page' = [page EXCEPT ![p] = [pc |-> "paged", step |-> k, user |-> ResolveTargetUsers(t)]]
    BY <1>8 DEF Page
  <2>2. /\ t \in Targets \cup {NoTarget}
        /\ t = submitted[n][k].target \/ (t = NoTarget /\ ~Stored(<<n, k>>))
        /\ submitted[n][k].target \in Targets
    BY <1>0, <1>1, <1>8, ReadWhole
  <2>3. s.id = <<n, k>> /\ s.target = submitted[n][k].target
    BY <1>5, <1>8
  <2>4. /\ ResolveTargetUsers(NoTarget) = NoTarget
        /\ t \in Targets => ResolveTargetUsers(t) = Meant(t)
    BY <1>0, <2>2, Resolved
  <2>5. Versions!Meant(s.target) = Meant(submitted[n][k].target)
    BY <2>3 DEF Versions!Meant, Meant
  <2>6. ~Stored(<<n, k>>) => ~Versions!StillStored(s)
    BY <2>3 DEF Stored, StoredIds, Versions!StillStored
  <2>7. [pc |-> "paged", step |-> k, user |-> ResolveTargetUsers(t)]
          = [page[p] EXCEPT !.pc = "paged", !.user = ResolveTargetUsers(t)]
    BY <1>6, PagedFrame
  <2> HIDE DEF t, n
  <2>8. ResolveTargetUsers(t) \in {Versions!Meant(s.target)} \cup (IF Versions!StillStored(s) THEN {} ELSE {NoTarget})
    BY <2>2, <2>4, <2>5, <2>6
  <2>9. page' = [page EXCEPT ![p] = [@ EXCEPT !.pc = "paged", !.user = ResolveTargetUsers(t)]]
    BY <2>1, <2>7
  <2>10. k \in DOMAIN seen[p].steps
    BY <1>5, <1>8
  <2>11. Versions!Page(p)
    BY <1>1, <1>3, <2>8, <2>9, <2>10 DEF Versions!Page, seen
  <2> QED BY <2>11 DEF Versions!Next
<1> QED BY <1>7, <1>8

(* ReplaceSteps replaces everything, by steps with ids nobody has seen.      *)
LEMMA ReplaceStep ==
    ASSUME VersionInv, [Next]_vars, NEW e \in Actors, StoreSteps(e)
    PROVE  [Versions!Next]_(Versions!versionVars)
<1>0. IInv /\ TypeOK
  BY DEF VersionInv, IInv
<1>1. form[e].pc = "steps" /\ UNCHANGED <<onCall, read, page>>
  BY DEF StoreSteps
<1>2. [b \in Actors |-> Seen(b)]' = [b \in Actors |-> Seen(b)]
  BY <1>0, <1>1, AllSeenKept
<1>3. CASE policy.status # "live"
  BY <1>1, <1>2, <1>3 DEF StoreSteps, Versions!versionVars
<1>4. CASE policy.status = "live"
  <2>1. PICK n : n = form[e].save
    OBVIOUS
  <2>2. Saving(e) /\ n \in 1..MaxSaves
    BY <1>0, <1>1, <2>1 DEF Saving, IInv, FormInv, TypeOK
  <2>3. \A k \in DOMAIN steps' : steps'[k].id = <<n, k>>
    BY <1>0, <1>4, <2>1, StepsStored
  <2>4. ~Known(n)
    BY <1>0, <2>1, <2>2 DEF IInv, Fresh
  <2>5. ~Versions!Around(n)
    <3>1. ASSUME NEW k \in DOMAIN steps PROVE steps[k].id[1] # n
      <4>1. steps # <<>>
        BY <1>0 DEF TypeOK
      <4>2. steps[k].id = <<storedBy, k>>
        BY <1>0, <1>4 DEF IInv, StoreInv, StoredIsSubmitted
      <4> QED BY <2>4, <4>2 DEF Known
    <3>2. ASSUME NEW r \in Actors, NEW k \in DOMAIN Seen(r).steps PROVE Seen(r).steps[k].id[1] # n
      <4>1. read[r].pc = "targets" /\ k \in DOMAIN read[r].steps
        BY DEF Seen, Version
      <4>2. read[r].steps \in Seq(StepRead)
        BY <1>0 DEF TypeOK, Reading
      <4>3. 1 \in DOMAIN read[r].steps
        BY <4>1, <4>2
      <4>4. Seen(r).steps[k].id[1] = read[r].steps[1].id[1]
        BY <4>1 DEF Seen, Version
      <4> QED BY <2>4, <4>3, <4>4 DEF Known
    <3> QED BY <3>1, <3>2 DEF Versions!Around
  <2>6. Versions!Replace(n)
    BY <1>1, <1>2, <2>3, <2>5 DEF Versions!Replace
  <2> QED BY <2>2, <2>6 DEF Versions!Next
<1> QED BY <1>3, <1>4

LEMMA VersionStep == VersionInv /\ [Next]_vars => [Versions!Next]_(Versions!versionVars)
<1> SUFFICES ASSUME VersionInv, [Next]_vars PROVE [Versions!Next]_(Versions!versionVars)
  OBVIOUS
<1>0. IInv
  BY DEF VersionInv
<1>1. UNCHANGED read => [b \in Actors |-> Seen(b)]' = [b \in Actors |-> Seen(b)]
  BY <1>0, AllSeenKept
<1>2. CASE UNCHANGED <<steps, onCall, page, read>>
  BY <1>1, <1>2 DEF Versions!versionVars
<1>3. ASSUME NEW e \in Actors, EditForm(e) PROVE UNCHANGED Versions!versionVars
  <2>1. [b \in Actors |-> Seen(b)]' = [b \in Actors |-> Seen(b)]
    BY <1>3, NotYetSeen DEF EditForm
  <2> QED BY <1>3, <2>1 DEF EditForm, Versions!versionVars
<1>4. CASE DeletePolicy
  <2>1. Versions!Clear
    BY <1>1, <1>4 DEF DeletePolicy, Versions!Clear
  <2> QED BY <2>1 DEF Versions!Next
<1>5. ASSUME NEW s \in Schedules, Handover(s) PROVE Versions!Next
  <2>1. PICK u \in Rota \cup {NoTarget, Gone} : onCall' = [onCall EXCEPT ![s] = u]
    BY <1>5 DEF Handover
  <2>2. u \in Users \cup {NoTarget, Gone}
    BY <2>1
  <2>3. Versions!Handover(s)
    BY <1>1, <1>5, <2>1, <2>2 DEF Handover, Versions!Handover
  <2> QED BY <2>3 DEF Versions!Next
<1>6. ASSUME NEW e \in Actors, SaveError(e) PROVE UNCHANGED <<steps, onCall, page, read>>
  BY <1>6 DEF SaveError, RolledBack
<1> QED
  BY <1>2, <1>3, <1>4, <1>5, <1>6, LookStep, TargetsUnseen, LookAwayStep, SendStep, RestStep,
     PageOrPass, ReplaceStep
  DEF Next, vars, NewForm, Submit, StorePolicy, CreateService, DeleteService

(* Reading a policy in many queries while it is replaced in one transaction  *)
(* is as good as reading it at once: nobody sees or pages a mixture, and a   *)
(* step without a target is one that is gone.                                *)
THEOREM PolicyImplementsVersions == Spec => ImplementsVersions
<1>1. Init => Versions!Init
  <2>1. Init => \A a \in Actors : Seen(a) = Versions!Unseen
    BY DEF Init, Seen, NoRead, Versions!Unseen
  <2>2. Versions!AtRest = NoPage
    BY DEF Versions!AtRest, NoPage
  <2>3. Init => onCall \in [Schedules -> Users]
    BY DEF Init
  <2> QED BY <2>1, <2>2, <2>3 DEF Init, Versions!Init
<1> QED
  BY <1>1, VersionAlways, VersionStep, PTL DEF Spec, ImplementsVersions, Versions!Spec
=============================================================================
