---------------------------- MODULE PolicySteps ----------------------------
(***************************************************************************)
(* One escalation policy from the form an operator edits it in to the user *)
(* a step pages.  Actors load the form, change it in the browser and      *)
(* submit it; pagers (fireStep, in the engine or in a webhook handler)     *)
(* read the same policy meanwhile.  Both read it with StepsForPolicy: one  *)
(* query for the steps, then one for the targets of each.                  *)
(*                                                                         *)
(* A submission is known by its number.  The repeat and the steps in the   *)
(* tables carry the number of the submission that stored them, and the k-th *)
(* step submission n stores draws the id <<n, k>>.                          *)
(***************************************************************************)
EXTENDS Naturals, Sequences, SequencesExt

CONSTANTS
    Actors,     \* each a browser with the policy's form or a pager at a time
    Users,      \* users: a step's target, or on call
    FirstUser,  \* the one whose name comes first
    Schedules,  \* schedules: the other targets
    Rota,       \* bound: users the schedules resolve to
    NoTarget,   \* a row with no target; nobody
    Unread,     \* targets not read yet
    Removed,    \* a row removed in the browser
    Gone,       \* a schedule that has been deleted
    NewWait,    \* the wait of a row just added
    Entries,    \* bound: what an operator may make of a row
    MaxRows,    \* bound: rows drawn in a form
    MaxSaves,   \* bound: submissions
    MaxFaults   \* bound: failed statements

ASSUME PolicyAssumption ==
    /\ FirstUser \in Users
    /\ Rota \subseteq Users
    /\ Users \cap Schedules = {}
    /\ {NoTarget, Unread, Gone} \cap (Users \cup Schedules) = {}
    /\ NoTarget # Unread
    /\ NoTarget # Gone
    /\ NewWait \in Nat
    /\ Entries \subseteq [wait : Nat, target : Users \cup Schedules]
    /\ Removed \notin [wait : Nat, target : Users \cup Schedules]
    /\ MaxRows \in Nat \ {0}
    /\ MaxSaves \in Nat
    /\ MaxFaults \in Nat

VARIABLES
    policy,     \* its row in escalation_policies
    steps,      \* its rows in escalation_steps, in step_order, and their targets
    inUse,      \* a service refers to it
    onCall,     \* whom each schedule resolves to, or NoTarget, or Gone
    read,       \* StepsForPolicy: what has been read, per caller
    form,       \* the form: in the browser, then in its request
    page,       \* fireStep: one frame per pager
    saves,      \* submissions so far
    faults,
    submitted,  \* history: the rows of each submission, as parsed
    storedBy,   \* history: the submission whose ReplaceSteps committed last
    raced       \* history: an update overlapped another or failed, and none has run alone since

vars == <<policy, steps, inUse, onCall, read, form, page, saves, faults,
          submitted, storedBy, raced>>

Targets == Users \cup Schedules
Row     == [wait : Nat, target : Targets]
StepId  == (1..MaxSaves) \X (1..MaxRows)

Step    == [id : StepId, wait : Nat, target : Targets]

(* A step read: its targets follow, and may be gone by then. *)
StepRead == [id : StepId, wait : Nat, target : Targets \cup {NoTarget, Unread}]
Reading  == [pc : {"idle", "steps", "targets"}, steps : Seq(StepRead)]

(* basis: the submission whose steps the rows show, unless they were changed. *)
Form == [pc : {"closed", "loading", "open", "policy", "steps"}, new : BOOLEAN,
         rows : Seq(Row \cup {Removed}), options : SUBSET Targets,
         save : 0..MaxSaves, basis : 0..MaxSaves]

Paging == [pc : {"idle", "read", "paged"}, step : 1..MaxRows, user : Users \cup {NoTarget}]

DefaultRow == [wait |-> NewWait, target |-> FirstUser]

NoRead == [pc |-> "idle", steps |-> <<>>]
NoForm == [pc |-> "closed", new |-> FALSE, rows |-> <<>>, options |-> {},
           save |-> 0, basis |-> 0]
NoPage == [pc |-> "idle", step |-> 1, user |-> NoTarget]

Free(a) == form[a].pc = "closed" /\ page[a].pc = "idle"

RowOf(s)   == [wait |-> s.wait, target |-> s.target]
RowsOf(ss) == [k \in DOMAIN ss |-> RowOf(ss[k])]

-----------------------------------------------------------------------------
(* StepsForPolicy, for whoever called it. *)

(* Mutation: a query without ORDER BY step_order. *)
StepRows_Unordered == Reverse(steps)

StepRows == steps

(* Mutation: the targets are looked up by the step's position. *)
TargetsForStep_ByPosition(id) ==
    IF id[2] \in DOMAIN steps THEN steps[id[2]].target ELSE NoTarget

(* targetsForStep: by the step's id, which no later step will have. *)
TargetsForStep(id) ==
    LET found == {k \in DOMAIN steps : steps[k].id = id}
    IN  IF found = {} THEN NoTarget ELSE steps[CHOOSE k \in found : TRUE].target

(* The first query, which a deleted policy answers with no rows. *)
ReadSteps(a) ==
    /\ read[a].pc = "steps"
    /\ read' = [read EXCEPT ![a] =
                  [pc |-> "targets",
                   steps |-> [k \in DOMAIN steps |-> [StepRows[k] EXCEPT !.target = Unread]]]]
    /\ UNCHANGED <<policy, steps, inUse, onCall, form, page, saves, faults,
                   submitted, storedBy, raced>>

(* The loop over what it returned. *)
ReadTargets(a) ==
    /\ read[a].pc = "targets"
    /\ \E k \in DOMAIN read[a].steps :
          /\ read[a].steps[k].target = Unread
          /\ \A j \in 1..(k - 1) : read[a].steps[j].target # Unread
          /\ read' = [read EXCEPT ![a].steps[k].target = TargetsForStep(read[a].steps[k].id)]
    /\ UNCHANGED <<policy, steps, inUse, onCall, form, page, saves, faults,
                   submitted, storedBy, raced>>

HasRead(a) ==
    /\ read[a].pc = "targets"
    /\ \A k \in DOMAIN read[a].steps : read[a].steps[k].target # Unread

-----------------------------------------------------------------------------
(* The form in the browser. *)

(* policyEditForm as far as PolicyByID, which must find the policy. *)
EditForm(e) ==
    /\ Free(e)
    /\ policy.status = "live"
    /\ form' = [form EXCEPT ![e].pc = "loading"]
    /\ read' = [read EXCEPT ![e].pc = "steps"]
    /\ UNCHANGED <<policy, steps, inUse, onCall, page, saves, faults,
                   submitted, storedBy, raced>>

(* targetOptions: what the select offers. *)
TargetOptions == Users \cup {s \in Schedules : onCall[s] # Gone}

(* Mutation: the page shows what it was told, offered or not. *)
Shown_Unlisted(target) == target

(* A select with no option selected shows its first. *)
Shown(target) == IF target \in TargetOptions THEN target ELSE FirstUser

Opened(rows) == [NoForm EXCEPT !.pc = "open", !.rows = rows, !.options = TargetOptions]

(* policyEditForm from targetOptions on, and the page it renders. *)
RenderForm(e) ==
    /\ form[e].pc = "loading"
    /\ HasRead(e)
    /\ LET found == read[e].steps
       IN  form' = [form EXCEPT ![e] =
              IF found = <<>> THEN Opened(<<DefaultRow>>)
              ELSE [Opened([k \in DOMAIN found |-> [wait   |-> found[k].wait,
                                                    target |-> Shown(found[k].target)]])
                       EXCEPT !.basis = found[1].id[1]]]
    /\ read' = [read EXCEPT ![e] = NoRead]
    /\ UNCHANGED <<policy, steps, inUse, onCall, page, saves, faults,
                   submitted, storedBy, raced>>

(* policyNewForm, while the policy is still to be created. *)
NewForm(e) ==
    /\ Free(e)
    /\ policy.status = "none"
    /\ form' = [form EXCEPT ![e] = [Opened(<<DefaultRow>>) EXCEPT !.new = TRUE]]
    /\ UNCHANGED <<policy, steps, inUse, onCall, read, page, saves, faults,
                   submitted, storedBy, raced>>

(* What any number of clicks makes of the rows: each may be removed           *)
(* (.remove(), and no renumbering) or changed to what its field and its       *)
(* select offer, and rows are added (const i = stepCount++).                  *)
Edited(rows, options) ==
    LET cell(k) == {Removed, IF k \in DOMAIN rows THEN rows[k] ELSE DefaultRow}
                     \cup {r \in Entries : r.target \in options}
    IN  UNION {{r \in [1..n -> UNION {cell(k) : k \in 1..n}] : \A k \in 1..n : r[k] \in cell(k)} :
                  n \in Len(rows)..MaxRows}

-----------------------------------------------------------------------------
(* policyCreate and policyUpdate. *)

(* parseStepsForm: from index 0 on, up to the first index that is not there.  *)
(* Every row that is there has a target, because its select shows one.       *)
ParseStepsForm(rows) ==
    [k \in {n \in DOMAIN rows : \A j \in 1..n : rows[j] # Removed} |-> rows[k]]

Submit(e) ==
    /\ form[e].pc = "open"
    /\ saves < MaxSaves
    /\ saves' = saves + 1
    /\ \E rows \in Edited(form[e].rows, form[e].options) :
          /\ submitted' = [submitted EXCEPT ![saves + 1] = ParseStepsForm(rows)]
          /\ form' = [form EXCEPT ![e] =
                [form[e] EXCEPT !.pc = "policy", !.rows = rows, !.options = {}, !.save = saves + 1,
                                !.basis = IF rows = form[e].rows THEN form[e].basis ELSE 0]]
    /\ UNCHANGED <<policy, steps, inUse, onCall, read, page, faults, storedBy, raced>>

(* Mutation: nothing to replace, the handler thinks, when no step came. *)
Then_SkipsEmpty(e) ==
    IF ParseStepsForm(form[e].rows) = <<>> THEN NoForm ELSE [form[e] EXCEPT !.pc = "steps"]

(* What follows the first statement: ReplaceSteps, with whatever was parsed. *)
Then(e) == [form[e] EXCEPT !.pc = "steps"]

(* CreatePolicy, or the UPDATE of policyUpdate, which a deleted policy does   *)
(* not fail.  A form for a new policy creates another one if this one exists. *)
StorePolicy(e) ==
    /\ form[e].pc = "policy"
    /\ LET elsewhere == form[e].new /\ policy.status # "none"
       IN  /\ policy' = IF elsewhere \/ (policy.status = "gone" /\ ~form[e].new) THEN policy
                        ELSE [status |-> "live", repeat |-> form[e].save]
           /\ form' = [form EXCEPT ![e] = IF elsewhere THEN NoForm ELSE Then(e)]
           /\ raced' = IF elsewhere THEN raced ELSE \E f \in Actors : form[f].pc = "steps"
    /\ UNCHANGED <<steps, inUse, onCall, read, page, saves, faults, submitted, storedBy>>

(* ReplaceSteps: one transaction.  The INSERTs need the policy's row. *)
StoreSteps(e) ==
    /\ form[e].pc = "steps"
    /\ IF policy.status = "live"
       THEN LET rows == ParseStepsForm(form[e].rows)
            IN  /\ steps' = [k \in DOMAIN rows |->
                               [id |-> <<form[e].save, k>>, wait |-> rows[k].wait, target |-> rows[k].target]]
                /\ storedBy' = form[e].save
       ELSE UNCHANGED <<steps, storedBy>>
    /\ form' = [form EXCEPT ![e] = NoForm]
    /\ UNCHANGED <<policy, inUse, onCall, read, page, saves, faults, submitted, raced>>

(* Mutation: no transaction; the DELETE stays when an INSERT fails. *)
RolledBack_Deleted == <<>>

(* What is left of the steps when a statement of ReplaceSteps fails. *)
RolledBack == steps

(* The handler answers 500, after either statement. *)
SaveError(e) ==
    /\ faults < MaxFaults
    /\ faults' = faults + 1
    /\ form[e].pc \in {"policy", "steps"}
    /\ steps' = IF form[e].pc = "steps" THEN RolledBack ELSE steps
    /\ form' = [form EXCEPT ![e] = NoForm]
    /\ raced' = TRUE
    /\ UNCHANGED <<policy, inUse, onCall, read, page, saves, submitted, storedBy>>

(* policyDelete: ON DELETE RESTRICT of the services, CASCADE to the steps. *)
DeletePolicy ==
    /\ policy.status = "live"
    /\ ~inUse
    /\ policy' = [policy EXCEPT !.status = "gone"]
    /\ steps' = <<>>
    /\ UNCHANGED <<inUse, onCall, read, form, page, saves, faults, submitted, storedBy, raced>>

(* serviceCreate: the foreign key needs the policy. *)
CreateService ==
    /\ policy.status = "live"
    /\ ~inUse
    /\ inUse' = TRUE
    /\ UNCHANGED <<policy, steps, onCall, read, form, page, saves, faults, submitted, storedBy, raced>>

DeleteService ==
    /\ inUse
    /\ inUse' = FALSE
    /\ UNCHANGED <<policy, steps, onCall, read, form, page, saves, faults, submitted, storedBy, raced>>

-----------------------------------------------------------------------------
(* Schedules, as a step sees them; module OnCall has how they come to it. *)
Handover(s) ==
    /\ onCall[s] # Gone
    /\ \E u \in Rota \cup {NoTarget, Gone} : u # onCall[s] /\ onCall' = [onCall EXCEPT ![s] = u]
    /\ UNCHANGED <<policy, steps, inUse, read, form, page, saves, faults, submitted, storedBy, raced>>

-----------------------------------------------------------------------------
(* fireStep. *)

(* ServiceByID, for an incident at some step. *)
Fire(p) ==
    /\ Free(p)
    /\ inUse
    /\ \E k \in 1..MaxRows : page' = [page EXCEPT ![p] = [NoPage EXCEPT !.pc = "read", !.step = k]]
    /\ read' = [read EXCEPT ![p].pc = "steps"]
    /\ UNCHANGED <<policy, steps, inUse, onCall, form, saves, faults, submitted, storedBy, raced>>

(* Mutation: an unmanned schedule falls back on the first user. *)
ResolveTargetUsers_FallsBack(t) ==
    IF t \notin Schedules THEN t
    ELSE IF onCall[t] \in Users THEN onCall[t] ELSE FirstUser

(* The user a target means; for an error or for no row at all, nobody. *)
ResolveTargetUsers(t) ==
    IF t \notin Schedules THEN t
    ELSE IF onCall[t] \in Users THEN onCall[t] ELSE NoTarget

(* The step's target is resolved and paged; past the end is Escalation's. *)
Page(p) ==
    /\ page[p].pc = "read"
    /\ HasRead(p)
    /\ LET k == page[p].step
       IN  page' = [page EXCEPT ![p] =
              IF k \notin DOMAIN read[p].steps THEN NoPage
              ELSE [pc |-> "paged", step |-> k,
                    user |-> ResolveTargetUsers(read[p].steps[k].target)]]
    /\ read' = [read EXCEPT ![p] = NoRead]
    /\ UNCHANGED <<policy, steps, inUse, onCall, form, saves, faults, submitted, storedBy, raced>>

Settle(p) ==
    /\ page[p].pc = "paged"
    /\ page' = [page EXCEPT ![p] = NoPage]
    /\ UNCHANGED <<policy, steps, inUse, onCall, read, form, saves, faults, submitted, storedBy, raced>>

-----------------------------------------------------------------------------
Init ==
    /\ policy = [status |-> "none", repeat |-> 0]
    /\ steps = <<>>
    /\ inUse = FALSE
    /\ onCall \in [Schedules -> Rota]
    /\ read = [a \in Actors |-> NoRead]
    /\ form = [e \in Actors |-> NoForm]
    /\ page = [p \in Actors |-> NoPage]
    /\ saves = 0
    /\ faults = 0
    /\ submitted = [n \in 0..MaxSaves |-> <<>>]
    /\ storedBy = 0
    /\ raced = FALSE

Next ==
    \/ \E a \in Actors : ReadSteps(a) \/ ReadTargets(a)
    \/ \E e \in Actors :
          \/ NewForm(e) \/ EditForm(e) \/ RenderForm(e)
          \/ Submit(e) \/ StorePolicy(e) \/ StoreSteps(e) \/ SaveError(e)
    \/ DeletePolicy
    \/ CreateService
    \/ DeleteService
    \/ \E s \in Schedules : Handover(s)
    \/ \E p \in Actors : Fire(p) \/ Page(p) \/ Settle(p)

Spec == Init /\ [][Next]_vars

-----------------------------------------------------------------------------
(* Types: every variable holds what its declaration says. *)
TypeOK ==
    /\ policy \in [status : {"none", "live", "gone"}, repeat : 0..MaxSaves]
    /\ steps \in Seq(Step)
    /\ inUse \in BOOLEAN
    /\ onCall \in [Schedules -> Users \cup {NoTarget, Gone}]
    /\ read \in [Actors -> Reading]
    /\ form \in [Actors -> Form]
    /\ page \in [Actors -> Paging]
    /\ saves \in 0..MaxSaves
    /\ faults \in 0..MaxFaults
    /\ submitted \in [0..MaxSaves -> Seq(Row)]
    /\ storedBy \in 0..MaxSaves
    /\ raced \in BOOLEAN

(* The steps in the tables are one submission, whole and in its order,        *)
(* whatever updates overlap and whichever statement fails: the one whose      *)
(* transaction committed last.                                                *)
StoredIsSubmitted ==
    policy.status = "live" =>
        /\ RowsOf(steps) = submitted[storedBy]
        /\ \A k \in DOMAIN steps : steps[k].id = <<storedBy, k>>

StoredIds  == {steps[k].id : k \in DOMAIN steps}
Stored(id) == id \in StoredIds

(* The steps that were read, the submissions, and the ids that are stored. *)
OneVersion(found, all, ids) ==
    \A k \in DOMAIN found :
        LET s == found[k]
            n == found[1].id[1]
        IN  /\ s.id = <<n, k>>
            /\ s.wait = all[n][k].wait
            /\ s.target \in {all[n][k].target, NoTarget, Unread}
            /\ s.target = NoTarget => s.id \notin ids

(* Whoever reads the policy while it is replaced sees one submission's steps, *)
(* some perhaps without a target, never the steps of one with another's       *)
(* targets; and a target is missing only if its step is no longer stored.     *)
ReadsOneVersion == \A a \in Actors : OneVersion(read[a].steps, submitted, StoredIds)

(* The repeat and the steps that are stored belong to one submission, unless  *)
(* an update is half done, or the last ones overlapped or failed: an update   *)
(* that runs alone and to its end mends whatever those left behind.           *)
RepeatMatchesSteps ==
    policy.status = "live" /\ policy.repeat # storedBy =>
        raced \/ \E e \in Actors : form[e].pc = "steps"

-----------------------------------------------------------------------------
(* Whom a target means at this moment. *)
Meant(t) == IF t \in Users THEN t ELSE IF onCall[t] \in Users THEN onCall[t] ELSE NoTarget

(* A step pages whom its place in one submission means at that moment, and    *)
(* nobody besides only if that step was replaced or deleted while it was read. *)
PagesAsStored ==
    [][\A p \in Actors : page[p].pc = "read" /\ page'[p].pc = "paged" =>
          LET n == read[p].steps[1].id[1]
              k == page[p].step
          IN  \/ page'[p].user = Meant(submitted[n][k].target)
              \/ page'[p].user = NoTarget /\ ~Stored(<<n, k>>)]_vars

(* What a reading stands for: the whole of the submission it is of. *)
Version(found) ==
    LET n == found[1].id[1]
    IN  [k \in DOMAIN found |->
            [id |-> <<n, k>>, wait |-> submitted[n][k].wait, target |-> submitted[n][k].target]]

Seen(a) ==
    IF read[a].pc = "targets" THEN [looked |-> TRUE, steps |-> Version(read[a].steps)]
    ELSE [looked |-> FALSE, steps |-> <<>>]

Versions == INSTANCE PolicyVersions WITH
                Readers  <- Actors,
                Numbers  <- 1..MaxSaves,
                Places   <- 1..MaxRows,
                Nobody   <- NoTarget,
                stored   <- steps,
                onDuty   <- onCall,
                turn     <- page,
                seen     <- [a \in Actors |-> Seen(a)]

(* Although every target has a query of its own and updates run in between,   *)
(* a reader sees the policy as it was at one moment; and it pages whom a step *)
(* of it means when it pages, or nobody if the step is not stored any more.   *)
ImplementsVersions == Versions!Spec

Commits(e) == form[e].pc = "steps" /\ form'[e].pc = "closed" /\ storedBy' # storedBy

(* A form saved as it was loaded, with nothing saved in between, leaves every *)
(* step as it was, but for targets whose schedule is gone.                    *)
RoundTrip ==
    [][\A e \in Actors : Commits(e) /\ form[e].basis # 0 /\ form[e].basis = storedBy =>
          /\ DOMAIN steps' = DOMAIN steps
          /\ \A k \in DOMAIN steps :
                \/ RowOf(steps'[k]) = RowOf(steps[k])
                \/ steps[k].target \in Schedules /\ onCall[steps[k].target] = Gone]_vars

-----------------------------------------------------------------------------
(* What the code says of parseStepsForm, and does not keep: it "reads the     *)
(* dynamically-added step rows", so what is saved is what the form showed.    *)
SavedAsShown ==
    [][\A e \in Actors : form[e].pc = "open" /\ form'[e].pc = "policy" =>
          submitted'[saves'] = SelectSeq(form'[e].rows, LAMBDA r : r # Removed)]_vars
=============================================================================
