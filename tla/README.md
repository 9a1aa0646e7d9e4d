# Escalight, specified

Escalight is an on-call pager: one Go process, one SQLite file. Alerts arrive at
webhooks, become incidents, and are paged step by step along the service's
escalation policy until somebody acknowledges. This directory holds TLA+
modules of that program, TLC configurations that check them on small instances,
and proofs, checked by TLAPS, that the most important properties hold for every
size of instance. Paths below are relative to the repository.

## Inventory

| Component | State | Operations | Hard behaviour |
|---|---|---|---|
| Escalation engine (`internal/engine/escalation.go`) | none of its own between ticks; in `Tick`, the rows it read and has not fired yet; in `fireStep`, position and progress | `Run`, `Tick`, `TriggerIncident`, `fireStep` | acts on rows read earlier; several statements and slow sends without a transaction; runs in the engine's goroutine and in webhook handlers |
| Incident store (`internal/db/incidents.go`, `services.go`, `policies.go`, migrations) | tables incidents, services, escalation_policies, escalation_steps | one SQL statement each, `ReplaceSteps` one transaction | single connection: statements are atomic, sequences are not; updates with and without a status guard; cascades |
| Alert ingestion (`internal/webhooks`) | none | `Generic`, `Alertmanager`, `EmailIn` → `Ingest`, `ResolveByFingerprint` | check-then-insert dedup; handlers page before they answer, so that a source gives up and sends again while the first handler goes on; one alert of a group fails and the rest go on |
| Policies and services UI (`internal/httpserver/policies_handlers.go`, `services_handlers.go`) | none; the form's rows are in the browser | load the form, edit, create, update, delete | `StepsForPolicy` is several queries, `ReplaceSteps` one transaction, an update two statements; the form identifies rows by indices that removing leaves gaps in; a policy is edited while incidents are in the middle of it |
| On-call schedules (`engine/schedule.go`, `db/schedules.go`, `schedules_handlers.go`) | tables schedules, schedule_rotations, schedule_overrides | set rotation, add and delete override, `OnCallUserID`, `ShiftAt`, calendar | boundaries of shifts, times truncated to seconds, three separate reads |
| Notification (`internal/notify`) | table push_subscriptions | `NotifyUser`, four channels, `sendPush` and its cleanup | partial delivery, no timeouts, cleanup racing a new subscription |
| Boot (`main.go`, `db/db.go`, `notify/webpush.go`, `db/settings.go`) | schema_migrations, settings | `migrate`, `EnsureVAPIDKeys`, start, shutdown | crash between two statements, restart |
| Accounts (`db/sessions.go`, `db/users.go`, `auth_handlers.go`, `middleware.go`) | tables users, sessions | setup, login, logout, expiry | setup's check-then-create, session expiry |
| Responders (`incidents_handlers.go`, `slack_handlers.go`, `db/events.go`) | table incident_events | acknowledge, resolve (page, push button, Slack) | update and timeline event are two statements |
| Pages, assets, configuration, scripts | none | | not modelled: rendering and start-up configuration keep no state |

What makes each correct:

- **Engine, ingestion, store.** Nobody fires an incident twice at a time, no step
  is skipped or sent twice without a fault, a closed incident is not paged (or as
  nearly as the code can), positions and statuses only move forward, an incident
  nobody answers runs through its whole policy.
- **Ingestion.** An answer means what it says, an alert opens no more incidents
  than its source's requests overlapped, and what a source has to say is heard,
  however often it gives up and through faults.
- **Policies.** What is stored is one submission, whole; whoever reads while it is
  replaced pages somebody that submission names or nobody; loading a form and
  saving it changes nothing.
- **Schedules.** The page reaches somebody on call, the calendar says what the
  pager will do, turns go around without gaps.
- **Notification.** One broken device does not silence another, clean-up removes
  only what is gone, the timeline tells the truth about delivery.
- **Boot.** A boot cut short anywhere leaves a disk the next boot can use; keys
  survive restarts.
- **Accounts.** One first admin; nothing is served to an expired or ended session.
- **Responders.** The timeline agrees with the incident; a Slack prefix names the
  incident meant.

How they interact: everything shares one SQLite connection
(`db.SetMaxOpenConns(1)`), so a statement or a transaction is one atomic step and
nothing larger is. Handlers run in a goroutine per request; the engine has one
goroutine driven by a ticker. Handlers call the engine (`TriggerIncident`)
directly; the engine calls the dispatcher; the dispatcher reads the store and
writes the timeline. There are no locks and no channels besides the ticker's, and
the database is all that outlives the process.

## The modules

| Module | Models | State ↔ code | Actions ↔ code |
|---|---|---|---|
| `IncidentStore` | the tables and statements escalation lives on | `incidents` (rows), `services` (ids), `policies` (length, repeat) | one operator per statement of `db/incidents.go`, `db/services.go`, `db/policies.go` |
| `Escalation` (extends it) | engine, webhook handlers, responders, edits, faults | `due`: what is left of `Tick`'s slice; `fire[p]`: the locals of `fireStep` in goroutine `p`; `request[w]`: those of `Ingest` and `ResolveByFingerprint` | `Tick`, `TickNext`; `LoadSteps`, `LoadPolicy`, `LogExhausted`, `Stop`, `Notify`, `Commit` (between two database calls of `fireStep`); `Lookup`, `Create`, `MatchResolved`, `ResolveMatched`; `Acknowledge`, `Resolve`, `EditPolicy`, `RemoveService`; `Elapse` (the clock passes `next_escalation_at`); `FireError`, `RequestError`, `CreateFails`, `Restart` |
| `IncidentLease` | what escalation promises, abstractly | status, position and an imaginary lease per incident | `OpenIncident`, `Grant`, `Page`, `Settle`, `Lose`, … |
| `AtomicDisk` | what a boot promises, abstractly | which migrations the disk carries, and its two key halves | `Migrate`, `StorePublic`, `StorePrivate` |
| `PushRegistry` | what the subscriptions promise, abstractly | which endpoints live and have died, who is at the browser of each, what users have saved and not taken back, and the subscriptions that work | `Mint`, `Login`, `Save`, `TakeBack`, `Die` |
| `PolicyVersions` | what a policy means to whom it pages, abstractly | the steps in force, what each reader sees of them, and whom it pages | `Replace`, `Clear`, `Handover`, `Send`, `Look`, `LookAway`, `Page`, `PastTheEnd`, `Settle` |
| `Ingestion` | one source of alerts, the three hooks, `Ingest` and `ResolveByFingerprint` | `call`: the handlers' locals, in the order the requests were sent; `open`: the incidents of each fingerprint that are not resolved; `service`: its key is known; `firing`, `told`: the source (external); `failures`, `restarts`: faults so far, by kind | `Receive`, `Lookup`, `Create`, `Trigger`, `Match`, `Close`, `Answer` (between two database calls of a handler); `Resolve`, `DeleteService`; `Change`, `Send`, `GiveUp` (the source); `Fault`, `Restart` |
| `PolicySteps` | one policy from the form to whom a step pages | `policy`, `steps`, `inUse`: the tables; `read`: what `StepsForPolicy` has read so far, for each caller; `form`: the form's rows in the browser, then in the request; `page`: the locals of `fireStep`; `onCall`: whom a schedule resolves to | `ReadSteps`, `ReadTargets` (the queries of `StepsForPolicy`); `NewForm`, `EditForm`, `RenderForm`, `Submit`; `StorePolicy`, `StoreSteps`, `SaveError`; `DeletePolicy`, `CreateService`, `DeleteService`; `Handover`; `Fire`, `Page`, `Settle` |
| `OnCall` | rotations, overrides, the pager's resolution, the calendar | `rotation`, `overrides`: rows of one schedule; `page`: the locals of `resolveTargetUsers`; `calendar`: the page last shown; `clock` | `ReadSchedule`, `ReadRotation`, `ReadClock`, `ReadOverrides`; `LoadCalendar`; `SetRotation`, `AddOverride`, `DeleteOverride`, `DeleteSchedule`; `OnCallUserID` and `ShiftAt` as operators |
| `Boot` | `db.Open`, `migrate`, `EnsureVAPIDKeys`, the end of the process | `schema`, `marks`, `settings`: on disk; `tx`: the open transaction; `proc`: how far the process has come, and its key pair | `Start`, `CheckMark`, `Apply`, `Mark`, `Commit`, `GetPublic`, `GetPrivate`, `SetPublic`, `SetPrivate`, `Crash` |
| `Push` (extends it) | push subscriptions from the browser's button to the push service | `rows`: push_subscriptions; `send[s]`: the locals of `sendPush` or `pushTest`; `browser`, `minted`, `vouched`: browser and push service (external) | `Enable`, `Saved`, `SaveLost`, `Disable`, `Drop`, `Forget`, `SwitchUser`; `ReadSubscriptions`, `SendOne`, `DeleteGone`, `Report` |
| `Console` | setup, login, sessions, and answering incidents from the page, the push button, Slack and a source | `users`, `sessions`, `incidents`, `timeline`: the tables; `cookie`: in the browsers; `call[w]`: the locals of the handler that serves request `w` | `SetupCount`, `SetupCreate`, `LoginSubmit`, `CreateSession`, `Logout`, `Expire`; `Press`, `SessionUser`, `DropExpired`, `Invite`; `SlackCommand`, `SourceResolved`, `Update`, `AddEvent`; `OpenIncident`, `Purge`; `CallError`, `Restart` |
| `MCEscalation`, `MCPolicySteps`, `MCOnCall`, `MCPush`, `MCConsole` | instances for TLC | | |
| `EscalationProofs`, `EscalationPagingProofs`, `EscalationRefinement`, `IngestionProofs`, `PolicyProofs`, `OnCallProofs`, `PushProofs`, `ConsoleProofs` | proofs | | |

Four modules have incidents, each as far as it needs them. `Escalation` follows the
paging and takes an answer as the one UPDATE it is there; `Console` follows the
people and takes an incident as open or closed; `Ingestion` follows the source, for
which an incident is open or not; `PolicySteps` follows a page from its step's row
in the form to the user it reaches, at whatever step an incident may be. In
`Escalation` the handlers' requests are there for the race they have with the engine
and with each other over rows; in `Ingestion`, for what the source makes of the
answers.

Four modules implement an abstract one, each by a refinement mapping written in the
detailed module, checked as a property of its run and proved:

| Abstract | Mapped in | Property | What it says beyond the invariants |
|---|---|---|---|
| `IncidentLease` | `Escalation!Lease`, read off frames and queue | `ImplementsLease` | an incident is moved on by whoever holds it, one at a time |
| `AtomicDisk` | `Push!Disk`, the committed tables | `ImplementsDisk` | each step of a boot, crashes included, leaves the disk as it was or one migration or one key half further |
| `PushRegistry` | `Push!Registry`, rows, browsers and the history `enabled` | `ImplementsRegistry` | a subscription that works comes by a save of who is at its browser, and goes only because the same user takes it back there or its endpoint dies. `TakeBack` changes what users want (`wanted`, mapped to `enabled`), which no clean-up does: a clean-up that takes a row that works is no step of the registry |
| `PolicyVersions` | `PolicySteps!Versions`, its tables, and what a reader will have read | `ImplementsVersions` | a reader whose queries interleave with an update sees one version, and pages whom its step means or nobody |

History variables (`fired`, `late`, `again`, `duty`, `seen`, `enabled`, `drawn`, `founders`,
`submitted`, `storedBy`, `raced`, `overlap`, the `entitled` of a request in `Console`,
the `owed` of one in `Ingestion`, the `basis` of a form, and the `sent`, `failed`,
`said` of a sending frame) record what happened for the properties; no guard reads
them, except that `drawn` keeps key pairs distinct.

Definitions whose names carry a suffix after an underscore (`TickNext_SameStep`,
`Apply_Autocommit`) are mutations: the definition after them, changed the way a
plausible bug would. No specification uses them. Each shows that a property does
depend on the code: with the mutation in its place TLC finds that property
violated.

### Abstractions

- *Incident rows* keep status, service, fingerprint, position, and of
  `next_escalation_at` only whether it is NULL, ahead or passed. `Elapse` turns
  ahead into passed, at any time: waits may be of any length.
- *Policies* are a number of steps and a number of repeats in `Escalation`, where a
  step has fired when its loop over targets is through. `PolicySteps` has the steps
  themselves and what a target means, `OnCall` how a schedule comes to mean it,
  `Push` how a page is sent.
- *Submissions in `PolicySteps`* are numbered, and a step's id is its submission's
  number and its place in it. A repeat count, whose value no property looks into, is
  the number of the submission it came with. The channels of a step travel with its
  target, in one row of the form and one of the tables, and are left out. Whatever
  happens in the browser between loading and submitting is one step (`Edited`): any
  row removed or changed to what its select offers, and rows added.
- *Alerts in `Ingestion`* have a fingerprint each; alerts without one are never
  deduplicated and are in `Escalation` (`NoFingerprint`). An acknowledged incident is
  as open to a source as a triggered one, so that acknowledging is no step there.
  A number of a closed incident that no handler holds is drawn again. The source of
  the generic and the e-mail hook has no notion of an alert's end: when its one alert
  begins anew it sends again without waiting for the last answer.
- *Identifiers* are drawn fresh from a finite set; a deleted one is not drawn again.
- *Time in `OnCall`* is a count of ticks, `Second` of them to the second, so that
  truncation to seconds (what the tables hold) is `t - t % Second`.
  `time.Duration` saturates at `MaxDuration`.
- *People in `Console`.* A user is his e-mail, which is UNIQUE; there is no handler
  that deletes a user or changes his role. Passwords are right, and who is linked
  to a Slack account is any user at any time. A Slack prefix is the set of ids it
  matches. Of the timeline only acknowledgements and resolutions are kept, as a
  set of who did what.
- *Errors.* Any statement may fail once per unit of `MaxFaults`; what the code does
  then is what the model does: it abandons the frame or the request. A restart
  abandons them all. In `Push` statements do not fail; the process may end instead.

## What the runs show

| Run | Specification | Checked | Bounds |
|---|---|---|---|
| `escalation_safety` | `Spec` | `TypeOK`, `FireExclusive`, `EscalationOrder`, `RepeatsTakeFaults`, `LatePageBound`, `SilenceIsBounded`, `OnlyForward` | 2 incidents, 1 handler and the engine, policies of 0–2 steps and 0–1 repeats edited at will, 1 fault |
| `escalation_liveness` | `FairSpec` | `PolicyRunsInFull`, `EveryPageSettles`, `ImplementsLease` | 2 incidents, 1 handler and the engine, one fingerprint, 2 steps, 1 repeat, no faults or edits |
| `ingestion` | `FairSpec` | `TypeOK`, `AnswerIsHonest`, `DuplicateBound`, `QuietMeansClosed`, `Delivered` | 2 requests at a time, 2 alerts, 2 faults, be they failed statements or restarts |
| `policy` | `Spec` | `TypeOK`, `StoredIsSubmitted`, `ReadsOneVersion`, `RepeatMatchesSteps`, `ImplementsVersions`, `RoundTrip` | 2 browsers or pagers, 2 users, 1 schedule, 2 rows in the form, 2 submissions, 1 fault |
| `oncall` | `Spec` | `TypeOK`, `PagedWasOnCall`, `CalendarTruthful`, `HandoverOnTime`, `TurnsInOrder` | 3 users, 4 rotations, 2 overrides, 2 edits, 6 ticks, 2 to the second, 4 to the day |
| `boot` | `FairSpec` | `ImplementsDisk`, `BootsAgain` | 3 migrations, 4 crashes, 2 key pairs |
| `push` | `Spec` | `TypeOK`, `SubscriptionsUsable`, `CleanupSparesLive`, `EveryDeviceTried`, `HonestReport`, `ImplementsRegistry` | 2 users, 2 browsers, 2 endpoints, a paging and a test loop, 2 crashes |
| `console` | `Spec` | `TypeOK`, `SetupBound`, `ServedWhileEntitled`, `TimelineExplainsRow`, `EventsFollowUpdates`, `FirstResponderStays` | 2 users, 1 session token, 1 browser, 1 incident, 2 requests at once, 1 fault |
| `duplicate_incidents`, `restart_strands`, `push_keys`, `form_gap` | | one property each, violated: see *Findings* | |

Why these are enough to be worth something: one incident and its handler race the
engine; a second one makes the engine's snapshot go stale while it is busy with
the first; two steps and one repeat reach "advance", "repeat" and "exhausted";
policies edited down to nothing reach a stored step beyond the end; one fault
reaches every abandoned frame. A second handler matters only where two requests
meet, which is what `ingestion` is for: two requests in progress are an overlap, and
two alerts of a group are a loop that goes on after one has failed, and two faults a
statement that fails before or after a restart. In `policy` two
submissions overlap each other or a reader; two rows are enough for a gap (the first
removed), for an order, and for one step's targets read and the other's not yet; the
schedule changes hands and may be deleted under a form. In `oncall`
the four rotations are one whose turn wraps from last to first while the clock
runs, one that begins in that time, a weekly one, and an empty one; the largest
duration lies within the clock's range, so saturation is reached. In `push` two
endpoints are enough for a partial failure, for two browsers of one user, two
users of one browser, and a browser that subscribes again. In `console` two requests
are what a race needs: two setups, two responders, a logout or an expiry under a
request that has not been looked up yet. What the safety runs
check is proved for all bounds where the next section says so.

What these bounds leave to the proofs alone: in `console` there is one token and one
browser, so that nobody else ever logs in from the same browser under a request, and
of `ServedWhileEntitled` that case rests on `ConsoleEntitled`; in
`escalation_liveness`, where `ImplementsLease` is checked, nothing is edited, deleted or
failing, so that a lease under a deletion, an edit or a fault rests on
`EscalationImplementsLease` (`escalation_safety` has them all, and checks that frames
and rows stay well-formed).

Deadlock is checked except in `escalation_safety`, where the service may be deleted
with all its incidents, in `boot`, where a process that is up has nothing left to
do, in `push_keys`, and in `console`, `policy` and `form_gap`, where the endpoints,
ids, tokens and submissions that bound the instance run out, or the policy is
deleted, and nobody need do anything more.

### Fairness

- `Escalation!FairSpec` asks weak fairness of `Tick` and `TickNext` (`Run` loops on
  a ticker), of every frame of `fireStep` and every request in progress (goroutines
  that Go schedules), and of `Elapse` (time passes). Alerts, responders, edits and
  faults are never owed. It assumes that sends return: `http.Post` and
  `smtp.SendMail` have no timeout, so one that hangs for ever does stop the engine;
  that hazard is listed and not covered.
- `Ingestion!FairSpec` asks weak fairness of the source and the handlers together:
  while there is something to report or a request to handle, one of them goes on.
  The source retries what was not answered with success (Alertmanager does, and so do
  the mail services that post to a webhook), and Go schedules the handlers. No request
  in particular is owed an answer in time: the source may give up on every one.
- `Push!FairSpec`, used by `boot`, asks weak fairness of the boot's own steps. That
  includes `Start`: somebody (a service manager, a container runtime)
  starts the process whenever it is down. Crashes are bounded.

### Findings

Each is a run in which TLC finds a sentence of the code or its documentation
violated; `PROJECT.json` quotes the sentences.

1. `duplicate_incidents`: a source that gives up waiting and sends its alert again has
   two handlers at work on it; both find no open incident and both create one.
   `DuplicateBound` shows, for any number of requests, how many at most.
2. `restart_strands`: a fault between `CreateIncident` and the first
   `SetNextEscalation` leaves an incident that is never escalated.
3. `push_keys`: a crash between the two statements that store the VAPID key pair
   leaves every later boot without the private half; push is dead until somebody
   repairs the table. `SubscriptionsUsable` shows that the public half is stable
   all the same.
4. `form_gap`: `parseStepsForm` counts up to the first index that is not there, and
   the form's *Remove* leaves such a gap: the rows after it are dropped without a word.
   `StoredIsSubmitted` shows that what was parsed is stored whole.

Observations beside these:

- A step picked up before an acknowledgement is paged after it, though
  `engine/escalation.go:17-18` says that acknowledging is enough to stop paging.
  `LatePageBound` shows, and `AtMostOneLatePage` proves, that it is never more than
  one per incident. The commit of such a page sets `next_escalation_at` on the closed
  row again, which is harmless because `DueForEscalation` also asks for the status.
- The handlers do not look how many rows their UPDATE met, so that a second responder
  gets a timeline event of his own (`EventsFollowUpdates` and `FirstResponderStays`
  bound what that can say).
- Alertmanager's hook answers 200 even when an alert's own statement failed: a resolved
  alert whose UPDATE failed leaves its incident open, and nobody sends it again
  (`QuietMeansClosed` counts such alerts: one for each statement that failed, and
  none for a restart, after which the source sends again; `Ingestion` counts failed
  statements and restarts apart for that).
- Two updates of a policy that overlap, or one that fails half way, leave one's repeat
  count with the other's steps; `RepeatMatchesSteps` shows that the next update that
  runs alone mends it.
- A form loaded while its policy is replaced, or after a schedule was deleted, shows
  the first user wherever a target is missing, and saving it retargets those steps.
- The form calls a step's delay "Wait before notifying this step"; `fireStep` pages at
  once and waits afterwards.
- The process ends without waiting for its handlers or its engine (`main.go`).

## What is proved

For every value of the constants that satisfies the named assumptions
(`StoreAssumption`, `ActorAssumption`, `OnCallAssumption`, `BootAssumption`,
`PushAssumption`, `ConsoleAssumption`, `PolicyAssumption`, `IngestionAssumption`:
finiteness, distinctness of the "none" values, bounds that are naturals, a day of
whole seconds, and at least one handler of requests).

| Theorem | States | Argument |
|---|---|---|
| `TypeCorrect` | `Spec => []TypeOK` | `TypeInv` = `TypeOK` and `WellFormed`: a row that is armed has a step below the longest policy, a frame or request that is busy names an incident or service. Without it the engine's `step + 1` could leave its type. |
| `FireIsExclusive` | `FireExclusive` | `ExclInv` adds `Handled`: an incident that somebody holds is not armed. This is the argument the code relies on without saying so: `next_escalation_at` stays NULL until the creating handler's commit, and a passed time stays out of a new snapshot because there is only one engine goroutine. |
| `AtMostOneLatePage` | `LatePageBound` | `LateInv` adds `LateSpent`: once a late page is out, nobody has the incident left to page |
| `SnapshotsStayFresh`, `IncidentsOnlyMoveForward` | `SnapshotFresh` (without a run), `OnlyForward` | `PosInv` adds that a frame is ahead of its row and that a row not drawn stands at (0, 0); `EngineAhead`, that the engine's frame is strictly ahead, so that no step waits twice |
| `PagesFollowThePolicy` | `EscalationOrder` | `OrderInv` adds that whatever a row, the queue or a frame stands at, everything before it has been paged |
| `RepeatsAreFaults` | `RepeatsTakeFaults` | `RepeatInv`, a potential: the pages sent again and the pages that may be (`Undone`: sent, for a position the row has not moved past, and with nobody left to commit it) are together no more than the faults. Only a fault between `Notify` and `Commit` makes a page undone, one at a time, and sending it again takes it out of the set |
| `SilenceTakesAFault` | `SilenceIsBounded` | `SilenceInv`, counted: the incidents that are triggered, not exhausted, and waited for by nothing (`Lost`) are at most one for each handler a fault could hit. What the engine holds survives a crash: it has a time that has passed (`Armed`), so that the next tick draws it again. The bound does not tell the engine's faults from the handlers': one of the engine's own, an exhausted policy it fails to log before it stops, does leave an incident silent, and counts as any other |
| `FireStepTerminates` | `FireStepEnds` (without a run) | types: what `Remaining` counts falls with every step of a frame, the recursion of a repeat included, because the rounds are counted |
| `PoliciesRunInFull` | `PolicyRunsInFull` | `RunInv` with `OnTrack`: where policies are not edited, every position before the one an incident stands at, in its row, the queue or a frame, has been paged, whatever fails |
| `EscalationImplementsLease` | `ImplementsLease` | step simulation from `ExclInv` and `PosInv`, which say that a lease has one holder and that a frame's position is its row's or ahead of it; `OneTask` adds that a handler about to create an incident is not firing another, `Owned` that a row that is gone belongs to no service and is not deleted again |
| `IngestionTypes`, `DuplicatesAreBounded` | `TypeOK` and `DuplicateBound` of `Ingestion` | one induction: the bound keeps the numbers from running out, and types hold because they do not; `overlap` is at least the requests in progress |
| `AnswersAreHonest` | `AnswerIsHonest` | `FrameInv`: what an alert's frame still owes is what its loop has not come to |
| `QuietIsClosed` | `QuietMeansClosed` | `QuietInv`, counted: without overlap, but for one alert for each statement that failed (`failures`; restarts are counted apart and add nothing), whatever ended among the alerts the loop is past is closed, and it is about to close the only incident there is (`Quiet`) |
| `TypeCorrect`, `StoredWhole`, `NoMixedRead`, `RepeatInStep` of `PolicyProofs` | `TypeOK`, `StoredIsSubmitted`, `ReadsOneVersion`, `RepeatMatchesSteps` | `IInv`: ids tell submissions apart and are never drawn again, so that a target found by id belongs to the step read |
| `PagesTruly`, `SavedAsLoaded` | `PagesAsStored` (without a run), `RoundTrip` | the same invariant; it relates a form's rows to the submission they were read from until they are changed |
| `PolicyImplementsVersions` | `ImplementsVersions` | step simulation: to the invariant above `VersionInv` adds that nobody does two things at once (`TaskInv`). The targets a reader has not come to yet are found by their step's id, which no later submission uses again, so that what it will have read is known when it begins |
| `PageReachesOnCall` | `PagedWasOnCall` | `PageInv` follows a resolution from read to read; a lemma shows that the window `[now, now+1s)` cut to seconds selects the overrides active at `now` |
| `CalendarKeepsItsWord` | `CalendarTruthful` | what a page said is a function of rotation and overrides, which until an edit are unchanged |
| `HandsOverOnTime`, `TurnsGoAround` | `HandoverOnTime`, `TurnsInOrder` | arithmetic of truncated division on both sides of the rotation's start; `DutyInv` ties the history to the clock |
| `OnCallTypes` | `TypeOK` of `OnCall` | operator by operator |
| `MigrationsAreAtomic` | `SchemaMatchesMarks` (without a run) | `DiskInv`: what the open transaction has done is what the program counter says, and the names before it are all marked |
| `BootImplementsDisk` | `ImplementsDisk` | step simulation from `DiskInv`, `KeyInv` and `StageInv`: at each stage, what the marks and the settings cannot hold yet |
| `BootOnlyAdvances` | `BootAdvances` (without a run) | the same invariants: each step of a boot that is no crash brings it nearer to its end (`Distance` falls), none fails on tables that exist already. `BootsAgain` follows with fairness |
| `PushImplementsRegistry` | `ImplementsRegistry` | step simulation from `CleanupInv` and `BrowserInv`: what lives was minted, and in no two browsers, so that whoever takes a subscription back is the one user at its browser; no row is there that its user has taken back, so that a take-back of what was never saved is no step; and `DeleteGone`, which leaves what users want alone, must be a stutter, for which what it deletes has to be gone |
| `KeysStayStable` | `SubscriptionsUsable` | `KeyInv` (from the first read or write on, process and disk have the same public half, and it is drawn only where there was none) and `UsableInv` (what lives was minted for it) |
| `LiveRowsAreKept` | `CleanupSparesLive` | `CleanupInv`: what a loop is about to delete is gone, and `GoneForGood`: it stays gone, because an endpoint is never minted again |
| `NoDeviceSkipped`, `ReportsAreHonest` | `EveryDeviceTried`, `HonestReport` | `LoopInv`: whatever was read and lives is still to do or has been tried |
| `PushTypeCorrect` | `TypeOK` of `Push` | `DiskInv` and `ShapeInv` |
| `ConsoleTypes` | `TypeOK` of `Console` | `TypeInv` adds `CallOK`: a request holds what its next statement needs, as an incident once it answers one |
| `ConsoleEntitled` | `ServedWhileEntitled` | `SessionInv`: a request that waits for its session's row was entitled if the row is still good. It is kept because sessions only age (`Ages`): no step gives one another user, or brings back one that has ended |
| `ConsoleSetupBound` | `SetupBound` | `SetupInv`: founders exist and, with the requests past the count of users, are no more than there are workers; cardinalities of finite sets |
| `ConsoleTimeline` | `TimelineExplainsRow` | from `RowInv`: a row gets a name only from a request that goes on to log it, its timeline only grows, and only a fault ends such a request otherwise (`NamesStep`, `TimelineGrows`, `EventFrame`) |
| `ConsoleFirstResponder` | `FirstResponderStays` | `RowInv`: who is named tells the status, and the guards of the UPDATEs exclude that status; rows go forward only (`Rises`) |
| `ConsoleEventsFollow` | `EventsFollowUpdates` | `EventInv`: a request about to log finds the incident at least as far as it will say, or gone |

Each proof has the same shape: the invariant holds initially, one lemma or one step
per action shows that it is kept, and a temporal step combines the two.

Model-checked only: `EveryPageSettles`, `BootsAgain` and `Delivered`, which rest on
fairness and so are beyond the prover, and the four violations. The safety half of the
first is proved for any number of faults: nothing silences an incident but a fault
(`SilenceTakesAFault`), every frame ends (`FireStepTerminates`), and every wait leads to
a later position (`IncidentsOnlyMoveForward`); of the second, that every step of a boot
leads on (`BootOnlyAdvances`).

## Not modelled

- Pages, templates, routing, configuration, version, scripts: they keep no state.
- Payload formats of the three webhooks: each hands a title, a severity and a
  fingerprint to `Ingest`, and only the fingerprint matters to what is checked.
- Sends that never return: the engine's goroutine would stop with them.
- What follows when the browser's POST of a new subscription or the acknowledgement
  from a push is lost: `SaveLost` and a request that is redirected to the login page are
  steps of `Push` and `Console`, but the code looks at neither answer and promises
  nothing, so that no property is about them. These three hazards are listed without one.
- E-mail, Slack and Discord sends: one call each, logged, without state.
- The health endpoint and the list pages: reads that change nothing.
- The check of passwords, the link of a user to a Slack account, Slack's request
  signature, and the wording of timeline events and answers.

## Plan

Done: `IncidentStore`, `Escalation`, `IncidentLease`; `Ingestion`; `PolicySteps`;
`OnCall`; `Boot` and `Push`; `Console`; each with its proofs, and the refinement. What
could follow, in this order:

1. What the program says of itself and concurrent requests may contradict: the
   first-run setup tested in `internal/httpserver/server_test.go`, and the README's
   account of the timeline, as runs of their own.
2. A send that hangs: the engine's one goroutine with a dispatcher that may not
   return, and which incidents that stops.
3. `PolicySteps` composed with `OnCall`: whom a schedule means, in place of the user
   `Handover` draws, over the three reads of a resolution.
