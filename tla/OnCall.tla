------------------------------- MODULE OnCall -------------------------------
(***************************************************************************)
(* Who is on call: a schedule's rotation and overrides, the pager that     *)
(* resolves a schedule target to a user, and the calendar page.            *)
(*                                                                         *)
(* An instant is a number of ticks, several to the second.  Tables hold    *)
(* RFC 3339 strings in UTC, which keep whole seconds and compare as text   *)
(* in the order of time; the pager also compares them with a clock that    *)
(* has a fraction.                                                         *)
(***************************************************************************)
EXTENDS Integers, Sequences

CONSTANTS
    Users,
    NoOne,          \* "", or a target that could not be resolved
    None,           \* no rotation, no calendar
    Second,         \* ticks in a second
    Day,            \* ticks in a day
    MaxDuration,    \* the largest time.Duration, where at.Sub saturates
    CalendarDays,   \* days on the calendar page
    OverrideIds,    \* ids of overrides that may be drawn
    Rotations,      \* bound: the rotations an operator may submit
    MaxTime,        \* bound: when the clock stops
    MaxEdits        \* bound: edits in a behaviour

ASSUME OnCallAssumption ==
    /\ Second \in Nat \ {0}
    /\ Day \in Nat \ {0}
    /\ Day % Second = 0
    /\ MaxDuration \in Nat
    /\ CalendarDays \in Nat
    /\ Rotations \subseteq [type : {"daily", "weekly"}, start : Int, order : Seq(Users)]
    /\ MaxTime \in Nat
    /\ MaxEdits \in Nat
    /\ NoOne \notin Users
    /\ None \notin Rotations

VARIABLES
    clock,
    live,       \* the schedule has not been deleted
    rotation,   \* its row in schedule_rotations, or None
    duty,       \* history: whose turn the pager says it is, overrides aside
    overrides,  \* its rows in schedule_overrides
    page,       \* a schedule target being resolved
    seen,       \* history: who has been on call since that began
    calendar,   \* history: what the page said when last loaded, or None
    edits

vars == <<clock, live, rotation, duty, overrides, page, seen, calendar, edits>>

Instants == 0..MaxTime
Stamps   == {t \in Instants : t % Second = 0}   \* what a table can hold

Override == [id : OverrideIds, user : Users, start : Stamps, end : Stamps]

-----------------------------------------------------------------------------
(* Formatting an instant drops the fraction of its second. *)
Format(t) == t - (t % Second)

(* Mutation: compares the end with the end. *)
OverridesInRange_Inside(from, to) == {o \in overrides : o.start < to /\ o.end > to}

(* The rows the WHERE clause selects. *)
OverridesInRange(from, to) == {o \in overrides : o.start < to /\ o.end > from}

(* ORDER BY start_at: the row that comes first, or any of those that tie. *)
First(rows) == {o \in rows : \A p \in rows : o.start <= p.start}

Active(o, at) == o.start <= at /\ at < o.end

Period(rot) == IF rot.type = "daily" THEN Day ELSE 7 * Day

(* at.Sub(start): saturates, never wraps. *)
Elapsed(at, start) ==
    IF at - start > MaxDuration THEN MaxDuration
    ELSE IF at - start < -MaxDuration THEN -MaxDuration
    ELSE at - start

Unmanned(rot) == rot = None \/ rot.order = <<>>

(* Mutation: no clamp before the rotation's start, absolute value instead. *)
RotationUser_Mirrored(rot, at) ==
    IF Unmanned(rot) THEN NoOne
    ELSE LET e == Elapsed(at, rot.start)
             n == IF e < 0 THEN -e ELSE e
         IN  rot.order[1 + ((n \div Period(rot)) % Len(rot.order))]

(* Mutation: modulo one less than the length; the last on the list is spared. *)
RotationUser_LastSpared(rot, at) ==
    IF Unmanned(rot) THEN NoOne
    ELSE LET e == Elapsed(at, rot.start)
         IN  IF e < 0 THEN rot.order[1]
             ELSE rot.order[1 + ((e \div Period(rot)) % (Len(rot.order) - 1))]

(* The rotation's part of OnCallUserID. *)
RotationUser(rot, at) ==
    IF Unmanned(rot) THEN NoOne
    ELSE LET e == Elapsed(at, rot.start)
         IN  IF e < 0 THEN rot.order[1]
             ELSE rot.order[1 + ((e \div Period(rot)) % Len(rot.order))]

(* OnCallUserID given the rows in their order: an override active at the     *)
(* instant wins.  A set, because rows that start together come in any order. *)
OnCallUserID(rot, rows, at) ==
    LET active == {o \in rows : Active(o, at)}
    IN  IF active # {} THEN {o.user : o \in First(active)}
        ELSE {RotationUser(rot, at)}

(* Before its start the first shift is returned. *)
ShiftAt(rot, at) ==
    LET e     == Elapsed(at, rot.start)
        idx   == IF e >= 0 THEN e \div Period(rot) ELSE 0
        start == rot.start + idx * Period(rot)
    IN  [user  |-> rot.order[1 + (idx % Len(rot.order))],
         start |-> start,
         end   |-> start + Period(rot)]

(* Whoever the tables say is on call at the instant. *)
OnCallNow == OnCallUserID(rotation, overrides, clock)

-----------------------------------------------------------------------------
IdlePage == [pc |-> "idle", rot |-> None, at |-> 0, user |-> NoOne, quiet |-> TRUE]

Resolving == page.pc \in {"schedule", "rotation", "clock"}

(* Time passes; whoever is on call then has been, while a page is underway. *)
Pass ==
    /\ clock < MaxTime
    /\ clock' = clock + 1
    /\ duty' = RotationUser(rotation, clock + 1)
    /\ seen' = IF Resolving THEN seen \cup OnCallUserID(rotation, overrides, clock + 1) ELSE seen
    /\ UNCHANGED <<live, rotation, overrides, page, calendar, edits>>

(* resolveTargetUsers, one query or one look at the clock at a time.  A       *)
(* schedule that is gone is an error, and the target is skipped.             *)
ReadSchedule ==
    /\ page.pc = "idle"
    /\ page' = [page EXCEPT !.pc = IF live THEN "schedule" ELSE "done"]
    /\ seen' = OnCallNow
    /\ UNCHANGED <<clock, live, rotation, duty, overrides, calendar, edits>>

ReadRotation ==
    /\ page.pc = "schedule"
    /\ page' = [page EXCEPT !.pc = "rotation", !.rot = rotation]
    /\ UNCHANGED <<clock, live, rotation, duty, overrides, seen, calendar, edits>>

ReadClock ==
    /\ page.pc = "rotation"
    /\ page' = [page EXCEPT !.pc = "clock", !.at = clock]
    /\ UNCHANGED <<clock, live, rotation, duty, overrides, seen, calendar, edits>>

(* The overrides of the second that has begun, then OnCallUserID. *)
ReadOverrides ==
    /\ page.pc = "clock"
    /\ LET rows == OverridesInRange(Format(page.at), Format(page.at + Second))
       IN  \E u \in OnCallUserID(page.rot, rows, page.at) :
              page' = [page EXCEPT !.pc = "done", !.rot = None, !.at = 0, !.user = u]
    /\ UNCHANGED <<clock, live, rotation, duty, overrides, seen, calendar, edits>>

(* The user is paged, or the target skipped, and fireStep goes on. *)
Paged ==
    /\ page.pc = "done"
    /\ page' = IdlePage
    /\ seen' = {}
    /\ UNCHANGED <<clock, live, rotation, duty, overrides, calendar, edits>>

-----------------------------------------------------------------------------
(* Mutation: asks for the overrides of the instant, by a window that is empty. *)
CalendarDay_Instant(at) ==
    LET rows == OverridesInRange(Format(at), Format(at))
    IN  [at       |-> at,
         override |-> rows # {},
         users    |-> IF rows # {} THEN {o.user : o \in First(rows)}
                      ELSE {IF rotation.order = <<>> THEN NoOne ELSE ShiftAt(rotation, at).user}]

(* One row of the calendar: the shift of that day's instant, unless some     *)
(* override touches the 24 hours from it; then the first of those.           *)
CalendarDay(at) ==
    LET rows == OverridesInRange(Format(at), Format(at + Day))
    IN  [at       |-> at,
         override |-> rows # {},
         users    |-> IF rows # {} THEN {o.user : o \in First(rows)}
                      ELSE {IF rotation.order = <<>> THEN NoOne ELSE ShiftAt(rotation, at).user}]

(* The page is empty without a rotation. *)
LoadCalendar ==
    /\ rotation # None
    /\ calendar' = [d \in 0..(CalendarDays - 1) |-> CalendarDay(clock + d * Day)]
    /\ UNCHANGED <<clock, live, rotation, duty, overrides, page, seen, edits>>

-----------------------------------------------------------------------------
(* What operators do to the schedule.  An edit outdates the calendar, and    *)
(* disturbs a page that is underway.                                         *)
Edit ==
    /\ edits < MaxEdits
    /\ edits' = edits + 1
    /\ live
    /\ calendar' = None
    /\ page' = IF page.pc = "idle" THEN page ELSE [page EXCEPT !.quiet = FALSE]
    /\ seen' = {}
    /\ UNCHANGED clock

SetRotation(rot) ==
    /\ Edit
    /\ rotation' = rot
    /\ duty' = RotationUser(rot, clock)
    /\ UNCHANGED <<live, overrides>>

(* Mutation: the form's end is not compared with its start. *)
AddOverride_Unchecked(o) ==
    /\ Edit
    /\ \A p \in overrides : p.id # o.id
    /\ overrides' = overrides \cup {o}
    /\ UNCHANGED <<live, rotation, duty>>

AddOverride(o) ==
    /\ Edit
    /\ o.end > o.start
    /\ \A p \in overrides : p.id # o.id
    /\ overrides' = overrides \cup {o}
    /\ UNCHANGED <<live, rotation, duty>>

DeleteOverride(o) ==
    /\ Edit
    /\ overrides' = overrides \ {o}
    /\ UNCHANGED <<live, rotation, duty>>

(* Rotation and overrides go with it; steps that target it stay. *)
DeleteSchedule ==
    /\ Edit
    /\ live' = FALSE
    /\ rotation' = None
    /\ duty' = NoOne
    /\ overrides' = {}

-----------------------------------------------------------------------------
(* A schedule somebody has created, and maybe given a rotation. *)
Init ==
    /\ clock = 0
    /\ live = TRUE
    /\ rotation \in Rotations \cup {None}
    /\ duty = RotationUser(rotation, clock)
    /\ overrides = {}
    /\ page = IdlePage
    /\ seen = {}
    /\ calendar = None
    /\ edits = 0

Resolve == ReadSchedule \/ ReadRotation \/ ReadClock \/ ReadOverrides \/ Paged

Next ==
    \/ Pass
    \/ Resolve
    \/ LoadCalendar
    \/ \E rot \in Rotations : SetRotation(rot)
    \/ \E o \in Override : AddOverride(o)
    \/ \E o \in overrides : DeleteOverride(o)
    \/ DeleteSchedule

Spec == Init /\ [][Next]_vars

-----------------------------------------------------------------------------
(* Types; an override is never empty, since the handler refuses one whose    *)
(* end is not after its start, and ids are unique.                           *)
TypeOK ==
    /\ clock \in Instants
    /\ live \in BOOLEAN
    /\ duty \in Users \cup {NoOne}
    /\ rotation \in Rotations \cup {None}
    /\ overrides \subseteq {o \in Override : o.start < o.end}
    /\ \A o, p \in overrides : o.id = p.id => o = p
    /\ page \in [pc : {"idle", "schedule", "rotation", "clock", "done"},
                 rot : Rotations \cup {None}, at : Instants,
                 user : Users \cup {NoOne}, quiet : BOOLEAN]
    /\ edits \in 0..MaxEdits

(* "resolved to whoever is on call at fire time": although the rotation, the *)
(* clock and the overrides are read one after the other, and the overrides   *)
(* by a window cut to whole seconds, the user paged was on call at some      *)
(* moment of it, unless the schedule was edited in between.                  *)
PagedWasOnCall == page.pc = "done" /\ page.quiet => page.user \in seen

(* Until somebody edits the schedule the calendar keeps its word: at the     *)
(* instant of an unmarked day the pager picks whom it names, and on a day    *)
(* marked as an override whom it names does get on call within that day.     *)
CalendarTruthful ==
    calendar # None => \A d \in DOMAIN calendar :
        LET e == calendar[d]
        IN  IF e.override
            THEN \E t \in e.at..(e.at + Day - 1) :
                    e.users \cap OnCallUserID(rotation, overrides, t) # {}
            ELSE OnCallUserID(rotation, overrides, e.at) = e.users

(* The pager hands over exactly when the shift that the calendar shows ends, *)
(* and never within it, from before the rotation's start on.                 *)
HandoverOnTime ==
    [][ /\ ~Unmanned(rotation) /\ rotation' = rotation /\ duty' # duty
        => clock' = ShiftAt(rotation, clock).end ]_vars

(* Nobody is skipped and nobody gets two turns: whoever takes over when a    *)
(* shift ends is next in user_order, until time.Duration saturates.          *)
TurnsInOrder ==
    [][ /\ ~Unmanned(rotation) /\ rotation' = rotation
        /\ clock' = ShiftAt(rotation, clock).end
        /\ rotation.start <= clock /\ clock' - rotation.start <= MaxDuration
        => LET n == Len(rotation.order)
           IN  \E i \in 1..n : /\ duty = rotation.order[i]
                               /\ duty' = rotation.order[1 + (i % n)] ]_vars
=============================================================================
