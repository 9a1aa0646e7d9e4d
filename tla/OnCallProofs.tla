---------------------------- MODULE OnCallProofs ----------------------------
(***************************************************************************)
(* Proofs about OnCall for any number of users and overrides, any rotation *)
(* and any length of a second and of a day: the pager finds who is on call *)
(* although it asks for a window of whole seconds, the calendar agrees     *)
(* with it, and the two agree on when a shift ends.                        *)
(***************************************************************************)
EXTENDS OnCall, WellFoundedInduction, TLAPS

-----------------------------------------------------------------------------
(* Division, as the provers need it told. *)

LEMMA DivMod ==
    ASSUME NEW n \in Nat \ {0}, NEW x \in Int
    PROVE  /\ x \div n \in Int
           /\ x % n \in 0..(n - 1)
           /\ x = n * (x \div n) + (x % n)
BY SMT

(* The quotient is the only whole number of times that fits. *)
LEMMA DivUnique ==
    ASSUME NEW n \in Nat \ {0}, NEW x \in Int, NEW q \in Int,
           n * q <= x, x < n * q + n
    PROVE  x \div n = q
BY DivMod, SMT

LEMMA ProductInt ==
    ASSUME NEW a \in Int, NEW b \in Int
    PROVE  a * b \in Int
BY SMT

LEMMA ZeroMod ==
    ASSUME NEW n \in Nat \ {0}
    PROVE  0 % n = 0
<1>1. n * 0 = 0 /\ 0 \in Int /\ n \in Int /\ n > 0
  BY SMT
<1>2. n * 0 <= 0 /\ 0 < n * 0 + n
  BY <1>1, SMT
<1>3. 0 \div n = 0
  BY <1>1, <1>2, DivUnique
<1>4. 0 = n * (0 \div n) + (0 % n) /\ 0 % n \in Int
  BY DivMod
<1>5. 0 = 0 + (0 % n)
  BY <1>1, <1>3, <1>4
<1> QED BY <1>4, <1>5, SMT

LEMMA NextMultiple ==
    ASSUME NEW n \in Nat \ {0}, NEW a \in Int, NEW b \in Int, a < b
    PROVE  n * a + n <= n * b
BY SMT

LEMMA LeastBelow ==
    ASSUME NEW R, IsWellFoundedOn(R, Nat),
           \A x, y \in Nat : <<y, x>> \in R <=> y < x,
           NEW T \in SUBSET Nat, T # {}
    PROVE  \E x \in T : \A y \in T : x <= y
<1>1. \E x \in T : \A y \in T : ~(<<y, x>> \in R)
  BY WFMin
<1>2. PICK x \in T : \A y \in T : ~(<<y, x>> \in R)
  BY <1>1
<1>3. ASSUME NEW y \in T PROVE x <= y
  <2>1. ~(<<y, x>> \in R) /\ x \in Nat /\ y \in Nat
    BY <1>2
  <2>2. ~(y < x)
    BY <2>1, Zenon
  <2> QED BY <2>1, <2>2, SMT
<1> QED
  BY <1>3

(* Every nonempty set of naturals has a least element. *)
LEMMA Least ==
    ASSUME NEW T \in SUBSET Nat, T # {}
    PROVE  \E x \in T : \A y \in T : x <= y
<1> DEFINE R == OpToRel(<, Nat)
<1>1. IsWellFoundedOn(R, Nat)
  BY NatLessThanWellFounded
<1>2. \A x, y \in Nat : <<y, x>> \in R <=> y < x
  BY DEF OpToRel
<1> HIDE DEF R
<1> QED
  BY <1>1, <1>2, LeastBelow, Zenon

-----------------------------------------------------------------------------
(* Formatting and the window of the query. *)

(* Cutting an instant to its second does not move it across a whole second. *)
LEMMA FormatCuts ==
    ASSUME NEW t \in Int, NEW s \in Int, s % Second = 0
    PROVE  /\ Format(t) \in Int
           /\ Format(t) <= t /\ t < Format(t) + Second
           /\ s <= t <=> s <= Format(t)
           /\ s <= t <=> s < Format(t) + Second
<1> USE OnCallAssumption
<1> DEFINE q == t \div Second
           k == s \div Second
<1>1. /\ q \in Int /\ t % Second \in 0..(Second - 1) /\ t = Second * q + (t % Second)
  BY DivMod
<1>2. k \in Int /\ s = Second * k
  BY DivMod, SMT
<1>3. Format(t) = Second * q
  BY <1>1, SMT DEF Format
<1>4. Second * q \in Int /\ Second * k \in Int
  BY <1>1, <1>2, SMT
<1> HIDE DEF q, k
<1>5. CASE k <= q
  <2>1. Second * k <= Second * q
    <3>1. CASE k = q
      BY <3>1, <1>4, SMT
    <3>2. CASE k < q
      BY <3>2, NextMultiple, <1>1, <1>2, <1>4, SMT
    <3> QED BY <3>1, <3>2, <1>5, <1>1, <1>2, SMT
  <2> QED BY <2>1, <1>1, <1>2, <1>3, <1>4, SMT
<1>6. CASE q < k
  <2>1. Second * q + Second <= Second * k
    BY <1>6, NextMultiple, <1>1, <1>2
  <2> QED BY <2>1, <1>1, <1>2, <1>3, <1>4, SMT
<1> QED BY <1>5, <1>6, <1>1, <1>2, SMT

(* A window that ends a number of whole seconds later is cut as its start. *)
LEMMA FormatShift ==
    ASSUME NEW t \in Int, NEW d \in Int, d % Second = 0
    PROVE  Format(t + d) = Format(t) + d
<1> USE OnCallAssumption
<1> DEFINE q == t \div Second
           k == d \div Second
<1>1. /\ q \in Int /\ t % Second \in 0..(Second - 1) /\ t = Second * q + (t % Second)
  BY DivMod
<1>2. k \in Int /\ d = Second * k
  BY DivMod, SMT
<1>3. Second * (q + k) = Second * q + Second * k
  BY <1>1, <1>2, SMT
<1>4. /\ t + d \in Int /\ q + k \in Int
      /\ Second * q \in Int /\ Second * k \in Int /\ Second * (q + k) \in Int
  BY <1>1, <1>2, SMT
<1>5. /\ Second * (q + k) <= t + d
      /\ t + d < Second * (q + k) + Second
  <2> HIDE DEF q, k
  <2> QED BY <1>1, <1>2, <1>3, <1>4, SMT
<1>6. (t + d) \div Second = q + k
  <2> HIDE DEF q, k
  <2> QED BY <1>4, <1>5, DivUnique
<1>7. t + d = Second * ((t + d) \div Second) + ((t + d) % Second) /\ (t + d) % Second \in Int
  BY DivMod, <1>4
<1> HIDE DEF q, k
<1>8. t + d = Second * (q + k) + ((t + d) % Second)
  BY <1>6, <1>7
<1> DEFINE m == (t + d) % Second
           n == t % Second
<1>9. Format(t + d) = t + d - m /\ Format(t) = t - n
  BY DEF Format
<1>10. m \in Int /\ n \in Int /\ t + d = Second * (q + k) + m /\ t = Second * q + n
  BY <1>1, <1>7, <1>8
<1> HIDE DEF m, n
<1> QED BY <1>1, <1>2, <1>3, <1>4, <1>9, <1>10, SMT

-----------------------------------------------------------------------------
(* The window. *)

(* What the pager's query returns holds every override active at the instant *)
(* it asks for: the window cut to whole seconds misses none.                 *)
LEMMA WindowFindsActive ==
    ASSUME TypeOK, NEW t \in Int
    PROVE  {o \in OverridesInRange(Format(t), Format(t + Second)) : Active(o, t)}
              = {o \in overrides : Active(o, t)}
<1> USE OnCallAssumption
<1>1. Format(t + Second) = Format(t) + Second
  <2>1. Second \in Int /\ Second % Second = 0
    BY SMT
  <2> QED BY <2>1, FormatShift
<1>2. ASSUME NEW o \in overrides, Active(o, t)
      PROVE  o.start < Format(t + Second) /\ o.end > Format(t)
  <2>1. /\ o.start \in Int /\ o.end \in Int
        /\ o.start % Second = 0 /\ o.end % Second = 0
    BY DEF TypeOK, Override, Stamps, Instants
  <2>2. o.start <= t /\ t < o.end
    BY <1>2 DEF Active
  <2>3. /\ Format(t) \in Int
        /\ o.start <= t <=> o.start < Format(t) + Second
        /\ o.end <= t <=> o.end <= Format(t)
    BY <2>1, FormatCuts
  <2> QED BY <2>1, <2>2, <2>3, <1>1
<1> QED
  BY <1>2 DEF OverridesInRange

(* So the pager resolves what all the overrides would have resolved to. *)
LEMMA WindowEnough ==
    ASSUME TypeOK, NEW t \in Int, NEW rot
    PROVE  OnCallUserID(rot, OverridesInRange(Format(t), Format(t + Second)), t)
              = OnCallUserID(rot, overrides, t)
BY WindowFindsActive, Zenon DEF OnCallUserID

-----------------------------------------------------------------------------
(* Types. *)

LEMMA DivBounds ==
    ASSUME NEW n \in Nat \ {0}, NEW x \in Nat
    PROVE  x \div n \in Nat /\ x \div n \in Int
BY SMT

(* The rotation names one of its users, or nobody. *)
LEMMA RotationUserType ==
    ASSUME NEW rot \in Rotations \cup {None}, NEW t \in Int
    PROVE  RotationUser(rot, t) \in Users \cup {NoOne}
<1> USE OnCallAssumption
<1>1. CASE Unmanned(rot)
  BY <1>1 DEF RotationUser
<1>2. CASE ~Unmanned(rot)
  <2>1. /\ rot \in [type : {"daily", "weekly"}, start : Int, order : Seq(Users)]
        /\ rot.start \in Int /\ rot.order \in Seq(Users) /\ rot.order # <<>>
    BY <1>2 DEF Unmanned
  <2>2. Len(rot.order) \in Nat \ {0}
    BY <2>1
  <2>3. Elapsed(t, rot.start) \in Int
    BY <2>1 DEF Elapsed
  <2>4. Period(rot) \in Nat \ {0}
    BY DEF Period
  <2> DEFINE e == Elapsed(t, rot.start)
             q == e \div Period(rot)
             i == q % Len(rot.order)
  <2>5. q \in Int
    BY <2>3, <2>4, DivMod
  <2>6. i \in 0..(Len(rot.order) - 1)
    <3> HIDE DEF q
    <3> QED BY <2>5, <2>2, DivMod
  <2>7. 1 \in 1..Len(rot.order) /\ 1 + i \in 1..Len(rot.order)
    <3> HIDE DEF i
    <3> QED BY <2>2, <2>6
  <2>8. rot.order[1] \in Users /\ rot.order[1 + i] \in Users
    <3> HIDE DEF i
    <3> QED BY <2>1, <2>7
  <2>9. RotationUser(rot, t) = IF e < 0 THEN rot.order[1] ELSE rot.order[1 + i]
    BY <1>2 DEF RotationUser
  <2> QED BY <2>8, <2>9
<1> QED BY <1>1, <1>2

LEMMA OnCallUserIDType ==
    ASSUME TypeOK, NEW rot \in Rotations \cup {None}, NEW rows \in SUBSET overrides, NEW t \in Int
    PROVE  OnCallUserID(rot, rows, t) \subseteq Users \cup {NoOne}
<1>1. RotationUser(rot, t) \in Users \cup {NoOne}
  BY RotationUserType
<1>2. \A o \in rows : o.user \in Users
  BY DEF TypeOK, Override
<1>3. \A S : First(S) \subseteq S
  BY DEF First
<1> QED BY <1>1, <1>2, <1>3 DEF OnCallUserID

LEMMA TypeInit == Init => TypeOK
<1> SUFFICES ASSUME Init PROVE TypeOK
  OBVIOUS
<1> USE OnCallAssumption
<1>1. RotationUser(rotation, clock) \in Users \cup {NoOne}
  BY RotationUserType DEF Init
<1> QED
  BY <1>1 DEF Init, TypeOK, IdlePage, Instants

LEMMA TypeNext == TypeOK /\ [Next]_vars => TypeOK'
<1> SUFFICES ASSUME TypeOK, [Next]_vars PROVE TypeOK'
  OBVIOUS
<1> USE OnCallAssumption
<1>0. clock \in Int /\ page.at \in Int /\ 0 \in Instants
  BY DEF TypeOK, Instants
<1>1. CASE Pass
  <2>1. clock + 1 \in Instants /\ clock + 1 \in Int
    BY <1>1 DEF Pass, TypeOK, Instants
  <2>2. RotationUser(rotation, clock + 1) \in Users \cup {NoOne}
    BY <2>1, RotationUserType DEF TypeOK
  <2> QED BY <1>1, <2>1, <2>2 DEF Pass, TypeOK
<1>2. CASE ReadSchedule
  BY <1>2 DEF ReadSchedule, TypeOK
<1>3. CASE ReadRotation
  BY <1>3 DEF ReadRotation, TypeOK
<1>4. CASE ReadClock
  BY <1>4 DEF ReadClock, TypeOK
<1>5. CASE ReadOverrides
  <2> DEFINE rows == OverridesInRange(Format(page.at), Format(page.at + Second))
  <2>1. rows \in SUBSET overrides /\ page.rot \in Rotations \cup {None}
    BY DEF OverridesInRange, TypeOK
  <2>2. OnCallUserID(page.rot, rows, page.at) \subseteq Users \cup {NoOne}
    <3> HIDE DEF rows
    <3> QED BY <2>1, <1>0, OnCallUserIDType
  <2>3. PICK u \in OnCallUserID(page.rot, rows, page.at) :
           page' = [page EXCEPT !.pc = "done", !.rot = None, !.at = 0, !.user = u]
    BY <1>5 DEF ReadOverrides
  <2>4. u \in Users \cup {NoOne}
    BY <2>2
  <2> HIDE DEF rows
  <2> QED BY <1>5, <2>3, <2>4, <1>0 DEF ReadOverrides, TypeOK
<1>6. CASE Paged
  BY <1>6, <1>0 DEF Paged, TypeOK, IdlePage
<1>7. CASE LoadCalendar
  BY <1>7 DEF LoadCalendar, TypeOK
<1>edit. ASSUME Edit
         PROVE  /\ clock' \in Instants /\ edits' \in 0..MaxEdits
                /\ page' \in [pc : {"idle", "schedule", "rotation", "clock", "done"},
                              rot : Rotations \cup {None}, at : Instants,
                              user : Users \cup {NoOne}, quiet : BOOLEAN]
  <2>1. edits' \in 0..MaxEdits /\ clock' \in Instants
    BY <1>edit DEF Edit, TypeOK
  <2>2. page' = page \/ page' = [page EXCEPT !.quiet = FALSE]
    BY <1>edit DEF Edit
  <2> QED BY <2>1, <2>2 DEF TypeOK
<1>8. ASSUME NEW rot \in Rotations, SetRotation(rot) PROVE TypeOK'
  <2>1. RotationUser(rot, clock) \in Users \cup {NoOne}
    BY <1>0, RotationUserType
  <2>2. Edit
    BY <1>8 DEF SetRotation
  <2> QED BY <1>8, <2>1, <2>2, <1>edit DEF SetRotation, TypeOK
<1>9. ASSUME NEW o \in Override, AddOverride(o) PROVE TypeOK'
  <2>1. o.start < o.end
    BY <1>9 DEF AddOverride, Override, Stamps, Instants
  <2>2. overrides' \subseteq {p \in Override : p.start < p.end}
    BY <1>9, <2>1 DEF AddOverride, TypeOK
  <2>3. \A p, q \in overrides' : p.id = q.id => p = q
    BY <1>9 DEF AddOverride, TypeOK
  <2>4. Edit
    BY <1>9 DEF AddOverride
  <2> QED BY <1>9, <2>2, <2>3, <2>4, <1>edit DEF AddOverride, TypeOK
<1>10. ASSUME NEW o \in overrides, DeleteOverride(o) PROVE TypeOK'
  <2>1. Edit
    BY <1>10 DEF DeleteOverride
  <2> QED BY <1>10, <2>1, <1>edit DEF DeleteOverride, TypeOK
<1>11. CASE DeleteSchedule
  <2>1. Edit
    BY <1>11 DEF DeleteSchedule
  <2> QED BY <1>11, <2>1, <1>edit DEF DeleteSchedule, TypeOK
<1>12. CASE UNCHANGED vars
  BY <1>12 DEF vars, TypeOK
<1> QED
  BY <1>1, <1>2, <1>3, <1>4, <1>5, <1>6, <1>7, <1>8, <1>9, <1>10, <1>11, <1>12
  DEF Next, Resolve

(* Types, for every schedule: no override is empty and no two share an id,   *)
(* and whoever is resolved is one of the users or nobody.                    *)
THEOREM OnCallTypes == Spec => []TypeOK
BY TypeInit, TypeNext, PTL DEF Spec

-----------------------------------------------------------------------------
(* The page. *)

(* What holds of a page at each stage, as long as nobody edits the schedule. *)
PageInv ==
    /\ page.pc = "idle" => page = IdlePage
    /\ ~live => rotation = None /\ overrides = {}
    /\ page.quiet =>
        /\ Resolving => OnCallNow \subseteq seen
        /\ page.pc \in {"rotation", "clock"} => page.rot = rotation
        /\ page.pc = "clock" => OnCallUserID(rotation, overrides, page.at) \subseteq seen
        /\ page.pc = "done" => page.user \in seen

LEMMA PageInit == Init => PageInv
BY DEF Init, PageInv, IdlePage, Resolving

LEMMA PageNext == TypeOK /\ PageInv /\ [Next]_vars => PageInv'
<1> SUFFICES ASSUME TypeOK, PageInv, [Next]_vars PROVE PageInv'
  OBVIOUS
<1> USE OnCallAssumption
<1>0. clock \in Int /\ page.at \in Int
  BY DEF TypeOK, Instants
<1>1. CASE Pass
  BY <1>1 DEF Pass, PageInv, Resolving, OnCallNow, IdlePage
<1>2. CASE ReadSchedule
  <2>1. ~live => OnCallNow = {NoOne}
    BY DEF PageInv, OnCallNow, OnCallUserID, RotationUser, Unmanned
  <2>2. page = IdlePage
    BY <1>2 DEF ReadSchedule, PageInv
  <2>3. page'.pc # "idle" /\ page'.user = NoOne
        /\ page'.pc = IF live THEN "schedule" ELSE "done"
    BY <1>2, <2>2 DEF ReadSchedule, IdlePage
  <2>4. OnCallNow' = OnCallNow /\ seen' = OnCallNow
    BY <1>2 DEF ReadSchedule, OnCallNow
  <2> QED BY <1>2, <2>1, <2>3, <2>4 DEF ReadSchedule, PageInv
<1>3. CASE ReadRotation
  BY <1>3 DEF ReadRotation, PageInv, Resolving, OnCallNow, TypeOK
<1>4. CASE ReadClock
  BY <1>4 DEF ReadClock, PageInv, Resolving, OnCallNow, TypeOK
<1>5. CASE ReadOverrides
  <2> DEFINE rows == OverridesInRange(Format(page.at), Format(page.at + Second))
  <2>1. OnCallUserID(page.rot, rows, page.at) = OnCallUserID(page.rot, overrides, page.at)
    BY <1>0, WindowEnough
  <2>2. PICK u \in OnCallUserID(page.rot, rows, page.at) :
           page' = [page EXCEPT !.pc = "done", !.rot = None, !.at = 0, !.user = u]
    BY <1>5 DEF ReadOverrides
  <2>3. page'.pc = "done" /\ page'.user = u /\ page'.quiet = page.quiet
    BY <2>2 DEF TypeOK
  <2>4. page.quiet => u \in seen
    BY <1>5, <2>1, <2>2 DEF ReadOverrides, PageInv
  <2> HIDE DEF rows
  <2> QED BY <1>5, <2>3, <2>4 DEF ReadOverrides, PageInv, Resolving
<1>6. CASE Paged
  BY <1>6 DEF Paged, PageInv, IdlePage, Resolving
<1>7. CASE LoadCalendar
  BY <1>7 DEF LoadCalendar, PageInv, Resolving, OnCallNow, IdlePage
<1>8. ASSUME Edit, live' => live,
             ~live' => rotation' = None /\ overrides' = {}
      PROVE  PageInv'
  <2>1. CASE page.pc = "idle"
    BY <1>8, <2>1 DEF Edit, PageInv, IdlePage, Resolving
  <2>2. CASE page.pc # "idle"
    <3>1. page' = [page EXCEPT !.quiet = FALSE]
      BY <1>8, <2>2 DEF Edit
    <3>2. page'.pc = page.pc /\ page'.quiet = FALSE
      BY <3>1 DEF TypeOK
    <3> QED BY <1>8, <2>2, <3>2 DEF PageInv
  <2> QED BY <2>1, <2>2
<1>9. ASSUME NEW rot \in Rotations, SetRotation(rot) PROVE PageInv'
  BY <1>8, <1>9 DEF SetRotation, Edit
<1>10. ASSUME NEW o \in Override, AddOverride(o) PROVE PageInv'
  BY <1>8, <1>10 DEF AddOverride, Edit
<1>11. ASSUME NEW o \in overrides, DeleteOverride(o) PROVE PageInv'
  BY <1>8, <1>11 DEF DeleteOverride, Edit
<1>12. CASE DeleteSchedule
  BY <1>8, <1>12 DEF DeleteSchedule, Edit
<1>13. CASE UNCHANGED vars
  BY <1>13 DEF vars, PageInv, Resolving, OnCallNow, IdlePage
<1> QED
  BY <1>1, <1>2, <1>3, <1>4, <1>5, <1>6, <1>7, <1>9, <1>10, <1>11, <1>12, <1>13
  DEF Next, Resolve

(* A page that no edit disturbs goes to a user who was on call at some       *)
(* moment of its resolution, whatever the rotation, the overrides and the    *)
(* point within a second at which the pager looks at the clock.              *)
THEOREM PageReachesOnCall == Spec => []PagedWasOnCall
<1>1. PageInv => PagedWasOnCall
  BY DEF PageInv, PagedWasOnCall
<1> QED
  BY <1>1, TypeInit, TypeNext, PageInit, PageNext, PTL DEF Spec

-----------------------------------------------------------------------------
(* The calendar. *)

(* What CalendarTruthful says of one day of the page. *)
DayTruthful(e) ==
    IF e.override
    THEN \E t \in e.at..(e.at + Day - 1) :
            e.users \cap OnCallUserID(rotation, overrides, t) # {}
    ELSE OnCallUserID(rotation, overrides, e.at) = e.users

(* ORDER BY start_at puts some row first. *)
LEMMA FirstExists ==
    ASSUME TypeOK, NEW rows \in SUBSET overrides, rows # {}
    PROVE  First(rows) # {}
<1> DEFINE T == {o.start : o \in rows}
<1>1. T \in SUBSET Nat /\ T # {}
  BY DEF TypeOK, Override, Stamps, Instants
<1>2. PICK x \in T : \A y \in T : x <= y
  <2> HIDE DEF T
  <2> QED BY <1>1, Least
<1>3. PICK o \in rows : x = o.start
  BY <1>2
<1>4. o \in First(rows)
  BY <1>2, <1>3 DEF First
<1> QED BY <1>4

(* The shift on the calendar belongs to whom the pager picks. *)
LEMMA ShiftIsRotationUser ==
    ASSUME NEW rot \in Rotations, rot.order # <<>>, NEW t \in Int
    PROVE  ShiftAt(rot, t).user = RotationUser(rot, t)
<1> USE OnCallAssumption
<1>1. ~Unmanned(rot)
  BY DEF Unmanned
<1>2. Len(rot.order) \in Nat \ {0}
  BY DEF Unmanned
<1>3. 0 % Len(rot.order) = 0
  BY <1>2, ZeroMod
<1> DEFINE e == Elapsed(t, rot.start)
<1>4. e \in Int
  BY DEF Elapsed
<1>5. RotationUser(rot, t) = IF e < 0 THEN rot.order[1]
                             ELSE rot.order[1 + ((e \div Period(rot)) % Len(rot.order))]
  BY <1>1 DEF RotationUser
<1>6. ShiftAt(rot, t).user =
         rot.order[1 + ((IF e >= 0 THEN e \div Period(rot) ELSE 0) % Len(rot.order))]
  BY DEF ShiftAt
<1> HIDE DEF e
<1>7. CASE e < 0
  BY <1>3, <1>4, <1>5, <1>6, <1>7
<1>8. CASE e >= 0
  BY <1>4, <1>5, <1>6, <1>8
<1> QED BY <1>4, <1>7, <1>8

(* A day on the page is true of the tables it is computed from. *)
LEMMA CalendarDayTruthful ==
    ASSUME TypeOK, rotation # None, NEW at \in Int
    PROVE  DayTruthful(CalendarDay(at))
<1> USE OnCallAssumption
<1> DEFINE rows == OverridesInRange(Format(at), Format(at + Day))
           day  == CalendarDay(at)
<1>1. Format(at + Day) = Format(at) + Day
  <2>1. Day \in Int /\ Day % Second = 0
    BY SMT
  <2> QED BY <2>1, FormatShift
<1>2. rows = {o \in overrides : o.start < Format(at) + Day /\ o.end > Format(at)}
  BY <1>1 DEF OverridesInRange
<1>3. ASSUME NEW o \in overrides
      PROVE  /\ o.start \in Int /\ o.end \in Int /\ o.start < o.end
             /\ Format(at) \in Int /\ Format(at) <= at
             /\ o.start <= at <=> o.start <= Format(at)
             /\ o.end <= at <=> o.end <= Format(at)
  <2>1. /\ o.start \in Int /\ o.end \in Int /\ o.start < o.end
        /\ o.start % Second = 0 /\ o.end % Second = 0
    BY DEF TypeOK, Override, Stamps, Instants
  <2> QED BY <2>1, FormatCuts
<1>4. rotation \in Rotations
  BY DEF TypeOK
<1>5. /\ day.at = at
      /\ day.override = (rows # {})
      /\ rows # {} => day.users = {o.user : o \in First(rows)}
      /\ rows = {} => day.users = {IF rotation.order = <<>> THEN NoOne
                                   ELSE ShiftAt(rotation, at).user}
  BY DEF CalendarDay
<1> HIDE DEF rows, day
<1>6. CASE rows = {}
  <2>1. \A o \in overrides : ~Active(o, at)
    <3> SUFFICES ASSUME NEW o \in overrides, Active(o, at) PROVE FALSE
      OBVIOUS
    <3>1. o.start < Format(at) + Day /\ o.end > Format(at)
      BY <1>3 DEF Active
    <3> QED BY <3>1, <1>2, <1>6
  <2>2. OnCallUserID(rotation, overrides, at) = {RotationUser(rotation, at)}
    BY <2>1 DEF OnCallUserID
  <2>3. day.users = {RotationUser(rotation, at)}
    <3>1. CASE rotation.order = <<>>
      BY <3>1, <1>5, <1>6 DEF RotationUser, Unmanned
    <3>2. CASE rotation.order # <<>>
      BY <3>2, <1>4, <1>5, <1>6, ShiftIsRotationUser
    <3> QED BY <3>1, <3>2
  <2> QED BY <1>5, <1>6, <2>2, <2>3 DEF DayTruthful, day
<1>7. CASE rows # {}
  <2>1. PICK f : f \in First(rows)
    <3>1. rows \in SUBSET overrides
      BY <1>2
    <3> QED BY <3>1, <1>7, FirstExists
  <2>2. /\ f \in overrides
        /\ f.start < Format(at) + Day /\ f.end > Format(at)
        /\ \A p \in rows : f.start <= p.start
    BY <2>1, <1>2 DEF First
  <2> DEFINE t == IF at < f.start THEN f.start ELSE at
  <2>3. /\ t \in at..(at + Day - 1) /\ t \in Int /\ at <= t
        /\ Active(f, t)
    BY <2>2, <1>3 DEF Active
  <2> HIDE DEF t
  <2>4. ASSUME NEW p \in overrides, Active(p, t) PROVE f.start <= p.start
    <3>1. p.end > Format(at)
      BY <2>3, <2>4, <1>3 DEF Active
    <3>2. CASE p.start < Format(at) + Day
      BY <3>1, <3>2, <1>2, <2>2
    <3>3. CASE ~(p.start < Format(at) + Day)
      BY <3>3, <2>2, <1>3
    <3> QED BY <3>2, <3>3
  <2>5. f \in First({o \in overrides : Active(o, t)})
    BY <2>2, <2>3, <2>4 DEF First
  <2>6. f.user \in OnCallUserID(rotation, overrides, t)
    BY <2>2, <2>3, <2>5 DEF OnCallUserID
  <2>7. f.user \in day.users
    BY <1>5, <1>7, <2>1
  <2> QED BY <1>5, <1>7, <2>3, <2>6, <2>7 DEF DayTruthful, day
<1> QED BY <1>6, <1>7

LEMMA CalendarNext == TypeOK /\ CalendarTruthful /\ [Next]_vars => CalendarTruthful'
<1> SUFFICES ASSUME TypeOK, CalendarTruthful, [Next]_vars PROVE CalendarTruthful'
  OBVIOUS
<1> USE OnCallAssumption
<1>1. CASE UNCHANGED <<calendar, rotation, overrides>>
  <2>1. calendar' = calendar /\ rotation' = rotation /\ overrides' = overrides
    BY <1>1
  <2> QED BY <2>1, Zenon DEF CalendarTruthful, OnCallUserID
<1>2. CASE Edit
  BY <1>2 DEF Edit, CalendarTruthful
<1>3. CASE LoadCalendar
  <2>1. \A d \in 0..(CalendarDays - 1) : clock + d * Day \in Int
    BY DEF TypeOK, Instants
  <2>2. \A d \in 0..(CalendarDays - 1) : DayTruthful(CalendarDay(clock + d * Day))
    BY <1>3, <2>1, CalendarDayTruthful DEF LoadCalendar
  <2>3. \A d \in DOMAIN calendar' : DayTruthful(calendar'[d])
    BY <1>3, <2>2 DEF LoadCalendar
  <2>4. rotation' = rotation /\ overrides' = overrides
    BY <1>3 DEF LoadCalendar
  <2> QED BY <2>3, <2>4, Zenon DEF CalendarTruthful, DayTruthful, OnCallUserID
<1>4. CASE Pass
  BY <1>1, <1>4 DEF Pass
<1>5. CASE Resolve
  BY <1>1, <1>5 DEF Resolve, ReadSchedule, ReadRotation, ReadClock, ReadOverrides, Paged
<1>6. CASE UNCHANGED vars
  BY <1>1, <1>6 DEF vars
<1> QED
  BY <1>2, <1>3, <1>4, <1>5, <1>6 DEF Next, SetRotation, AddOverride, DeleteOverride,
     DeleteSchedule

(* The calendar agrees with the pager, for every schedule and every moment   *)
(* at which the page is loaded, though the two compute the shift and select  *)
(* the overrides each in their own way.                                      *)
THEOREM CalendarKeepsItsWord == Spec => []CalendarTruthful
<1>1. Init => CalendarTruthful
  BY DEF Init, CalendarTruthful
<1> QED
  BY <1>1, TypeInit, TypeNext, CalendarNext, PTL DEF Spec

-----------------------------------------------------------------------------
(* Turns. *)

(* A quotient and a remainder that fit are the quotient and the remainder. *)
LEMMA ModUnique ==
    ASSUME NEW n \in Nat \ {0}, NEW x \in Int, NEW q \in Int, NEW r \in 0..(n - 1),
           x = n * q + r
    PROVE  x \div n = q /\ x % n = r
<1>1. n * q \in Int
  BY SMT
<1>2. n * q <= x /\ x < n * q + n
  BY <1>1, SMT
<1>3. x \div n = q
  BY <1>2, DivUnique
<1>4. x = n * (x \div n) + (x % n) /\ x % n \in Int
  BY DivMod
<1>5. x = n * q + (x % n)
  BY <1>3, <1>4
<1> QED BY <1>1, <1>3, <1>4, <1>5, SMT

(* Counting on modulo n comes to the same whether one reduces before or after. *)
LEMMA ModSucc ==
    ASSUME NEW n \in Nat \ {0}, NEW x \in Int
    PROVE  (x + 1) % n = ((x % n) + 1) % n
<1> DEFINE k == x \div n
           r == x % n
<1>1. k \in Int /\ r \in 0..(n - 1) /\ x = n * k + r
  BY DivMod
<1> HIDE DEF k, r
<1>2. n * k \in Int
  BY <1>1, SMT
<1>3. CASE r + 1 < n
  <2>1. r + 1 \in 0..(n - 1) /\ x + 1 \in Int /\ x + 1 = n * k + (r + 1)
    BY <1>1, <1>2, <1>3, SMT
  <2>2. (x + 1) % n = r + 1
    BY <1>1, <2>1, ModUnique
  <2>3. n * 0 = 0
    BY SMT
  <2>4. r + 1 \in Int /\ r + 1 = n * 0 + (r + 1)
    BY <2>1, <2>3, SMT
  <2>5. (r + 1) % n = r + 1
    BY <2>1, <2>4, ModUnique
  <2> QED BY <2>2, <2>5 DEF r
<1>4. CASE r + 1 = n
  <2>1. n * (k + 1) = n * k + n /\ n * 1 = n
    BY <1>1, SMT
  <2>2. /\ 0 \in 0..(n - 1) /\ x + 1 \in Int /\ k + 1 \in Int /\ r + 1 \in Int
        /\ x + 1 = n * (k + 1) + 0
        /\ r + 1 = n * 1 + 0
    BY <1>1, <1>2, <1>4, <2>1, SMT
  <2>3. (x + 1) % n = 0
    BY <2>2, ModUnique
  <2>4. (r + 1) % n = 0
    BY <2>2, ModUnique
  <2> QED BY <2>3, <2>4 DEF r
<1> QED BY <1>1, <1>3, <1>4

(* The history variable is what it says. *)
DutyInv == duty = RotationUser(rotation, clock)

LEMMA DutyNext == DutyInv /\ [Next]_vars => DutyInv'
<1> SUFFICES ASSUME DutyInv, [Next]_vars PROVE DutyInv'
  OBVIOUS
<1>1. CASE UNCHANGED <<duty, rotation, clock>>
  <2>1. duty' = duty /\ rotation' = rotation /\ clock' = clock
    BY <1>1
  <2> QED BY <2>1, Zenon DEF DutyInv
<1>2. CASE Pass
  BY <1>2 DEF Pass, DutyInv
<1>3. CASE Resolve
  BY <1>1, <1>3 DEF Resolve, ReadSchedule, ReadRotation, ReadClock, ReadOverrides, Paged
<1>4. CASE LoadCalendar
  BY <1>1, <1>4 DEF LoadCalendar
<1>5. ASSUME NEW rot \in Rotations, SetRotation(rot) PROVE DutyInv'
  BY <1>5 DEF SetRotation, Edit, DutyInv
<1>6. ASSUME NEW o \in Override, AddOverride(o) PROVE DutyInv'
  BY <1>1, <1>6 DEF AddOverride, Edit
<1>7. ASSUME NEW o \in overrides, DeleteOverride(o) PROVE DutyInv'
  BY <1>1, <1>7 DEF DeleteOverride, Edit
<1>8. CASE DeleteSchedule
  BY <1>8 DEF DeleteSchedule, Edit, DutyInv, RotationUser, Unmanned
<1>9. CASE UNCHANGED vars
  BY <1>1, <1>9 DEF vars
<1> QED
  BY <1>2, <1>3, <1>4, <1>5, <1>6, <1>7, <1>8, <1>9 DEF Next

(* Only the passing of time moves the clock, by one. *)
LEMMA ClockNext ==
    ASSUME [Next]_vars
    PROVE  clock' = clock \/ clock' = clock + 1
BY DEF Next, Pass, Resolve, ReadSchedule, ReadRotation, ReadClock, ReadOverrides, Paged,
       LoadCalendar, SetRotation, AddOverride, DeleteOverride, DeleteSchedule, Edit, vars

(* From a rotation that has begun to the next tick, before saturation. *)
LEMMA NextTick ==
    ASSUME NEW rot \in Rotations, ~Unmanned(rot), NEW t \in Int,
           rot.start <= t, t + 1 - rot.start <= MaxDuration
    PROVE  LET e == t - rot.start
               n == Len(rot.order)
           IN  /\ n \in Nat \ {0} /\ e \in Nat /\ Period(rot) \in Nat \ {0}
               /\ RotationUser(rot, t) = rot.order[1 + ((e \div Period(rot)) % n)]
               /\ RotationUser(rot, t + 1) = rot.order[1 + (((e + 1) \div Period(rot)) % n)]
               /\ ShiftAt(rot, t).end = rot.start + (e \div Period(rot)) * Period(rot) + Period(rot)
<1> USE OnCallAssumption
<1> DEFINE e == t - rot.start
<1>1. rot.start \in Int /\ rot.order \in Seq(Users) /\ rot.order # <<>>
  BY DEF Unmanned
<1>2. Len(rot.order) \in Nat \ {0}
  BY <1>1
<1>3. e \in Nat /\ e + 1 = t + 1 - rot.start
  BY <1>1, SMT
<1>4. Elapsed(t, rot.start) = e /\ Elapsed(t + 1, rot.start) = e + 1
  BY <1>1, SMT DEF Elapsed
<1>5. Period(rot) \in Nat \ {0}
  BY DEF Period
<1> HIDE DEF e
<1>6. ~(e < 0) /\ ~(e + 1 < 0) /\ e >= 0
  BY <1>3, SMT
<1>7. /\ RotationUser(rot, t) = rot.order[1 + ((e \div Period(rot)) % Len(rot.order))]
      /\ RotationUser(rot, t + 1) = rot.order[1 + (((e + 1) \div Period(rot)) % Len(rot.order))]
  BY <1>4, <1>6, Zenon DEF RotationUser
<1>8. ShiftAt(rot, t).end = rot.start + (e \div Period(rot)) * Period(rot) + Period(rot)
  BY <1>4, <1>6 DEF ShiftAt
<1> QED BY <1>2, <1>3, <1>5, <1>7, <1>8 DEF e

(* From one tick to the next the quotient grows by one, exactly where the    *)
(* next multiple is reached, and otherwise stays.                            *)
LEMMA QuotientSteps ==
    ASSUME NEW p \in Nat \ {0}, NEW e \in Nat
    PROVE  IF e + 1 = (e \div p) * p + p
           THEN (e + 1) \div p = (e \div p) + 1
           ELSE (e + 1) \div p = e \div p
<1> DEFINE q == e \div p
           r == e % p
<1>1. q \in Int /\ r \in 0..(p - 1) /\ e = p * q + r
  BY DivMod
<1> HIDE DEF q, r
<1>2. p * q \in Int /\ q * p = p * q /\ p * (q + 1) = p * q + p
  BY <1>1, SMT
<1>3. CASE e + 1 = q * p + p
  <2>1. /\ e + 1 \in Int /\ q + 1 \in Int
        /\ p * (q + 1) <= e + 1 /\ e + 1 < p * (q + 1) + p
    BY <1>1, <1>2, <1>3, SMT
  <2> QED BY <1>1, <1>3, <2>1, DivUnique DEF q
<1>4. CASE e + 1 # q * p + p
  <2>1. /\ e + 1 \in Int
        /\ p * q <= e + 1 /\ e + 1 < p * q + p
    BY <1>1, <1>2, <1>4, SMT
  <2> QED BY <1>1, <1>4, <2>1, DivUnique DEF q
<1> QED BY <1>3, <1>4 DEF q

(* Whoever is next in user_order, counted around. *)
LEMMA TurnNext ==
    ASSUME NEW rot \in Rotations, ~Unmanned(rot), NEW t \in Int,
           rot.start <= t, t + 1 - rot.start <= MaxDuration,
           t + 1 = ShiftAt(rot, t).end
    PROVE  \E i \in 1..Len(rot.order) :
              /\ RotationUser(rot, t) = rot.order[i]
              /\ RotationUser(rot, t + 1) = rot.order[1 + (i % Len(rot.order))]
<1> DEFINE e == t - rot.start
           n == Len(rot.order)
           q == e \div Period(rot)
           i == 1 + (q % n)
<1>1. /\ n \in Nat \ {0} /\ e \in Nat /\ Period(rot) \in Nat \ {0}
      /\ RotationUser(rot, t) = rot.order[1 + (q % n)]
      /\ RotationUser(rot, t + 1) = rot.order[1 + (((e + 1) \div Period(rot)) % n)]
      /\ ShiftAt(rot, t).end = rot.start + q * Period(rot) + Period(rot)
  BY NextTick
<1>2. q \in Int /\ q * Period(rot) \in Int
  <2>1. q \in Int
    BY <1>1, DivBounds
  <2>2. Period(rot) \in Int
    BY <1>1
  <2> HIDE DEF q
  <2> QED BY <2>1, <2>2, ProductInt
<1>3. rot.start \in Int
  BY OnCallAssumption
<1>4. e + 1 = q * Period(rot) + Period(rot)
  <2>1. t + 1 = rot.start + q * Period(rot) + Period(rot)
    BY <1>1
  <2>2. Period(rot) \in Int
    BY <1>1
  <2> DEFINE k == q * Period(rot)
             p == Period(rot)
  <2>3. t + 1 = rot.start + k + p /\ k \in Int /\ p \in Int
    BY <1>2, <2>1, <2>2
  <2> HIDE DEF k, p
  <2>4. t - rot.start + 1 = k + p
    BY <1>3, <2>3, SMT
  <2> QED BY <2>4 DEF k, p
<1>5. (e + 1) \div Period(rot) = q + 1
  BY <1>1, <1>4, QuotientSteps
<1>6. i \in 1..n
  <2>1. q % n \in 0..(n - 1)
    BY <1>1, <1>2, DivMod
  <2> HIDE DEF q, n
  <2> QED BY <1>1, <2>1, SMT
<1>7. (q + 1) % n = i % n
  <2>1. (q + 1) % n = ((q % n) + 1) % n
    BY <1>1, <1>2, ModSucc
  <2>2. (q % n) + 1 = 1 + (q % n)
    <3> DEFINE r == q % n
    <3>1. r \in Int
      BY <1>1, <1>2, DivMod
    <3> HIDE DEF r
    <3>2. r + 1 = 1 + r
      BY <3>1, SMT
    <3> QED BY <3>2 DEF r
  <2> QED BY <2>1, <2>2
<1> QED BY <1>1, <1>5, <1>6, <1>7

(* Where the duty changes a shift ends. *)
LEMMA HandoverEndsShift ==
    ASSUME NEW rot \in Rotations, ~Unmanned(rot), NEW t \in Int,
           RotationUser(rot, t + 1) # RotationUser(rot, t)
    PROVE  t + 1 = ShiftAt(rot, t).end
<1> USE OnCallAssumption
<1>1. rot.start \in Int /\ Len(rot.order) \in Nat \ {0}
  BY DEF Unmanned
<1>2. Elapsed(t + 1, rot.start) # Elapsed(t, rot.start)
  BY DEF RotationUser
<1>3. -MaxDuration <= t - rot.start /\ t - rot.start < MaxDuration
  BY <1>1, <1>2, SMT DEF Elapsed
<1>4. CASE t < rot.start
  <2>1. Elapsed(t, rot.start) < 0
    BY <1>1, <1>3, <1>4, SMT DEF Elapsed
  <2>2. RotationUser(rot, t) = rot.order[1]
    BY <2>1 DEF RotationUser
  <2>3. CASE t + 1 < rot.start
    <3>1. Elapsed(t + 1, rot.start) < 0
      BY <1>1, <1>3, <2>3, SMT DEF Elapsed
    <3>2. RotationUser(rot, t + 1) = rot.order[1]
      BY <3>1 DEF RotationUser
    <3> QED BY <2>2, <3>2
  <2>4. CASE t + 1 = rot.start
    <3>1. Elapsed(t + 1, rot.start) = 0
      BY <1>1, <2>4, SMT DEF Elapsed
    <3>2. Period(rot) \in Nat \ {0}
      BY DEF Period
    <3>3. Period(rot) * 0 = 0 /\ 0 \in 0..(Period(rot) - 1)
      BY <3>2, SMT
    <3>4. 0 = Period(rot) * 0 + 0
      BY <3>3
    <3>5. 0 \div Period(rot) = 0
      BY <3>2, <3>3, <3>4, ModUnique
    <3>6. 0 % Len(rot.order) = 0
      BY <1>1, ZeroMod
    <3>7. RotationUser(rot, t + 1) = rot.order[1 + ((0 \div Period(rot)) % Len(rot.order))]
      BY <3>1 DEF RotationUser
    <3>8. RotationUser(rot, t + 1) = rot.order[1 + 0]
      BY <3>5, <3>6, <3>7, Zenon
    <3>9. 1 + 0 = 1
      OBVIOUS
    <3> QED BY <2>2, <3>8, <3>9
  <2> QED BY <1>1, <1>4, <2>3, <2>4, SMT
<1>5. CASE rot.start <= t
  <2> DEFINE e == t - rot.start
             n == Len(rot.order)
             p == Period(rot)
  <2>1. t + 1 - rot.start <= MaxDuration
    BY <1>1, <1>3, SMT
  <2>2. /\ e \in Nat /\ p \in Nat \ {0}
        /\ RotationUser(rot, t) = rot.order[1 + ((e \div p) % n)]
        /\ RotationUser(rot, t + 1) = rot.order[1 + (((e + 1) \div p) % n)]
        /\ ShiftAt(rot, t).end = rot.start + (e \div p) * p + p
    BY <1>5, <2>1, NextTick
  <2>3. (e + 1) \div p # e \div p
    BY <2>2
  <2>4. e + 1 = (e \div p) * p + p
    BY <2>2, <2>3, QuotientSteps
  <2>5. (e \div p) * p \in Int
    <3>1. e \div p \in Int
      BY <2>2, DivBounds
    <3>2. p \in Int
      BY <2>2
    <3> QED BY <3>1, <3>2, ProductInt
  <2> DEFINE k == (e \div p) * p
  <2> HIDE DEF k
  <2>6. t - rot.start + 1 = k + p /\ k \in Int /\ p \in Int
    BY <2>2, <2>4, <2>5 DEF k
  <2> HIDE DEF p
  <2>7. t + 1 = rot.start + k + p
    BY <1>1, <2>6, SMT
  <2> QED BY <2>2, <2>7 DEF k
<1> QED BY <1>1, <1>4, <1>5, SMT

LEMMA ClockType == TypeOK => clock \in Int /\ rotation \in Rotations \cup {None}
BY DEF TypeOK, Instants

(* The pager hands over exactly where the calendar's shift ends: for every   *)
(* rotation, every length of a day, before the rotation's start and after    *)
(* the time elapsed has saturated.                                           *)
THEOREM HandsOverOnTime == Spec => HandoverOnTime
<1>1. Init => DutyInv
  BY DEF Init, DutyInv
<1>2. TypeOK /\ DutyInv /\ DutyInv' /\ [Next]_vars =>
         [ /\ ~Unmanned(rotation) /\ rotation' = rotation /\ duty' # duty
           => clock' = ShiftAt(rotation, clock).end ]_vars
  <2> SUFFICES ASSUME TypeOK, DutyInv, DutyInv', [Next]_vars, ~Unmanned(rotation),
                      rotation' = rotation, duty' # duty
               PROVE  clock' = ShiftAt(rotation, clock).end
    OBVIOUS
  <2>1. clock \in Int /\ rotation \in Rotations
    BY ClockType DEF Unmanned
  <2>2. duty = RotationUser(rotation, clock) /\ duty' = RotationUser(rotation, clock')
    BY DEF DutyInv
  <2>3. clock' = clock + 1
    BY <2>2, ClockNext
  <2> QED BY <2>1, <2>2, <2>3, HandoverEndsShift
<1> QED
  BY <1>1, <1>2, TypeInit, TypeNext, DutyNext, PTL DEF Spec, HandoverOnTime

(* A shift ends after the instant it covers. *)
LEMMA ShiftEndsLater ==
    ASSUME NEW rot \in Rotations, ~Unmanned(rot), NEW t \in Int,
           rot.start <= t, t - rot.start <= MaxDuration
    PROVE  ShiftAt(rot, t).end # t
<1> USE OnCallAssumption
<1> DEFINE e == t - rot.start
           p == Period(rot)
           q == e \div p
           k == q * p
           r == e % p
<1>1. rot.start \in Int /\ e \in Nat
  BY SMT
<1>2. Elapsed(t, rot.start) = e /\ e >= 0
  BY <1>1, SMT DEF Elapsed
<1>3. p \in Nat \ {0}
  BY DEF Period
<1>4. ShiftAt(rot, t).end = rot.start + k + p
  <2> HIDE DEF e
  <2> QED BY <1>2 DEF ShiftAt
<1>5. r \in 0..(p - 1) /\ q \in Int /\ e = p * q + r
  <2>1. e \in Int
    BY <1>1
  <2> QED BY <1>3, <2>1, DivMod
<1>6. p * q = k /\ k \in Int
  <2> HIDE DEF q, p
  <2> QED BY <1>3, <1>5, SMT DEF k
<1>7. e = k + r /\ t = rot.start + e /\ t \in Int
  BY <1>1, <1>5, <1>6
<1> HIDE DEF e, p, q, k, r
<1> QED BY <1>1, <1>3, <1>4, <1>5, <1>6, <1>7, SMT

(* Turns go around in the order of user_order, for every rotation: none is   *)
(* skipped and none repeated, until time.Duration saturates.                 *)
THEOREM TurnsGoAround == Spec => TurnsInOrder
<1>1. Init => DutyInv
  BY DEF Init, DutyInv
<1> DEFINE Step ==
        /\ ~Unmanned(rotation) /\ rotation' = rotation
        /\ clock' = ShiftAt(rotation, clock).end
        /\ rotation.start <= clock /\ clock' - rotation.start <= MaxDuration
        => LET n == Len(rotation.order)
           IN  \E i \in 1..n : /\ duty = rotation.order[i]
                               /\ duty' = rotation.order[1 + (i % n)]
<1>2. TypeOK /\ DutyInv /\ DutyInv' /\ [Next]_vars => [Step]_vars
  <2> SUFFICES ASSUME TypeOK, DutyInv, DutyInv', [Next]_vars, ~Unmanned(rotation),
                      rotation' = rotation, clock' = ShiftAt(rotation, clock).end,
                      rotation.start <= clock, clock' - rotation.start <= MaxDuration
               PROVE  \E i \in 1..Len(rotation.order) :
                         /\ duty = rotation.order[i]
                         /\ duty' = rotation.order[1 + (i % Len(rotation.order))]
    BY DEF Step
  <2>1. clock \in Int /\ rotation \in Rotations /\ rotation.start \in Int
    BY ClockType, OnCallAssumption DEF Unmanned
  <2>2. duty = RotationUser(rotation, clock) /\ duty' = RotationUser(rotation, clock')
    BY DEF DutyInv
  <2>3. clock' = clock + 1
    <3>1. CASE clock' = clock
      <4>1. clock - rotation.start <= MaxDuration
        BY <3>1
      <4> QED BY <2>1, <3>1, <4>1, ShiftEndsLater
    <3> QED BY <3>1, ClockNext
  <2>4. clock + 1 - rotation.start <= MaxDuration /\ clock + 1 = ShiftAt(rotation, clock).end
    <3>1. clock + 1 = ShiftAt(rotation, clock).end
      BY <2>3
    <3>2. clock + 1 - rotation.start <= MaxDuration
      BY <2>1, <2>3, SMT
    <3> QED BY <3>1, <3>2
  <2> QED BY <2>1, <2>2, <2>3, <2>4, TurnNext
<1>3. ([][Step]_vars) => TurnsInOrder
  BY DEF Step, TurnsInOrder
<1> QED
  BY <1>1, <1>2, <1>3, TypeInit, TypeNext, DutyNext, PTL DEF Spec
=============================================================================
