--------------------------- MODULE ConsoleProofs ---------------------------
(***************************************************************************)
(* Proofs about Console for any number of users, sessions, browsers,       *)
(* incidents, requests at once and faults: nobody is served on a session   *)
(* that had ended, the first responder stays, and timeline and incident    *)
(* agree.                                                                  *)
(***************************************************************************)
EXTENDS Console, FiniteSetTheorems, TLAPS

USE ConsoleAssumption

-----------------------------------------------------------------------------
(* What a request under way holds, by how far it has come.                   *)
CallOK(c) ==
    /\ c.pc \in {"create", "session", "auth", "expired"} => c.browser \in Browsers
    /\ c.pc = "session" => c.user \in Users
    /\ c.pc \in {"auth", "expired"} => c.token \in Tokens
    /\ c.pc \in {"auth", "update", "event"} =>
          /\ c.act \in Act
          /\ c.act # "invite" => c.inc \in Incidents
    /\ c.pc \in {"update", "event"} => /\ c.user \in Users \cup {Source}
                                       /\ c.act # "resolve" => c.user \in Users
    /\ c.pc = "event" => c.act # "invite"

Calls == call \in [Workers -> Frame] /\ \A w \in Workers : CallOK(call[w])

(* Sessions in use belong to somebody.                                       *)
Tables ==
    /\ users \in [Users -> {"none", "member", "admin"}]
    /\ sessions \in [Tokens -> Session]
    /\ cookie \in [Browsers -> Tokens \cup {None}]
    /\ incidents \in [Incidents -> Incident]
    /\ timeline \in [Incidents -> SUBSET ({"acknowledged", "resolved"} \X (Users \cup {Source}))]
    /\ founders \subseteq Users
    /\ faults \in 0..MaxFaults
    /\ \A t \in Tokens : sessions[t].state \in {"valid", "expired"} => sessions[t].user \in Users

TypeInv == Tables /\ Calls

LEMMA TypeInit == Init => TypeInv
  BY DEF Init, TypeInv, Tables, Calls, CallOK, IdleFrame, Frame, Session, Incident

LEMMA IdleTyped == IdleFrame \in Frame /\ CallOK(IdleFrame)
  BY DEF IdleFrame, Frame, CallOK

(* A step that replaces one frame by one that is in order.                   *)
LEMMA CallReplaced ==
    ASSUME Calls, NEW w \in Workers, NEW f \in Frame, CallOK(f),
           call' = [call EXCEPT ![w] = f]
    PROVE  Calls'
  BY DEF Calls

LEMMA CallReturned == ASSUME Calls, NEW w \in Workers, Return(w) PROVE Calls'
  BY IdleTyped, CallReplaced DEF Return

(* The tables do not depend on the requests that have only been looked up.   *)
LEMMA TablesKept ==
    ASSUME Tables, UNCHANGED <<users, sessions, cookie, incidents, timeline, founders, faults>>
    PROVE  Tables'
  BY DEF Tables

-----------------------------------------------------------------------------
LEMMA SetupTyped ==
    ASSUME TypeInv, NEW w \in Workers,
           SetupCreate(w) \/ \E b \in Browsers : SetupCount(w, b) \/ LoginSubmit(w, b)
    PROVE  TypeInv'
<1>1. ASSUME NEW b \in Browsers, SetupCount(w, b) PROVE TypeInv'
  <2> DEFINE f == [IdleFrame EXCEPT !.pc = "create", !.browser = b]
  <2>1. f \in Frame /\ CallOK(f)
    BY DEF IdleFrame, Frame, CallOK
  <2> QED
    BY <1>1, <2>1, CallReplaced, TablesKept DEF SetupCount, TypeInv
<1>2. ASSUME NEW b \in Browsers, LoginSubmit(w, b) PROVE TypeInv'
  <2>1. PICK u \in Users :
            call' = [call EXCEPT ![w] = [IdleFrame EXCEPT !.pc = "session",
                                             !.browser = b, !.user = u]]
    BY <1>2 DEF LoginSubmit
  <2> DEFINE f == [IdleFrame EXCEPT !.pc = "session", !.browser = b, !.user = u]
  <2>2. f \in Frame /\ CallOK(f)
    BY DEF IdleFrame, Frame, CallOK
  <2> QED
    BY <1>2, <2>1, <2>2, CallReplaced, TablesKept DEF LoginSubmit, TypeInv
<1>3. CASE SetupCreate(w)
  <2>1. PICK u \in Users :
            IF Exists(u) THEN Return(w) /\ UNCHANGED <<users, founders>>
            ELSE /\ users' = [users EXCEPT ![u] = "admin"]
                 /\ founders' = founders \cup {u}
                 /\ call' = [call EXCEPT ![w].pc = "session", ![w].user = u]
    BY <1>3 DEF SetupCreate
  <2>2. /\ UNCHANGED <<sessions, cookie, incidents, timeline, faults>>
        /\ call[w].pc = "create"
    BY <1>3 DEF SetupCreate
  <2>3. CASE Exists(u)
    BY <2>1, <2>2, <2>3, CallReturned, TablesKept DEF TypeInv
  <2>4. CASE ~Exists(u)
    <3> DEFINE f == [call[w] EXCEPT !.pc = "session", !.user = u]
    <3>1. call[w] \in Frame /\ CallOK(call[w]) /\ call \in [Workers -> Frame]
      BY DEF TypeInv, Calls
    <3>2. f \in Frame /\ CallOK(f)
      BY <2>2, <3>1 DEF Frame, CallOK
    <3>3. call' = [call EXCEPT ![w] = f]
      BY <2>1, <2>4, <3>1
    <3>4. Tables'
      BY <2>1, <2>2, <2>4 DEF TypeInv, Tables
    <3> QED BY <3>2, <3>3, <3>4, CallReplaced DEF TypeInv
  <2> QED BY <2>3, <2>4
<1> QED BY <1>1, <1>2, <1>3

LEMMA SessionTyped ==
    ASSUME TypeInv
    PROVE  /\ \A w \in Workers : CreateSession(w) \/ DropExpired(w) => TypeInv'
           /\ \A b \in Browsers : Logout(b) => TypeInv'
           /\ \A t \in Tokens : Expire(t) => TypeInv'
<1>1. ASSUME NEW w \in Workers, CreateSession(w) PROVE TypeInv'
  <2>1. call[w].user \in Users /\ call[w].browser \in Browsers
    BY <1>1 DEF TypeInv, Calls, CallOK, CreateSession
  <2>2. PICK t \in Tokens :
          /\ sessions' = [sessions EXCEPT ![t] = [user |-> call[w].user, state |-> "valid"]]
          /\ cookie' = [cookie EXCEPT ![call[w].browser] = t]
    BY <1>1 DEF CreateSession
  <2>3. Tables'
    BY <1>1, <2>1, <2>2 DEF TypeInv, Tables, Session, CreateSession
  <2> QED BY <1>1, <2>3, CallReturned DEF CreateSession, TypeInv
<1>2. ASSUME NEW w \in Workers, DropExpired(w) PROVE TypeInv'
  <2>1. call[w].token \in Tokens /\ Return(w)
    BY <1>2 DEF TypeInv, Calls, CallOK, DropExpired
  <2>2. Tables'
    BY <1>2, <2>1 DEF TypeInv, Tables, Session, DropExpired
  <2> QED BY <2>1, <2>2, CallReturned DEF TypeInv
<1>3. ASSUME NEW b \in Browsers, Logout(b) PROVE TypeInv'
  BY <1>3 DEF Logout, TypeInv, Tables, Session, Calls
<1>4. ASSUME NEW t \in Tokens, Expire(t) PROVE TypeInv'
  BY <1>4 DEF Expire, TypeInv, Tables, Session, Calls
<1> QED BY <1>1, <1>2, <1>3, <1>4

LEMMA RequestTyped ==
    ASSUME TypeInv, NEW w \in Workers
    PROVE  /\ \A b \in Browsers, a \in Act, i \in Incidents \cup {None} :
                 Press(w, b, a, i) => TypeInv'
           /\ \A names \in SUBSET Incidents, a \in Act : SlackCommand(w, names, a) => TypeInv'
           /\ \A i \in Incidents : SourceResolved(w, i) => TypeInv'
<1>1. ASSUME NEW b \in Browsers, NEW a \in Act, NEW i \in Incidents \cup {None},
             Press(w, b, a, i)
      PROVE  TypeInv'
  <2> DEFINE f == [IdleFrame EXCEPT !.pc = "auth", !.browser = b, !.token = cookie[b], !.act = a,
                       !.inc = i, !.entitled = (sessions[cookie[b]].state = "valid")]
  <2>1. cookie[b] \in Tokens /\ (a # "invite" => i \in Incidents)
    BY <1>1 DEF Press, TypeInv, Tables
  <2>2. f \in Frame /\ CallOK(f)
    BY <2>1 DEF IdleFrame, Frame, CallOK
  <2>3. call' = [call EXCEPT ![w] = f]
    BY <1>1 DEF Press
  <2>4. Tables'
    BY <1>1, TablesKept DEF Press, TypeInv
  <2> QED BY <2>2, <2>3, <2>4, CallReplaced DEF TypeInv
<1>2. ASSUME NEW names \in SUBSET Incidents, NEW a \in Act, SlackCommand(w, names, a)
      PROVE  TypeInv'
  <2>1. PICK u \in Users, i \in names :
            call' = [call EXCEPT ![w] = [IdleFrame EXCEPT !.pc = "update", !.user = u,
                                             !.act = a, !.inc = i]]
    BY <1>2 DEF SlackCommand
  <2> DEFINE f == [IdleFrame EXCEPT !.pc = "update", !.user = u, !.act = a, !.inc = i]
  <2>2. f \in Frame /\ CallOK(f)
    BY DEF IdleFrame, Frame, CallOK
  <2>3. Tables'
    BY <1>2, TablesKept DEF SlackCommand, TypeInv
  <2> QED BY <2>1, <2>2, <2>3, CallReplaced DEF TypeInv
<1>3. ASSUME NEW i \in Incidents, SourceResolved(w, i) PROVE TypeInv'
  <2> DEFINE f == [IdleFrame EXCEPT !.pc = "update", !.user = Source, !.act = "resolve", !.inc = i]
  <2>1. f \in Frame /\ CallOK(f)
    BY DEF IdleFrame, Frame, CallOK, Act
  <2> QED
    BY <1>3, <2>1, CallReplaced, TablesKept DEF SourceResolved, TypeInv
<1> QED BY <1>1, <1>2, <1>3

LEMMA HandlerTyped ==
    ASSUME TypeInv, NEW w \in Workers,
           SessionUser(w) \/ Invite(w) \/ Update(w) \/ AddEvent(w) \/ CallError(w)
    PROVE  TypeInv'
<1>1. /\ call \in [Workers -> Frame] /\ call[w] \in Frame /\ CallOK(call[w])
      /\ Calls /\ Tables
  BY DEF TypeInv, Calls
<1>2. CASE SessionUser(w)
  <2>1. Tables'
    BY <1>1, <1>2, TablesKept DEF SessionUser
  <2> DEFINE s == sessions[call[w].token]
  <2>2. call[w].pc = "auth" /\ call[w].token \in Tokens
    BY <1>1, <1>2 DEF SessionUser, CallOK
  <2>3. CASE s.state = "valid"
    <3> DEFINE f == [call[w] EXCEPT !.pc = "update", !.user = s.user]
    <3>1. s.user \in Users
      BY <1>1, <2>2, <2>3 DEF Tables
    <3>2. call' = [call EXCEPT ![w].pc = "update", ![w].user = s.user]
      BY <1>2, <2>3 DEF SessionUser
    <3> HIDE DEF s
    <3>3. call' = [call EXCEPT ![w] = f]
      BY <1>1, <3>2
    <3>4. f \in Frame /\ CallOK(f)
      BY <1>1, <2>2, <3>1 DEF Frame, CallOK
    <3> QED BY <1>1, <2>1, <3>3, <3>4, CallReplaced DEF TypeInv
  <2>4. CASE s.state = "expired"
    <3> DEFINE f == [call[w] EXCEPT !.pc = "expired"]
    <3>1. call' = [call EXCEPT ![w].pc = "expired"]
      BY <1>2, <2>4 DEF SessionUser
    <3>2. call' = [call EXCEPT ![w] = f]
      BY <1>1, <3>1
    <3>3. f \in Frame /\ CallOK(f)
      BY <1>1, <2>2 DEF Frame, CallOK
    <3> QED BY <1>1, <2>1, <3>2, <3>3, CallReplaced DEF TypeInv
  <2>5. CASE s.state \notin {"valid", "expired"}
    <3>1. Return(w)
      BY <1>2, <2>5 DEF SessionUser
    <3> QED BY <1>1, <2>1, <3>1, CallReturned DEF TypeInv
  <2> QED BY <2>3, <2>4, <2>5
<1>3. CASE Invite(w)
  <2>1. Return(w)
    BY <1>3 DEF Invite
  <2>2. Tables'
    BY <1>1, <1>3 DEF Invite, Tables
  <2> QED BY <1>1, <2>1, <2>2, CallReturned DEF TypeInv
<1>4. CASE Update(w)
  <2> DEFINE f == [call[w] EXCEPT !.pc = "event"]
  <2>1. /\ call[w].pc = "update" /\ call[w].act \in {"acknowledge", "resolve"}
        /\ call' = [call EXCEPT ![w].pc = "event"]
        /\ UNCHANGED <<users, sessions, cookie, timeline, founders, faults>>
    BY <1>4 DEF Update
  <2>2. call' = [call EXCEPT ![w] = f]
    BY <1>1, <2>1
  <2>3. f \in Frame /\ CallOK(f)
    BY <1>1, <2>1 DEF Frame, CallOK
  <2>4. incidents' \in [Incidents -> Incident]
    <3>1. call[w].inc \in Incidents /\ call[w].user \in Users \cup {Source}
          /\ (call[w].act # "resolve" => call[w].user \in Users)
      BY <1>1, <2>1 DEF CallOK
    <3> DEFINE i == call[w].inc
               u == call[w].user
    <3>2. incidents \in [Incidents -> Incident]
      BY <1>1 DEF Tables
    <3>3. CASE call[w].act = "acknowledge"
      <4> DEFINE r == [incidents[i] EXCEPT !.status = "acknowledged", !.ackBy = u]
      <4>1. AcknowledgeIncident(i, u)
        BY <1>4, <3>3 DEF Update
      <4>2. r \in Incident
        BY <3>1, <3>2, <3>3 DEF Incident
      <4>3. incidents' = incidents \/ incidents' = [incidents EXCEPT ![i] = r]
        BY <3>1, <3>2, <4>1 DEF AcknowledgeIncident
      <4> HIDE DEF r
      <4> QED BY <3>1, <3>2, <4>2, <4>3
    <3>4. CASE call[w].act = "resolve"
      <4> DEFINE r == [incidents[i] EXCEPT !.status = "resolved", !.resBy = u]
      <4>1. ResolveIncident(i, u)
        BY <1>4, <3>4 DEF Update
      <4>2. r \in Incident
        <5>1. incidents[i] \in Incident /\ u \in Users \cup {Source, None}
          BY <3>1, <3>2
        <5> HIDE DEF u
        <5> QED BY <5>1 DEF Incident
      <4>3. incidents' = incidents \/ incidents' = [incidents EXCEPT ![i] = r]
        BY <3>1, <3>2, <4>1 DEF ResolveIncident
      <4> HIDE DEF r
      <4> QED BY <3>1, <3>2, <4>2, <4>3
    <3> QED BY <2>1, <3>3, <3>4
  <2>5. Tables'
    BY <1>1, <2>1, <2>4 DEF Tables
  <2> QED BY <1>1, <2>2, <2>3, <2>5, CallReplaced DEF TypeInv
<1>5. CASE AddEvent(w)
  <2>1. /\ Return(w)
        /\ UNCHANGED <<users, sessions, cookie, incidents, founders, faults>>
    BY <1>5 DEF AddEvent
  <2> DEFINE e == <<EventOf[call[w].act], call[w].user>>
  <2>2. e \in {"acknowledged", "resolved"} \X (Users \cup {Source})
    BY <1>1, <1>5 DEF AddEvent, CallOK, Act, EventOf
  <2>3. timeline' = timeline \/ timeline' = [timeline EXCEPT ![call[w].inc] = @ \cup {e}]
    BY <1>5 DEF AddEvent
  <2> HIDE DEF e
  <2>4. Tables'
    BY <1>1, <2>1, <2>2, <2>3 DEF Tables
  <2> QED BY <1>1, <2>1, <2>4, CallReturned DEF TypeInv
<1>6. CASE CallError(w)
  <2>1. Return(w)
    BY <1>6 DEF CallError
  <2>2. Tables'
    BY <1>1, <1>6 DEF CallError, Tables
  <2> QED BY <1>1, <2>1, <2>2, CallReturned DEF TypeInv
<1> QED BY <1>2, <1>3, <1>4, <1>5, <1>6

LEMMA TypeNext == TypeInv /\ [Next]_vars => TypeInv'
<1> SUFFICES ASSUME TypeInv, [Next]_vars PROVE TypeInv'
  OBVIOUS
<1>1. ASSUME NEW i \in Incidents, OpenIncident(i) \/ Purge(i) PROVE TypeInv'
  <2>1. /\ incidents \in [Incidents -> Incident]
        /\ UNCHANGED <<users, sessions, cookie, call, founders, faults>>
    BY <1>1 DEF OpenIncident, Purge, TypeInv, Tables
  <2>2. CASE OpenIncident(i)
    <3> DEFINE r == [incidents[i] EXCEPT !.status = "triggered"]
    <3>1. r \in Incident
      BY <2>1 DEF Incident
    <3>2. incidents' = [incidents EXCEPT ![i] = r] /\ timeline' = timeline
      BY <2>1, <2>2 DEF OpenIncident
    <3> HIDE DEF r
    <3>3. incidents' \in [Incidents -> Incident]
      BY <2>1, <3>1, <3>2
    <3> QED BY <2>1, <3>2, <3>3 DEF TypeInv, Tables, Calls
  <2>3. CASE Purge(i)
    <3> DEFINE r == [status |-> "deleted", ackBy |-> None, resBy |-> None]
    <3>1. r \in Incident
      BY DEF Incident
    <3>2. incidents' = [incidents EXCEPT ![i] = r] /\ timeline' = [timeline EXCEPT ![i] = {}]
      BY <2>3 DEF Purge
    <3> HIDE DEF r
    <3>3. incidents' \in [Incidents -> Incident]
      BY <2>1, <3>1, <3>2
    <3>4. timeline' \in [Incidents ->
                          SUBSET ({"acknowledged", "resolved"} \X (Users \cup {Source}))]
      BY <3>2 DEF TypeInv, Tables
    <3> QED BY <2>1, <3>3, <3>4 DEF TypeInv, Tables, Calls
  <2> QED BY <1>1, <2>2, <2>3
<1>2. CASE Restart
  <2>1. Calls'
    BY <1>2, IdleTyped DEF Restart, Calls
  <2> QED BY <1>2, <2>1 DEF Restart, TypeInv, Tables
<1>3. CASE UNCHANGED vars
  BY <1>3 DEF vars, TypeInv, Tables, Calls
<1> QED
  BY <1>1, <1>2, <1>3, SetupTyped, SessionTyped, RequestTyped, HandlerTyped DEF Next, Serve

(* Every variable keeps its type, and every request holds what its next      *)
(* statement needs.                                                          *)
THEOREM ConsoleTypes == Spec => []TypeOK
<1>1. TypeInv => TypeOK
  BY DEF TypeInv, Tables, Calls, TypeOK
<1> QED
  BY <1>1, TypeInit, TypeNext, PTL DEF Spec

-----------------------------------------------------------------------------
(* What becomes of the frame of one request in a step of the system: it      *)
(* stays, it is of no interest below, or the step is a step of this request. *)
Advances(w) ==
    \/ \E b \in Browsers, a \in Act, i \in Incidents \cup {None} : Press(w, b, a, i)
    \/ \E names \in SUBSET Incidents, a \in Act : SlackCommand(w, names, a)
    \/ \E i \in Incidents : SourceResolved(w, i)
    \/ SessionUser(w)
    \/ Update(w)

LEMMA Frames ==
    ASSUME TypeInv, [Next]_vars, NEW w \in Workers
    PROVE  call'[w] = call[w] \/ call'[w].pc \in {"idle", "create", "session"} \/ Advances(w)
<1>1. call \in [Workers -> Frame]
  BY DEF TypeInv, Calls
<1>2. ASSUME NEW v \in Workers,
             SetupCreate(v) \/ \E b \in Browsers : SetupCount(v, b) \/ LoginSubmit(v, b)
      PROVE  call'[w] = call[w] \/ call'[w].pc \in {"idle", "create", "session"}
  <2>1. CASE \E b \in Browsers : SetupCount(v, b) \/ LoginSubmit(v, b)
    BY <1>1, <2>1 DEF SetupCount, LoginSubmit, IdleFrame
  <2>2. ASSUME Return(v) PROVE call'[w] = call[w] \/ call'[w].pc = "idle"
    BY <1>1, <2>2 DEF Return, IdleFrame
  <2>3. ASSUME NEW u \in Users, call' = [call EXCEPT ![v].pc = "session", ![v].user = u]
        PROVE  call'[w] = call[w] \/ call'[w].pc = "session"
    <3>1. CASE v = w
      <4>1. call'[w] = [call[w] EXCEPT !.pc = "session", !.user = u] /\ call[w] \in Frame
        BY <1>1, <2>3, <3>1
      <4> QED BY <4>1 DEF Frame
    <3> QED BY <1>1, <2>3, <3>1
  <2> QED BY <1>2, <2>1, <2>2, <2>3 DEF SetupCreate
<1>3. ASSUME NEW v \in Workers,
             CreateSession(v) \/ DropExpired(v) \/ Invite(v) \/ AddEvent(v) \/ CallError(v)
      PROVE  call'[w] = call[w] \/ call'[w].pc = "idle"
  <2>1. Return(v)
    BY <1>3 DEF CreateSession, DropExpired, Invite, AddEvent, CallError
  <2> QED BY <1>1, <2>1 DEF Return, IdleFrame
<1>4. ASSUME NEW v \in Workers, v # w, Advances(v) PROVE call'[w] = call[w]
  <2>1. CASE SessionUser(v)
    BY <1>1, <1>4, <2>1 DEF SessionUser, Return
  <2>2. CASE Update(v)
    BY <1>1, <1>4, <2>2 DEF Update
  <2>3. CASE \E b \in Browsers, a \in Act, i \in Incidents \cup {None} : Press(v, b, a, i)
    BY <1>1, <1>4, <2>3 DEF Press
  <2>4. CASE \E names \in SUBSET Incidents, a \in Act : SlackCommand(v, names, a)
    BY <1>1, <1>4, <2>4 DEF SlackCommand
  <2>5. CASE \E i \in Incidents : SourceResolved(v, i)
    BY <1>1, <1>4, <2>5 DEF SourceResolved
  <2> QED BY <1>4, <2>1, <2>2, <2>3, <2>4, <2>5 DEF Advances
<1>5. CASE Restart
  BY <1>5 DEF Restart, IdleFrame
<1>6. CASE \/ UNCHANGED vars
           \/ \E b \in Browsers : Logout(b)
           \/ \E t \in Tokens : Expire(t)
           \/ \E i \in Incidents : OpenIncident(i) \/ Purge(i)
  BY <1>6 DEF vars, Logout, Expire, OpenIncident, Purge
<1> QED
  BY <1>2, <1>3, <1>4, <1>5, <1>6 DEF Next, Serve, Advances

-----------------------------------------------------------------------------
(* From one step to the next a session in use keeps its user, and one that   *)
(* has ended does not come back.                                             *)
Ages(s, n) ==
    \A t \in Tokens : s[t].state # "free" =>
        /\ n[t].state # "free"
        /\ n[t].user = s[t].user
        /\ n[t].state = "valid" => s[t].state = "valid"

LEMMA SessionsAge == ASSUME TypeInv, [Next]_vars PROVE Ages(sessions, sessions')
<1>1. sessions \in [Tokens -> Session]
  BY DEF TypeInv, Tables
<1>2. ASSUME NEW w \in Workers, CreateSession(w) PROVE Ages(sessions, sessions')
  BY <1>1, <1>2 DEF CreateSession, Ages
<1>3. ASSUME NEW w \in Workers, DropExpired(w) PROVE Ages(sessions, sessions')
  BY <1>1, <1>3 DEF DropExpired, Ages, Session
<1>4. ASSUME NEW b \in Browsers, Logout(b) PROVE Ages(sessions, sessions')
  BY <1>1, <1>4 DEF Logout, Ages, Session
<1>5. ASSUME NEW t \in Tokens, Expire(t) PROVE Ages(sessions, sessions')
  BY <1>1, <1>5 DEF Expire, Ages, Session
<1>6. ASSUME UNCHANGED sessions PROVE Ages(sessions, sessions')
  BY <1>6 DEF Ages
<1>7. ASSUME NEW w \in Workers,
             SetupCreate(w) \/ SessionUser(w) \/ Invite(w) \/ Update(w) \/ AddEvent(w)
                \/ CallError(w) \/ Advances(w)
                \/ \E b \in Browsers : SetupCount(w, b) \/ LoginSubmit(w, b)
      PROVE  UNCHANGED sessions
  BY <1>7 DEF SetupCreate, SessionUser, Invite, Update, AddEvent, CallError, Advances,
              Press, SlackCommand, SourceResolved, SetupCount, LoginSubmit
<1>8. ASSUME Restart \/ UNCHANGED vars \/ \E i \in Incidents : OpenIncident(i) \/ Purge(i)
      PROVE  UNCHANGED sessions
  BY <1>8 DEF Restart, vars, OpenIncident, Purge
<1> QED
  BY <1>2, <1>3, <1>4, <1>5, <1>6, <1>7, <1>8 DEF Next, Serve, Advances

(* A request that waits for its session's row was entitled if the row is     *)
(* still good; one that was let in was entitled, and is its session's user.  *)
Admitted(s, c) ==
    /\ c.pc = "auth" =>
          /\ s[c.token].state # "free"
          /\ s[c.token].state = "valid" => c.entitled
    /\ c.pc \in {"update", "event"} /\ c.browser # None =>
          /\ c.token \in Tokens
          /\ s[c.token].state # "free"
          /\ c.entitled
          /\ c.user = s[c.token].user

CookiesInUse(k, s) == \A b \in Browsers : k[b] # None => s[k[b]].state # "free"

SessionInv ==
    /\ \A w \in Workers : Admitted(sessions, call[w])
    /\ CookiesInUse(cookie, sessions)

LEMMA AdmittedKept ==
    ASSUME NEW s, NEW n, NEW c \in Frame, CallOK(c), Ages(s, n), Admitted(s, c)
    PROVE  Admitted(n, c)
  BY DEF CallOK, Ages, Admitted

LEMMA SessionInvInit == Init => SessionInv
  BY DEF Init, SessionInv, Admitted, CookiesInUse, IdleFrame

LEMMA SessionInvNext == TypeInv /\ SessionInv /\ [Next]_vars => SessionInv'
<1> SUFFICES ASSUME TypeInv, SessionInv, [Next]_vars PROVE SessionInv'
  OBVIOUS
<1>1. Ages(sessions, sessions')
  BY SessionsAge
<1>2. /\ call \in [Workers -> Frame] /\ \A w \in Workers : CallOK(call[w])
      /\ cookie \in [Browsers -> Tokens \cup {None}]
  BY DEF TypeInv, Calls, Tables
<1>3. ASSUME NEW w \in Workers PROVE Admitted(sessions', call'[w])
  <2>1. CASE call'[w] = call[w]
    BY <1>1, <1>2, <2>1, AdmittedKept DEF SessionInv
  <2>2. CASE call'[w].pc \in {"idle", "create", "session"}
    BY <2>2 DEF Admitted
  <2>3. CASE \E b \in Browsers, a \in Act, i \in Incidents \cup {None} : Press(w, b, a, i)
    <3>1. PICK b \in Browsers, a \in Act, i \in Incidents \cup {None} : Press(w, b, a, i)
      BY <2>3
    <3>2. /\ call'[w].pc = "auth" /\ call'[w].token = cookie[b]
          /\ call'[w].entitled = (sessions[cookie[b]].state = "valid")
          /\ cookie[b] # None /\ UNCHANGED sessions
      BY <1>2, <3>1 DEF Press, IdleFrame
    <3> QED BY <3>2 DEF Admitted, SessionInv, CookiesInUse
  <2>4. CASE \/ \E names \in SUBSET Incidents, a \in Act : SlackCommand(w, names, a)
             \/ \E i \in Incidents : SourceResolved(w, i)
    <3>1. call'[w].pc = "update" /\ call'[w].browser = None
      <4>1. CASE \E names \in SUBSET Incidents, a \in Act : SlackCommand(w, names, a)
        BY <1>2, <4>1 DEF SlackCommand, IdleFrame
      <4>2. CASE \E i \in Incidents : SourceResolved(w, i)
        BY <1>2, <4>2 DEF SourceResolved, IdleFrame
      <4> QED BY <2>4, <4>1, <4>2
    <3> QED BY <3>1 DEF Admitted
  <2>5. CASE SessionUser(w)
    <3> DEFINE c == call[w]
               s == sessions[c.token]
    <3>1. /\ c.pc = "auth" /\ c.token \in Tokens /\ c \in Frame /\ UNCHANGED sessions
          /\ s.state # "free" /\ (s.state = "valid" => c.entitled)
      BY <1>2, <2>5 DEF SessionUser, CallOK, SessionInv, Admitted
    <3>2. CASE s.state = "valid"
      <4>1. call' = [call EXCEPT ![w].pc = "update", ![w].user = s.user]
        BY <2>5, <3>2 DEF SessionUser
      <4>2. call'[w] = [c EXCEPT !.pc = "update", !.user = s.user]
        BY <1>2, <4>1
      <4>3. /\ call'[w].pc = "update" /\ call'[w].user = s.user
            /\ call'[w].token = c.token /\ call'[w].entitled = c.entitled
        BY <3>1, <4>2 DEF Frame
      <4> QED BY <3>1, <3>2, <4>3 DEF Admitted
    <3>3. CASE s.state # "valid"
      <4>1. call'[w].pc \in {"idle", "expired"}
        BY <1>2, <2>5, <3>3 DEF SessionUser, Return, IdleFrame, Frame
      <4> QED BY <4>1 DEF Admitted
    <3> QED BY <3>2, <3>3
  <2>6. CASE Update(w)
    <3>1. call' = [call EXCEPT ![w].pc = "event"] /\ call[w].pc = "update" /\ UNCHANGED sessions
      BY <2>6 DEF Update
    <3>2. call'[w] = [call[w] EXCEPT !.pc = "event"] /\ call[w] \in Frame
      BY <1>2, <3>1
    <3>3. Admitted(sessions, call[w])
      BY DEF SessionInv
    <3> QED BY <3>1, <3>2, <3>3 DEF Admitted, Frame
  <2> QED BY <2>1, <2>2, <2>3, <2>4, <2>5, <2>6, Frames DEF Advances
<1>4. CookiesInUse(cookie', sessions')
  <2>1. CASE UNCHANGED cookie
    BY <1>1, <1>2, <2>1 DEF SessionInv, CookiesInUse, Ages
  <2>2. ASSUME NEW b \in Browsers, Logout(b) PROVE CookiesInUse(cookie', sessions')
    BY <1>1, <1>2, <2>2 DEF Logout, SessionInv, CookiesInUse, Ages
  <2>3. ASSUME NEW w \in Workers, CreateSession(w) PROVE CookiesInUse(cookie', sessions')
    <3>1. PICK t \in Tokens :
            /\ sessions' = [sessions EXCEPT ![t] = [user |-> call[w].user, state |-> "valid"]]
            /\ cookie' = [cookie EXCEPT ![call[w].browser] = t]
      BY <2>3 DEF CreateSession
    <3>2. sessions'[t].state # "free"
      BY <3>1 DEF TypeInv, Tables
    <3> QED BY <1>1, <1>2, <3>1, <3>2 DEF SessionInv, CookiesInUse, Ages
  <2>4. ASSUME NEW w \in Workers,
               SetupCreate(w) \/ DropExpired(w) \/ Invite(w) \/ AddEvent(w) \/ CallError(w)
                  \/ Advances(w) \/ \E b \in Browsers : SetupCount(w, b) \/ LoginSubmit(w, b)
        PROVE  UNCHANGED cookie
    BY <2>4 DEF SetupCreate, DropExpired, Invite, AddEvent, CallError, Advances, SessionUser,
                Update, Press, SlackCommand, SourceResolved, SetupCount, LoginSubmit
  <2>5. ASSUME \/ Restart \/ UNCHANGED vars
               \/ \E t \in Tokens : Expire(t)
               \/ \E i \in Incidents : OpenIncident(i) \/ Purge(i)
        PROVE  UNCHANGED cookie
    BY <2>5 DEF Restart, vars, Expire, OpenIncident, Purge
  <2> QED BY <2>1, <2>2, <2>3, <2>4, <2>5 DEF Next, Serve, Advances
<1> QED BY <1>3, <1>4 DEF SessionInv

(* Whatever is done for a browser is done for a session that was good when   *)
(* the request came: SessionUser looks at expires_at, and no session that    *)
(* has ended or been deleted comes back.                                     *)
THEOREM ConsoleEntitled == Spec => []ServedWhileEntitled
<1>1. SessionInv => ServedWhileEntitled
  BY DEF SessionInv, Admitted, ServedWhileEntitled
<1> QED
  BY <1>1, TypeInit, TypeNext, SessionInvInit, SessionInvNext, PTL DEF Spec

-----------------------------------------------------------------------------
(* The row of an incident names who acknowledged it only where it no longer  *)
(* pages, and who resolved it only where it is resolved.                     *)
Named(r) ==
    /\ r.ackBy # None => r.status \in {"acknowledged", "resolved"}
    /\ r.resBy # None => r.status = "resolved"

(* From one step to the next a row goes forward only.                        *)
Rises(r, n) ==
    /\ r.status # "free" => n.status # "free"
    /\ r.status \in {"acknowledged", "resolved", "deleted"} =>
          n.status \in {"acknowledged", "resolved", "deleted"}
    /\ r.status \in {"resolved", "deleted"} => n.status \in {"resolved", "deleted"}
    /\ r.status = "deleted" => n.status = "deleted"
    /\ n.status \in Present =>
          /\ r.ackBy # None => n.ackBy = r.ackBy
          /\ r.resBy # None => n.resBy = r.resBy

LEMMA IncidentStep ==
    ASSUME TypeInv, [Next]_vars
    PROVE  \/ UNCHANGED incidents
           \/ \E w \in Workers : Update(w)
           \/ \E i \in Incidents : OpenIncident(i) \/ Purge(i)
<1>1. ASSUME NEW w \in Workers,
             SetupCreate(w) \/ CreateSession(w) \/ DropExpired(w) \/ Invite(w) \/ AddEvent(w)
                \/ CallError(w) \/ SessionUser(w)
                \/ \E b \in Browsers : SetupCount(w, b) \/ LoginSubmit(w, b)
      PROVE  UNCHANGED incidents
  BY <1>1 DEF SetupCreate, CreateSession, DropExpired, Invite, AddEvent, CallError, SessionUser,
              SetupCount, LoginSubmit
<1>2. ASSUME NEW w \in Workers,
             \/ \E b \in Browsers, a \in Act, i \in Incidents \cup {None} : Press(w, b, a, i)
             \/ \E names \in SUBSET Incidents, a \in Act : SlackCommand(w, names, a)
             \/ \E i \in Incidents : SourceResolved(w, i)
      PROVE  UNCHANGED incidents
  BY <1>2 DEF Press, SlackCommand, SourceResolved
<1>3. ASSUME \/ Restart \/ UNCHANGED vars
             \/ \E b \in Browsers : Logout(b)
             \/ \E t \in Tokens : Expire(t)
      PROVE  UNCHANGED incidents
  BY <1>3 DEF Restart, vars, Logout, Expire
<1> QED
  BY <1>1, <1>2, <1>3 DEF Next, Serve

(* Every step takes a row forward and leaves it in order.                    *)
LEMMA RowStep ==
    ASSUME TypeInv, [Next]_vars, NEW i \in Incidents, Named(incidents[i])
    PROVE  Rises(incidents[i], incidents'[i]) /\ Named(incidents'[i])
<1>1. incidents \in [Incidents -> Incident]
  BY DEF TypeInv, Tables
<1>2. CASE UNCHANGED incidents
  BY <1>2 DEF Rises
<1>3. ASSUME NEW j \in Incidents, OpenIncident(j)
      PROVE  Rises(incidents[i], incidents'[i]) /\ Named(incidents'[i])
  <2> DEFINE n == [incidents[j] EXCEPT !.status = "triggered"]
  <2>1. incidents[j].status = "free" /\ incidents' = [incidents EXCEPT ![j] = n]
    BY <1>1, <1>3 DEF OpenIncident
  <2>2. n.status = "triggered" /\ n.ackBy = incidents[j].ackBy /\ n.resBy = incidents[j].resBy
    BY <1>1 DEF Incident
  <2> HIDE DEF n
  <2>3. CASE i = j
    BY <1>1, <2>1, <2>2, <2>3 DEF Rises, Named
  <2> QED BY <1>1, <2>1, <2>3 DEF Rises
<1>4. ASSUME NEW j \in Incidents, Purge(j)
      PROVE  Rises(incidents[i], incidents'[i]) /\ Named(incidents'[i])
  <2>1. CASE i = j
    BY <1>1, <1>4, <2>1 DEF Purge, Rises, Named, Present
  <2> QED BY <1>1, <1>4, <2>1 DEF Purge, Rises
<1>5. ASSUME NEW w \in Workers, Update(w)
      PROVE  Rises(incidents[i], incidents'[i]) /\ Named(incidents'[i])
  <2> DEFINE j == call[w].inc
             u == call[w].user
  <2>1. call[w].act \in {"acknowledge", "resolve"} /\ j \in Incidents
    BY <1>5 DEF Update, TypeInv, Calls, CallOK
  <2>2. incidents[j] \in Incident
    BY <1>1, <2>1
  <2>3. CASE AcknowledgeIncident(j, u)
    <3> DEFINE n == [incidents[j] EXCEPT !.status = "acknowledged", !.ackBy = u]
    <3>1. incidents' = IF incidents[j].status = "triggered"
                       THEN [incidents EXCEPT ![j] = n] ELSE incidents
      BY <1>1, <2>1, <2>3 DEF AcknowledgeIncident
    <3>2. n.status = "acknowledged" /\ n.resBy = incidents[j].resBy
      BY <2>2 DEF Incident
    <3> HIDE DEF n
    <3>3. CASE i = j /\ incidents[j].status = "triggered"
      BY <1>1, <3>1, <3>2, <3>3 DEF Rises, Named
    <3> QED BY <1>1, <3>1, <3>3 DEF Rises
  <2>4. CASE ResolveIncident(j, u)
    <3> DEFINE n == [incidents[j] EXCEPT !.status = "resolved", !.resBy = u]
    <3>1. incidents' = IF incidents[j].status \in Open
                       THEN [incidents EXCEPT ![j] = n] ELSE incidents
      BY <1>1, <2>1, <2>4 DEF ResolveIncident
    <3>2. n.status = "resolved" /\ n.ackBy = incidents[j].ackBy
      BY <2>2 DEF Incident
    <3> HIDE DEF n
    <3>3. CASE i = j /\ incidents[j].status \in Open
      BY <1>1, <3>1, <3>2, <3>3 DEF Rises, Named, Open
    <3> QED BY <1>1, <3>1, <3>3 DEF Rises
  <2> QED BY <1>5, <2>3, <2>4 DEF Update
<1> QED BY <1>2, <1>3, <1>4, <1>5, IncidentStep

RowInv == \A i \in Incidents : Named(incidents[i])

LEMMA RowInvInit == Init => RowInv
  BY DEF Init, RowInv, Named

LEMMA RowInvNext == TypeInv /\ RowInv /\ [Next]_vars => RowInv'
  BY RowStep DEF RowInv

(* Of two responders the first one stays: the UPDATEs look at the status,    *)
(* and an incident that names somebody no longer has the status they ask for.*)
THEOREM ConsoleFirstResponder == Spec => FirstResponderStays
<1>1. TypeInv /\ RowInv /\ [Next]_vars =>
        [\A i \in Incidents : incidents'[i].status \in Present =>
           /\ incidents[i].ackBy # None => incidents'[i].ackBy = incidents[i].ackBy
           /\ incidents[i].resBy # None => incidents'[i].resBy = incidents[i].resBy]_vars
  BY RowStep DEF RowInv, Rises
<1> QED
  BY <1>1, TypeInit, TypeNext, RowInvInit, RowInvNext, PTL DEF Spec, FirstResponderStays

-----------------------------------------------------------------------------
(* A request that is to log something finds the incident as far as it says,  *)
(* or gone; one on its way knows of an incident that has been opened.        *)
Behind(inc, c) ==
    /\ c.pc \in {"auth", "update", "event"} /\ c.act # "invite" => inc[c.inc].status # "free"
    /\ c.pc = "event" /\ c.act = "acknowledge" =>
          inc[c.inc].status \in {"acknowledged", "resolved", "deleted"}
    /\ c.pc = "event" /\ c.act = "resolve" => inc[c.inc].status \in {"resolved", "deleted"}

(* What the timeline of an incident may say.                                 *)
Told(r, log) ==
    /\ \A e \in log : /\ e[1] = "acknowledged" => r.status \in {"acknowledged", "resolved"}
                      /\ e[1] = "resolved" => r.status = "resolved"
    /\ r.status \in {"free", "deleted"} => log = {}

EventInv ==
    /\ \A w \in Workers : Behind(incidents, call[w])
    /\ \A i \in Incidents : Told(incidents[i], timeline[i])

LEMMA BehindKept ==
    ASSUME NEW inc, NEW n, NEW c \in Frame, CallOK(c), Behind(inc, c),
           \A i \in Incidents : Rises(inc[i], n[i])
    PROVE  Behind(n, c)
  BY DEF CallOK, Behind, Rises

LEMMA EventInvInit == Init => EventInv
  BY DEF Init, EventInv, Behind, Told, IdleFrame

LEMMA EventInvNext == TypeInv /\ RowInv /\ EventInv /\ [Next]_vars => EventInv'
<1> SUFFICES ASSUME TypeInv, RowInv, EventInv, [Next]_vars PROVE EventInv'
  OBVIOUS
<1>1. \A i \in Incidents : Rises(incidents[i], incidents'[i])
  BY RowStep DEF RowInv
<1>2. /\ call \in [Workers -> Frame] /\ \A w \in Workers : CallOK(call[w])
      /\ incidents \in [Incidents -> Incident]
      /\ timeline \in [Incidents -> SUBSET ({"acknowledged", "resolved"} \X (Users \cup {Source}))]
  BY DEF TypeInv, Calls, Tables
<1>3. ASSUME NEW w \in Workers PROVE Behind(incidents', call'[w])
  <2>1. CASE call'[w] = call[w]
    BY <1>1, <1>2, <2>1, BehindKept DEF EventInv
  <2>2. CASE call'[w].pc \in {"idle", "create", "session"}
    BY <2>2 DEF Behind
  <2>3. CASE \E b \in Browsers, a \in Act, i \in Incidents \cup {None} : Press(w, b, a, i)
    <3>1. PICK b \in Browsers, a \in Act, i \in Incidents \cup {None} : Press(w, b, a, i)
      BY <2>3
    <3>2. /\ call'[w].pc = "auth" /\ call'[w].act = a /\ call'[w].inc = i
          /\ UNCHANGED incidents /\ (a # "invite" => incidents[i].status # "free")
      BY <1>2, <3>1 DEF Press, IdleFrame
    <3> QED BY <3>2 DEF Behind
  <2>4. CASE \E names \in SUBSET Incidents, a \in Act : SlackCommand(w, names, a)
    <3>1. PICK names \in SUBSET Incidents, a \in Act : SlackCommand(w, names, a)
      BY <2>4
    <3>2. PICK i \in names :
            /\ {j \in names : incidents[j].status \in Open} = {i}
            /\ call'[w].pc = "update" /\ call'[w].inc = i
      BY <1>2, <3>1 DEF SlackCommand, IdleFrame
    <3>3. incidents[i].status \in Open /\ UNCHANGED incidents
      BY <3>1, <3>2 DEF SlackCommand
    <3> QED BY <3>2, <3>3 DEF Behind, Open
  <2>5. CASE \E i \in Incidents : SourceResolved(w, i)
    <3>1. PICK i \in Incidents : SourceResolved(w, i)
      BY <2>5
    <3>2. /\ call'[w].pc = "update" /\ call'[w].inc = i
          /\ incidents[i].status \in Open /\ UNCHANGED incidents
      BY <1>2, <3>1 DEF SourceResolved, IdleFrame
    <3> QED BY <3>2 DEF Behind, Open
  <2>6. CASE SessionUser(w)
    <3> DEFINE c == call[w]
               s == sessions[c.token]
    <3>1. c.pc = "auth" /\ c \in Frame /\ UNCHANGED incidents /\ Behind(incidents, c)
      BY <1>2, <2>6 DEF SessionUser, EventInv
    <3>2. CASE s.state = "valid"
      <4>1. call' = [call EXCEPT ![w].pc = "update", ![w].user = s.user]
        BY <2>6, <3>2 DEF SessionUser
      <4>2. call'[w] = [c EXCEPT !.pc = "update", !.user = s.user]
        BY <1>2, <4>1
      <4>3. call'[w].pc = "update" /\ call'[w].act = c.act /\ call'[w].inc = c.inc
        BY <3>1, <4>2 DEF Frame
      <4> QED BY <3>1, <4>3 DEF Behind
    <3>3. CASE s.state # "valid"
      <4>1. call'[w].pc \in {"idle", "expired"}
        BY <1>2, <2>6, <3>3 DEF SessionUser, Return, IdleFrame, Frame
      <4> QED BY <4>1 DEF Behind
    <3> QED BY <3>2, <3>3
  <2>7. CASE Update(w)
    <3> DEFINE c == call[w]
               i == c.inc
    <3>1. /\ c.pc = "update" /\ c.act \in {"acknowledge", "resolve"}
          /\ i \in Incidents /\ c \in Frame
          /\ call' = [call EXCEPT ![w].pc = "event"]
      BY <1>2, <2>7 DEF Update, CallOK
    <3>2. call'[w].pc = "event" /\ call'[w].act = c.act /\ call'[w].inc = i
      BY <1>2, <3>1 DEF Frame
    <3>3. incidents[i].status # "free" /\ incidents[i] \in Incident
      BY <1>2, <3>1 DEF EventInv, Behind
    <3>4. incidents'[i].status # "free"
      BY <1>1, <3>1, <3>3 DEF Rises
    <3>5. c.act = "acknowledge" =>
            incidents'[i].status \in {"acknowledged", "resolved", "deleted"}
      <4>1. SUFFICES ASSUME c.act = "acknowledge"
                     PROVE  incidents'[i].status \in {"acknowledged", "resolved", "deleted"}
        OBVIOUS
      <4>2. AcknowledgeIncident(i, c.user)
        BY <2>7, <4>1 DEF Update
      <4>3. CASE incidents[i].status = "triggered"
        BY <1>2, <3>1, <3>3, <4>2, <4>3 DEF AcknowledgeIncident, Incident
      <4>4. CASE incidents[i].status # "triggered"
        BY <3>3, <4>2, <4>4 DEF AcknowledgeIncident, Incident
      <4> QED BY <4>3, <4>4
    <3>6. c.act = "resolve" => incidents'[i].status \in {"resolved", "deleted"}
      <4>1. SUFFICES ASSUME c.act = "resolve"
                     PROVE  incidents'[i].status \in {"resolved", "deleted"}
        OBVIOUS
      <4>2. ResolveIncident(i, c.user)
        BY <2>7, <4>1 DEF Update
      <4>3. CASE incidents[i].status \in Open
        BY <1>2, <3>1, <3>3, <4>2, <4>3 DEF ResolveIncident, Incident
      <4>4. CASE incidents[i].status \notin Open
        BY <3>3, <4>2, <4>4 DEF ResolveIncident, Incident, Open
      <4> QED BY <4>3, <4>4
    <3> HIDE DEF c
    <3> QED BY <3>1, <3>2, <3>4, <3>5, <3>6 DEF Behind
  <2> QED BY <2>1, <2>2, <2>3, <2>4, <2>5, <2>6, <2>7, Frames DEF Advances
<1>4. ASSUME NEW i \in Incidents PROVE Told(incidents'[i], timeline'[i])
  <2>1. incidents[i] \in Incident /\ Told(incidents[i], timeline[i])
        /\ Rises(incidents[i], incidents'[i]) /\ Named(incidents[i])
    BY <1>1, <1>2 DEF EventInv, RowInv
  <2>2. CASE UNCHANGED <<incidents, timeline>>
    BY <2>1, <2>2
  <2>3. ASSUME NEW w \in Workers, Update(w) PROVE Told(incidents'[i], timeline'[i])
    <3> DEFINE j == call[w].inc
    <3>1. /\ j \in Incidents /\ UNCHANGED timeline /\ incidents[j].status # "free"
          /\ call[w].act \in {"acknowledge", "resolve"} /\ call[w].pc = "update"
      BY <1>2, <2>3 DEF Update, CallOK, EventInv, Behind
    <3>2. \/ incidents'[i] = incidents[i]
          \/ /\ incidents[i].status \in Open
             /\ incidents'[i].status \in {"acknowledged", "resolved"}
             /\ incidents'[i].status = "acknowledged" => incidents[i].status = "triggered"
      <4>1. CASE AcknowledgeIncident(j, call[w].user)
        BY <1>2, <2>1, <3>1, <4>1 DEF AcknowledgeIncident, Incident, Open
      <4>2. CASE ResolveIncident(j, call[w].user)
        BY <1>2, <2>1, <3>1, <4>2 DEF ResolveIncident, Incident, Open
      <4> QED BY <2>3, <4>1, <4>2 DEF Update
    <3> QED BY <2>1, <3>1, <3>2 DEF Told, Open
  <2>4. ASSUME NEW j \in Incidents, OpenIncident(j) PROVE Told(incidents'[i], timeline'[i])
    <3>1. incidents[i].status # "free" => incidents'[i] = incidents[i]
      BY <1>2, <2>4 DEF OpenIncident
    <3>2. incidents[i].status = "free" => incidents'[i].status \in {"free", "triggered"}
      BY <1>2, <2>1, <2>4 DEF OpenIncident, Incident
    <3> QED BY <2>1, <2>4, <3>1, <3>2 DEF Told, OpenIncident
  <2>5. ASSUME NEW j \in Incidents, Purge(j) PROVE Told(incidents'[i], timeline'[i])
    BY <1>2, <2>1, <2>5 DEF Purge, Told
  <2>6. ASSUME NEW w \in Workers, AddEvent(w) PROVE Told(incidents'[i], timeline'[i])
    <3> DEFINE j == call[w].inc
               e == <<EventOf[call[w].act], call[w].user>>
    <3>1. /\ j \in Incidents /\ call[w].act \in {"acknowledge", "resolve"}
          /\ call[w].pc = "event" /\ UNCHANGED incidents
      BY <1>2, <2>6 DEF AddEvent, CallOK, Act
    <3>2. \/ timeline'[i] = timeline[i]
          \/ /\ i = j
             /\ incidents[j].status \in Present
             /\ timeline'[i] = timeline[i] \cup {e}
      BY <1>2, <2>6 DEF AddEvent
    <3>3. /\ e[1] = "acknowledged" => call[w].act = "acknowledge"
          /\ e[1] = "resolved" => call[w].act = "resolve"
      BY <3>1 DEF EventOf
    <3>4. Behind(incidents, call[w])
      BY DEF EventInv
    <3> HIDE DEF e
    <3> QED BY <2>1, <3>1, <3>2, <3>3, <3>4 DEF Told, Behind, Present
  <2>7. ASSUME NEW w \in Workers,
               SetupCreate(w) \/ CreateSession(w) \/ DropExpired(w) \/ Invite(w)
                  \/ CallError(w) \/ SessionUser(w)
                  \/ \E b \in Browsers : SetupCount(w, b) \/ LoginSubmit(w, b)
        PROVE  UNCHANGED <<incidents, timeline>>
    BY <2>7 DEF SetupCreate, CreateSession, DropExpired, Invite, CallError, SessionUser,
                SetupCount, LoginSubmit
  <2>8. ASSUME NEW w \in Workers,
               \/ \E b \in Browsers, a \in Act, k \in Incidents \cup {None} : Press(w, b, a, k)
               \/ \E names \in SUBSET Incidents, a \in Act : SlackCommand(w, names, a)
               \/ \E k \in Incidents : SourceResolved(w, k)
        PROVE  UNCHANGED <<incidents, timeline>>
    BY <2>8 DEF Press, SlackCommand, SourceResolved
  <2>9. ASSUME \/ Restart \/ UNCHANGED vars
               \/ \E b \in Browsers : Logout(b)
               \/ \E t \in Tokens : Expire(t)
        PROVE  UNCHANGED <<incidents, timeline>>
    BY <2>9 DEF Restart, vars, Logout, Expire
  <2> QED BY <2>2, <2>3, <2>4, <2>5, <2>6, <2>7, <2>8, <2>9 DEF Next, Serve
<1> QED BY <1>3, <1>4 DEF EventInv

(* The timeline never runs ahead of the incident: the event is written only  *)
(* after the UPDATE, and after it, whatever it met, the incident is as far.  *)
THEOREM ConsoleEventsFollow == Spec => []EventsFollowUpdates
<1>1. EventInv => EventsFollowUpdates
  BY DEF EventInv, Told, EventsFollowUpdates
<1> QED
  BY <1>1, TypeInit, TypeNext, RowInvInit, RowInvNext, EventInvInit, EventInvNext, PTL DEF Spec

-----------------------------------------------------------------------------
(* Requests past the count of users, that have not created theirs yet.       *)
Creating == {w \in Workers : call[w].pc = "create"}

SetupInv ==
    /\ \A u \in founders : Exists(u)
    /\ Cardinality(founders) + Cardinality(Creating) <= Cardinality(Workers)

LEMMA CreatingFinite ==
    ASSUME TypeInv
    PROVE  /\ IsFiniteSet(founders) /\ Cardinality(founders) \in Nat
           /\ IsFiniteSet(Creating) /\ Cardinality(Creating) \in Nat
           /\ Cardinality(Workers) \in Nat
<1>1. IsFiniteSet(founders) /\ IsFiniteSet(Creating)
  BY FS_Subset DEF TypeInv, Tables, Creating
<1> QED BY <1>1, FS_CardinalityType

(* Only SetupCount brings a request there, and nobody is ever deleted.       *)
LEMMA CreatingStep ==
    ASSUME TypeInv, [Next]_vars
    PROVE  \/ \E w \in Workers, b \in Browsers : SetupCount(w, b)
           \/ \E w \in Workers : SetupCreate(w)
           \/ /\ \A w \in Workers : call'[w].pc = "create" => call[w].pc = "create"
              /\ UNCHANGED founders
              /\ \A u \in Users : Exists(u) => Exists(u)'
<1>1. call \in [Workers -> Frame] /\ users \in [Users -> {"none", "member", "admin"}]
  BY DEF TypeInv, Calls, Tables
<1>2. ASSUME NEW v \in Workers,
             \/ CreateSession(v) \/ DropExpired(v) \/ AddEvent(v) \/ CallError(v)
             \/ \E b \in Browsers : LoginSubmit(v, b)
      PROVE  /\ \A w \in Workers : call'[w].pc = "create" => call[w].pc = "create"
             /\ UNCHANGED <<users, founders>>
  <2>1. CASE \E b \in Browsers : LoginSubmit(v, b)
    BY <1>1, <2>1 DEF LoginSubmit, IdleFrame
  <2>2. CASE CreateSession(v) \/ DropExpired(v) \/ AddEvent(v) \/ CallError(v)
    <3>1. Return(v) /\ UNCHANGED <<users, founders>>
      BY <2>2 DEF CreateSession, DropExpired, AddEvent, CallError
    <3> QED BY <1>1, <3>1 DEF Return, IdleFrame
  <2> QED BY <1>2, <2>1, <2>2
<1>3. ASSUME NEW v \in Workers, Invite(v)
      PROVE  /\ \A w \in Workers : call'[w].pc = "create" => call[w].pc = "create"
             /\ UNCHANGED founders
             /\ \A u \in Users : Exists(u) => Exists(u)'
  <2>1. Return(v) /\ UNCHANGED founders
    BY <1>3 DEF Invite
  <2>2. \/ UNCHANGED users
        \/ \E u \in Users, r \in {"member", "admin"} :
              ~Exists(u) /\ users' = [users EXCEPT ![u] = r]
    BY <1>3 DEF Invite
  <2>3. \A u \in Users : Exists(u) => Exists(u)'
    BY <1>1, <2>2 DEF Exists
  <2>4. \A w \in Workers : call'[w].pc = "create" => call[w].pc = "create"
    BY <1>1, <2>1 DEF Return, IdleFrame
  <2> QED BY <2>1, <2>3, <2>4
<1>4. ASSUME NEW v \in Workers, Advances(v)
      PROVE  /\ \A w \in Workers : call'[w].pc = "create" => call[w].pc = "create"
             /\ UNCHANGED <<users, founders>>
  <2>1. UNCHANGED <<users, founders>>
    BY <1>4 DEF Advances, Press, SlackCommand, SourceResolved, SessionUser, Update
  <2>2. CASE SessionUser(v)
    <3>1. \/ call' = [call EXCEPT ![v].pc = "update", ![v].user = sessions[call[v].token].user]
          \/ call' = [call EXCEPT ![v].pc = "expired"]
          \/ Return(v)
      BY <2>2 DEF SessionUser
    <3>2. CASE call' = [call EXCEPT ![v].pc = "update", ![v].user = sessions[call[v].token].user]
      <4> DEFINE u == sessions[call[v].token].user
      <4>1. call' = [call EXCEPT ![v].pc = "update", ![v].user = u]
        BY <3>2
      <4> HIDE DEF u
      <4>2. call'[v] = [call[v] EXCEPT !.pc = "update", !.user = u] /\ call[v] \in Frame
        BY <1>1, <4>1
      <4>3. call'[v].pc = "update"
        BY <4>2 DEF Frame
      <4>4. \A w \in Workers : w # v => call'[w] = call[w]
        BY <1>1, <4>1
      <4> QED BY <2>1, <4>3, <4>4
    <3>3. CASE call' = [call EXCEPT ![v].pc = "expired"] \/ Return(v)
      BY <1>1, <2>1, <3>3 DEF Return, IdleFrame, Frame
    <3> QED BY <3>1, <3>2, <3>3
  <2>3. CASE Update(v)
    <3>1. call' = [call EXCEPT ![v].pc = "event"]
      BY <2>3 DEF Update
    <3> QED BY <1>1, <2>1, <3>1 DEF Frame
  <2>4. CASE \E b \in Browsers, a \in Act, i \in Incidents \cup {None} : Press(v, b, a, i)
    BY <1>1, <2>1, <2>4 DEF Press, IdleFrame
  <2>5. CASE \E names \in SUBSET Incidents, a \in Act : SlackCommand(v, names, a)
    BY <1>1, <2>1, <2>5 DEF SlackCommand, IdleFrame
  <2>6. CASE \E i \in Incidents : SourceResolved(v, i)
    BY <1>1, <2>1, <2>6 DEF SourceResolved, IdleFrame
  <2> QED BY <1>4, <2>2, <2>3, <2>4, <2>5, <2>6 DEF Advances
<1>5. CASE Restart
  BY <1>5 DEF Restart, IdleFrame, Exists
<1>6. CASE \/ UNCHANGED vars
           \/ \E b \in Browsers : Logout(b)
           \/ \E t \in Tokens : Expire(t)
           \/ \E i \in Incidents : OpenIncident(i) \/ Purge(i)
  BY <1>6 DEF vars, Logout, Expire, OpenIncident, Purge, Exists
<1> QED
  BY <1>2, <1>3, <1>4, <1>5, <1>6 DEF Next, Serve, Advances, Exists

LEMMA SetupInvInit == Init => SetupInv
<1> SUFFICES ASSUME Init PROVE SetupInv
  OBVIOUS
<1>1. founders = {} /\ Creating = {}
  BY DEF Init, Creating, IdleFrame
<1> QED BY <1>1, FS_EmptySet, FS_CardinalityType DEF SetupInv

LEMMA SetupInvNext == TypeInv /\ SetupInv /\ [Next]_vars => SetupInv'
<1> SUFFICES ASSUME TypeInv, SetupInv, [Next]_vars PROVE SetupInv'
  OBVIOUS
<1>1. /\ call \in [Workers -> Frame] /\ users \in [Users -> {"none", "member", "admin"}]
      /\ founders \subseteq Users
  BY DEF TypeInv, Calls, Tables
<1>2. /\ IsFiniteSet(founders) /\ Cardinality(founders) \in Nat
      /\ IsFiniteSet(Creating) /\ Cardinality(Creating) \in Nat
      /\ Cardinality(Workers) \in Nat
      /\ IsFiniteSet(Creating') /\ Cardinality(Creating') \in Nat
  <2>1. Creating' \in SUBSET Workers
    BY DEF Creating
  <2>2. IsFiniteSet(Creating')
    BY <2>1, FS_Subset
  <2> QED BY <2>2, CreatingFinite, FS_CardinalityType
<1>3. ASSUME NEW w \in Workers, NEW b \in Browsers, SetupCount(w, b) PROVE SetupInv'
  <2>1. founders = {} /\ UNCHANGED <<users, founders>>
    BY <1>1, <1>3 DEF SetupCount, SetupInv
  <2>2. Creating' \in SUBSET Workers
    BY DEF Creating
  <2>3. Cardinality(Creating') <= Cardinality(Workers)
    BY <2>2, FS_Subset
  <2>4. Cardinality(founders') = 0
    BY <2>1, FS_EmptySet
  <2>5. \A u \in founders' : Exists(u)'
    BY <2>1
  <2> QED BY <1>2, <2>3, <2>4, <2>5 DEF SetupInv
<1>4. ASSUME NEW w \in Workers, SetupCreate(w) PROVE SetupInv'
  <2>1. w \in Creating
    BY <1>4 DEF SetupCreate, Creating
  <2>2. PICK u \in Users :
            IF Exists(u) THEN Return(w) /\ UNCHANGED <<users, founders>>
            ELSE /\ users' = [users EXCEPT ![u] = "admin"]
                 /\ founders' = founders \cup {u}
                 /\ call' = [call EXCEPT ![w].pc = "session", ![w].user = u]
    BY <1>4 DEF SetupCreate
  <2>3. CASE Exists(u)
    <3>1. Creating' \in SUBSET Creating
      BY <1>1, <2>2, <2>3 DEF Creating, Return, IdleFrame
    <3>2. Cardinality(Creating') <= Cardinality(Creating)
      BY <1>2, <3>1, FS_Subset
    <3>3. founders' = founders /\ users' = users
      BY <2>2, <2>3
    <3> QED BY <1>2, <3>2, <3>3 DEF SetupInv, Exists
  <2>4. CASE ~Exists(u)
    <3>1. u \notin founders
      BY <2>4 DEF SetupInv
    <3>2. Cardinality(founders') = Cardinality(founders) + 1
      BY <1>2, <2>2, <2>4, <3>1, FS_AddElement
    <3>3. call'[w].pc = "session" /\ \A v \in Workers : v # w => call'[v] = call[v]
      <4>1. call'[w] = [call[w] EXCEPT !.pc = "session", !.user = u] /\ call[w] \in Frame
        BY <1>1, <2>2, <2>4
      <4>2. \A v \in Workers : v # w => call'[v] = call[v]
        BY <1>1, <2>2, <2>4
      <4> QED BY <4>1, <4>2 DEF Frame
    <3>4. Creating' \in SUBSET (Creating \ {w})
      BY <3>3 DEF Creating
    <3>5. IsFiniteSet(Creating \ {w}) /\ Cardinality(Creating \ {w}) = Cardinality(Creating) - 1
      BY <1>2, <2>1, FS_RemoveElement
    <3>6. Cardinality(Creating') <= Cardinality(Creating) - 1
      BY <3>4, <3>5, FS_Subset
    <3>7. \A x \in founders' : Exists(x)'
      BY <1>1, <2>2, <2>4 DEF SetupInv, Exists
    <3>8. Cardinality(founders') + Cardinality(Creating') <= Cardinality(Workers)
      BY <1>2, <3>2, <3>6 DEF SetupInv
    <3> QED BY <3>7, <3>8 DEF SetupInv
  <2> QED BY <2>3, <2>4
<1>5. ASSUME \A w \in Workers : call'[w].pc = "create" => call[w].pc = "create",
             UNCHANGED founders,
             \A u \in Users : Exists(u) => Exists(u)'
      PROVE  SetupInv'
  <2>1. Creating' \in SUBSET Creating
    BY <1>5 DEF Creating
  <2>2. Cardinality(Creating') <= Cardinality(Creating)
    BY <1>2, <2>1, FS_Subset
  <2>3. \A u \in founders' : Exists(u)'
    BY <1>1, <1>5 DEF SetupInv
  <2> QED BY <1>2, <1>5, <2>2, <2>3 DEF SetupInv
<1> QED BY <1>3, <1>4, <1>5, CreatingStep

(* The setup never makes more admins than there were requests at once: the   *)
(* count of users lets nobody past once there is one, so only those that     *)
(* were past it by then can still create theirs.                             *)
THEOREM ConsoleSetupBound == Spec => []SetupBound
<1>1. SetupInv => SetupBound
  BY DEF SetupInv, SetupBound, Creating
<1> QED
  BY <1>1, TypeInit, TypeNext, SetupInvInit, SetupInvNext, PTL DEF Spec

-----------------------------------------------------------------------------
(* A request that is to log something logs it, unless a fault ends it.       *)
LEMMA EventFrame ==
    ASSUME TypeInv, [Next]_vars, NEW w \in Workers, call[w].pc = "event"
    PROVE  call'[w] = call[w] \/ AddEvent(w) \/ (faults' = faults + 1 /\ Idle(w)')
<1>1. call \in [Workers -> Frame] /\ faults \in Nat
  BY DEF TypeInv, Calls, Tables
<1>2. ASSUME NEW v \in Workers,
             \/ \E b \in Browsers : SetupCount(v, b) \/ LoginSubmit(v, b)
             \/ \E b \in Browsers, a \in Act, i \in Incidents \cup {None} : Press(v, b, a, i)
             \/ \E names \in SUBSET Incidents, a \in Act : SlackCommand(v, names, a)
             \/ \E i \in Incidents : SourceResolved(v, i)
      PROVE  call'[w] = call[w]
  <2>1. call[v].pc = "idle"
    BY <1>2 DEF SetupCount, LoginSubmit, Press, SlackCommand, SourceResolved, Idle
  <2>2. \E f : call' = [call EXCEPT ![v] = f]
    BY <1>2 DEF SetupCount, LoginSubmit, Press, SlackCommand, SourceResolved
  <2> QED BY <1>1, <2>1, <2>2
<1>3. ASSUME NEW v \in Workers,
             SetupCreate(v) \/ CreateSession(v) \/ DropExpired(v) \/ Invite(v) \/ Update(v)
                \/ SessionUser(v)
      PROVE  call'[w] = call[w]
  <2>1. v # w
    BY <1>3 DEF SetupCreate, CreateSession, DropExpired, Invite, Update, SessionUser
  <2>2. CASE SetupCreate(v)
    BY <1>1, <2>1, <2>2 DEF SetupCreate, Return
  <2>3. CASE CreateSession(v) \/ DropExpired(v) \/ Invite(v)
    BY <1>1, <2>1, <2>3 DEF CreateSession, DropExpired, Invite, Return
  <2>4. CASE Update(v)
    BY <1>1, <2>1, <2>4 DEF Update
  <2>5. CASE SessionUser(v)
    BY <1>1, <2>1, <2>5 DEF SessionUser, Return
  <2> QED BY <1>3, <2>2, <2>3, <2>4, <2>5
<1>4. ASSUME NEW v \in Workers, AddEvent(v) PROVE call'[w] = call[w] \/ AddEvent(w)
  BY <1>1, <1>4 DEF AddEvent, Return
<1>5. ASSUME Restart \/ \E v \in Workers : CallError(v)
      PROVE  call'[w] = call[w] \/ (faults' = faults + 1 /\ Idle(w)')
  BY <1>1, <1>5 DEF Restart, CallError, Return, Idle, IdleFrame
<1>6. CASE \/ UNCHANGED vars
           \/ \E b \in Browsers : Logout(b)
           \/ \E t \in Tokens : Expire(t)
           \/ \E i \in Incidents : OpenIncident(i) \/ Purge(i)
  BY <1>6 DEF vars, Logout, Expire, OpenIncident, Purge
<1> QED BY <1>2, <1>3, <1>4, <1>5, <1>6 DEF Next, Serve

(* The timeline of an incident that stays only grows.                        *)
LEMMA TimelineGrows ==
    ASSUME TypeInv, [Next]_vars, NEW i \in Incidents, incidents'[i].status \in Present
    PROVE  timeline[i] \subseteq timeline'[i]
<1>1. /\ timeline \in [Incidents -> SUBSET ({"acknowledged", "resolved"} \X (Users \cup {Source}))]
      /\ incidents \in [Incidents -> Incident]
  BY DEF TypeInv, Tables
<1>2. ASSUME NEW w \in Workers, AddEvent(w) PROVE timeline[i] \subseteq timeline'[i]
  BY <1>1, <1>2 DEF AddEvent
<1>3. ASSUME NEW j \in Incidents, Purge(j) PROVE timeline[i] \subseteq timeline'[i]
  <2>1. i # j
    BY <1>1, <1>3 DEF Purge, Present
  <2> QED BY <1>1, <1>3, <2>1 DEF Purge
<1>4. ASSUME NEW w \in Workers,
             SetupCreate(w) \/ CreateSession(w) \/ DropExpired(w) \/ Invite(w) \/ CallError(w)
                \/ Advances(w) \/ \E b \in Browsers : SetupCount(w, b) \/ LoginSubmit(w, b)
      PROVE  UNCHANGED timeline
  BY <1>4 DEF SetupCreate, CreateSession, DropExpired, Invite, CallError, Advances, SessionUser,
              Update, Press, SlackCommand, SourceResolved, SetupCount, LoginSubmit
<1>5. ASSUME \/ Restart \/ UNCHANGED vars
             \/ \E b \in Browsers : Logout(b)
             \/ \E t \in Tokens : Expire(t)
             \/ \E j \in Incidents : OpenIncident(j)
      PROVE  UNCHANGED timeline
  BY <1>5 DEF Restart, vars, Logout, Expire, OpenIncident
<1> QED BY <1>2, <1>3, <1>4, <1>5 DEF Next, Serve, Advances

(* What an UPDATE does to the names in a row, and what its request then is   *)
(* about to log.                                                             *)
LEMMA NamesStep ==
    ASSUME TypeInv, [Next]_vars, NEW i \in Incidents
    PROVE  /\ \/ incidents'[i].ackBy \in {incidents[i].ackBy, None}
              \/ \E w \in Workers :
                    /\ call'[w].pc = "event" /\ call'[w].inc = i
                    /\ call'[w].act = "acknowledge" /\ call'[w].user = incidents'[i].ackBy
           /\ \/ incidents'[i].resBy \in {incidents[i].resBy, None}
              \/ \E w \in Workers :
                    /\ call'[w].pc = "event" /\ call'[w].inc = i
                    /\ call'[w].act = "resolve" /\ call'[w].user = incidents'[i].resBy
<1>1. incidents \in [Incidents -> Incident] /\ call \in [Workers -> Frame]
  BY DEF TypeInv, Tables, Calls
<1>2. ASSUME NEW j \in Incidents, OpenIncident(j) \/ Purge(j)
      PROVE  /\ incidents'[i].ackBy \in {incidents[i].ackBy, None}
             /\ incidents'[i].resBy \in {incidents[i].resBy, None}
  <2>1. CASE i # j
    BY <1>1, <1>2, <2>1 DEF OpenIncident, Purge
  <2>2. CASE i = j /\ Purge(j)
    BY <1>1, <2>2 DEF Purge
  <2>3. CASE i = j /\ OpenIncident(j)
    <3>1. incidents'[i] = [incidents[i] EXCEPT !.status = "triggered"]
      BY <1>1, <2>3 DEF OpenIncident
    <3> QED BY <1>1, <3>1 DEF Incident
  <2> QED BY <1>2, <2>1, <2>2, <2>3
<1>3. ASSUME NEW w \in Workers, Update(w)
      PROVE  /\ \/ incidents'[i].ackBy \in {incidents[i].ackBy, None}
                \/ /\ call'[w].pc = "event" /\ call'[w].inc = i
                   /\ call'[w].act = "acknowledge" /\ call'[w].user = incidents'[i].ackBy
             /\ \/ incidents'[i].resBy \in {incidents[i].resBy, None}
                \/ /\ call'[w].pc = "event" /\ call'[w].inc = i
                   /\ call'[w].act = "resolve" /\ call'[w].user = incidents'[i].resBy
  <2> DEFINE c == call[w]
  <2>1. call'[w] = [c EXCEPT !.pc = "event"] /\ c \in Frame
    BY <1>1, <1>3 DEF Update
  <2>2. call'[w].pc = "event" /\ call'[w].inc = c.inc /\ call'[w].act = c.act
        /\ call'[w].user = c.user
    BY <2>1 DEF Frame
  <2>3. \/ c.act = "acknowledge" /\ AcknowledgeIncident(c.inc, c.user)
        \/ c.act = "resolve" /\ ResolveIncident(c.inc, c.user)
    BY <1>3 DEF Update
  <2> HIDE DEF c
  <2>4. CASE incidents'[i] = incidents[i]
    BY <2>4
  <2>5. CASE c.act = "acknowledge" /\ incidents'[i] # incidents[i]
    <3>1. incidents' = [incidents EXCEPT ![c.inc].status = "acknowledged",
                                         ![c.inc].ackBy = c.user]
      BY <2>3, <2>5 DEF AcknowledgeIncident
    <3>2. i = c.inc
      BY <1>1, <2>5, <3>1
    <3>3. incidents'[i] = [incidents[i] EXCEPT !.status = "acknowledged", !.ackBy = c.user]
      BY <1>1, <3>1, <3>2
    <3>4. incidents'[i].ackBy = c.user /\ incidents'[i].resBy = incidents[i].resBy
      BY <1>1, <3>3 DEF Incident
    <3> QED BY <2>2, <2>5, <3>2, <3>4
  <2>6. CASE c.act = "resolve" /\ incidents'[i] # incidents[i]
    <3>1. incidents' = [incidents EXCEPT ![c.inc].status = "resolved",
                                         ![c.inc].resBy = c.user]
      BY <2>3, <2>6 DEF ResolveIncident
    <3>2. i = c.inc
      BY <1>1, <2>6, <3>1
    <3>3. incidents'[i] = [incidents[i] EXCEPT !.status = "resolved", !.resBy = c.user]
      BY <1>1, <3>1, <3>2
    <3>4. incidents'[i].resBy = c.user /\ incidents'[i].ackBy = incidents[i].ackBy
      BY <1>1, <3>3 DEF Incident
    <3> QED BY <2>2, <2>6, <3>2, <3>4
  <2> QED BY <2>3, <2>4, <2>5, <2>6
<1> QED BY <1>2, <1>3, IncidentStep

(* The timeline accounts for whoever the row names, but where a fault ended  *)
(* the request that was about to log him: the row is given a name only by a  *)
(* request that goes on to the timeline, and what is logged stays as long as *)
(* the row does.                                                             *)
THEOREM ConsoleTimeline == Spec => TimelineExplainsRow
<1>1. ASSUME TypeInv, RowInv, [Next]_vars, NEW x \in Unexplained' \ Unexplained
      PROVE  /\ faults' = faults + 1
             /\ \E w \in Workers : /\ call[w].pc = "event" /\ Idle(w)'
                                   /\ call[w].inc = x[1] /\ call[w].act = x[2]
  <2>1. PICK i \in Incidents, a \in {"acknowledge", "resolve"} : x = <<i, a>>
    BY <1>1 DEF Unexplained
  <2> DEFINE u == Responder(i, a)'
  <2>2. /\ u # None /\ <<EventOf[a], u>> \notin timeline'[i]
        /\ \A w \in Workers : ~(/\ call'[w].pc = "event" /\ call'[w].inc = i
                                /\ call'[w].act = a /\ call'[w].user = u)
    BY <1>1, <2>1 DEF Unexplained, Logging
  <2>3. u = IF a = "acknowledge" THEN incidents'[i].ackBy ELSE incidents'[i].resBy
    BY DEF Responder
  <2> HIDE DEF u
  <2>4. /\ u = Responder(i, a)
        /\ <<EventOf[a], u>> \in timeline[i] \/ Logging(i, a, u)
        /\ incidents'[i].status \in Present
    <3>1. u = Responder(i, a)
      <4>1. CASE a = "acknowledge"
        BY <1>1, <2>2, <2>3, <4>1, NamesStep DEF Responder
      <4>2. CASE a = "resolve"
        BY <1>1, <2>2, <2>3, <4>2, NamesStep DEF Responder
      <4> QED BY <4>1, <4>2
    <3>2. <<EventOf[a], u>> \in timeline[i] \/ Logging(i, a, u)
      BY <1>1, <2>1, <2>2, <3>1 DEF Unexplained
    <3>3. Named(incidents'[i])
      BY <1>1, RowStep DEF RowInv
    <3> QED BY <2>2, <2>3, <3>1, <3>2, <3>3 DEF Named, Present
  <2>5. Logging(i, a, u)
    BY <1>1, <2>2, <2>4, TimelineGrows
  <2>6. PICK w \in Workers :
            call[w].pc = "event" /\ call[w].inc = i /\ call[w].act = a /\ call[w].user = u
    BY <2>5 DEF Logging
  <2>7. call'[w] # call[w]
    BY <2>2, <2>6
  <2>8. ~AddEvent(w)
    <3>1. SUFFICES ASSUME AddEvent(w) PROVE FALSE
      OBVIOUS
    <3>2. incidents[i].status \in Present
      BY <2>4, <3>1 DEF AddEvent
    <3>3. timeline' = [timeline EXCEPT ![i] = @ \cup {<<EventOf[a], u>>}]
      BY <2>6, <3>1, <3>2 DEF AddEvent
    <3> QED BY <1>1, <2>2, <3>3 DEF TypeInv, Tables
  <2>9. faults' = faults + 1 /\ Idle(w)'
    BY <1>1, <2>6, <2>7, <2>8, EventFrame
  <2> QED BY <2>1, <2>6, <2>9
<1>2. TypeInv /\ RowInv /\ [Next]_vars =>
          [\A x \in Unexplained' \ Unexplained :
              /\ faults' = faults + 1
              /\ \E w \in Workers : /\ call[w].pc = "event" /\ Idle(w)'
                                    /\ call[w].inc = x[1] /\ call[w].act = x[2]]_vars
  BY <1>1
<1> QED
  BY <1>2, TypeInit, TypeNext, RowInvInit, RowInvNext, PTL DEF Spec, TimelineExplainsRow
=============================================================================
