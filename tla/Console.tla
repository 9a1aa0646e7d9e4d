------------------------------ MODULE Console ------------------------------
(***************************************************************************)
(* People at work: the first-run setup, logging in and out, and answering  *)
(* incidents from the web, from a push notification's button and from      *)
(* Slack, while sources report alerts resolved by themselves.  Every       *)
(* request is served by a goroutine of its own, and every statement is a   *)
(* step of its own: the session is looked up, then the incident updated,   *)
(* then the timeline written.                                              *)
(*                                                                         *)
(* Users are known by their e-mail, which is UNIQUE; they are never        *)
(* deleted and never lose or gain is_admin.                                *)
(***************************************************************************)
EXTENDS Naturals, FiniteSets

CONSTANTS
    Users,
    Source,         \* the actor of a resolution that nobody made by hand
    Tokens,         \* bound: session tokens that may ever be drawn
    Browsers,
    Incidents,
    Workers,        \* requests served at the same time
    None,
    MaxFaults       \* bound: failed statements and restarts

ASSUME ConsoleAssumption ==
    /\ IsFiniteSet(Users)
    /\ IsFiniteSet(Workers)
    /\ Source \notin Users
    /\ None \notin Users \cup {Source} \cup Tokens \cup Browsers \cup Incidents
    /\ MaxFaults \in Nat

VARIABLES
    users,      \* users in the table, and which are admins
    sessions,   \* the sessions table, by token
    cookie,     \* the session cookie of each browser
    incidents,  \* status, acknowledged_by and resolved_by
    timeline,   \* incident_events: pairs of event_type and actor
    call,       \* one frame per worker
    founders,   \* history: users created by the setup page
    faults

vars == <<users, sessions, cookie, incidents, timeline, call, founders, faults>>

Session == [user : Users \cup {None}, state : {"free", "valid", "expired", "gone"}]

Incident == [status : {"free", "triggered", "acknowledged", "resolved", "deleted"},
             ackBy : Users \cup {None}, resBy : Users \cup {Source, None}]

Open    == {"triggered", "acknowledged"}
Present == {"triggered", "acknowledged", "resolved"}
Act     == {"acknowledge", "resolve", "invite"}

(* entitled: history, whether the session was good when the request came.    *)
Frame == [pc : {"idle", "create", "session", "auth", "expired", "update", "event"},
          browser : Browsers \cup {None}, token : Tokens \cup {None},
          user : Users \cup {Source, None}, act : Act \cup {None},
          inc : Incidents \cup {None}, entitled : BOOLEAN]

IdleFrame == [pc |-> "idle", browser |-> None, token |-> None, user |-> None,
              act |-> None, inc |-> None, entitled |-> FALSE]

Idle(w)   == call[w].pc = "idle"
Return(w) == call' = [call EXCEPT ![w] = IdleFrame]

Exists(u) == users[u] # "none"

-----------------------------------------------------------------------------
(* Setup, login, logout. *)

(* Mutation: the form is shown only without users, so nobody checks again.   *)
SetupCount_Unchecked(w, b) ==
    /\ Idle(w)
    /\ call' = [call EXCEPT ![w] = [IdleFrame EXCEPT !.pc = "create", !.browser = b]]
    /\ UNCHANGED <<users, sessions, cookie, incidents, timeline, founders, faults>>

(* setupSubmit counts the users; with any it redirects to the login page.    *)
SetupCount(w, b) ==
    /\ Idle(w)
    /\ \A u \in Users : ~Exists(u)
    /\ call' = [call EXCEPT ![w] = [IdleFrame EXCEPT !.pc = "create", !.browser = b]]
    /\ UNCHANGED <<users, sessions, cookie, incidents, timeline, founders, faults>>

(* While the password is hashed others may do the same; only the e-mail is   *)
(* UNIQUE, and one that is taken goes back to the form.                      *)
SetupCreate(w) ==
    /\ call[w].pc = "create"
    /\ \E u \in Users :
          IF Exists(u) THEN Return(w) /\ UNCHANGED <<users, founders>>
          ELSE /\ users' = [users EXCEPT ![u] = "admin"]
               /\ founders' = founders \cup {u}
               /\ call' = [call EXCEPT ![w].pc = "session", ![w].user = u]
    /\ UNCHANGED <<sessions, cookie, incidents, timeline, faults>>

(* loginSubmit, with the right password. *)
LoginSubmit(w, b) ==
    /\ Idle(w)
    /\ \E u \in Users :
          /\ Exists(u)
          /\ call' = [call EXCEPT ![w] = [IdleFrame EXCEPT !.pc = "session",
                                              !.browser = b, !.user = u]]
    /\ UNCHANGED <<users, sessions, cookie, incidents, timeline, founders, faults>>

(* CreateSession and the cookie of the response. *)
CreateSession(w) ==
    /\ call[w].pc = "session"
    /\ \E t \in Tokens :
          /\ sessions[t].state = "free"
          /\ sessions' = [sessions EXCEPT ![t] = [user |-> call[w].user, state |-> "valid"]]
          /\ cookie' = [cookie EXCEPT ![call[w].browser] = t]
    /\ Return(w)
    /\ UNCHANGED <<users, incidents, timeline, founders, faults>>

(* The cookie is cleared even where DeleteSession fails. *)
Logout(b) ==
    /\ cookie[b] # None
    /\ cookie' = [cookie EXCEPT ![b] = None]
    /\ \/ sessions' = [sessions EXCEPT ![cookie[b]].state = "gone"] /\ UNCHANGED faults
       \/ faults < MaxFaults /\ faults' = faults + 1 /\ UNCHANGED sessions
    /\ UNCHANGED <<users, incidents, timeline, call, founders>>

(* The clock passes expires_at. *)
Expire(t) ==
    /\ sessions[t].state = "valid"
    /\ sessions' = [sessions EXCEPT ![t].state = "expired"]
    /\ UNCHANGED <<users, cookie, incidents, timeline, call, founders, faults>>

-----------------------------------------------------------------------------
(* requireAuth. *)

(* A button on a page, or of a push notification, that tells of an incident, *)
(* from a browser whose session may have ended since.                        *)
Press(w, b, a, i) ==
    /\ Idle(w)
    /\ cookie[b] # None
    /\ IF a = "invite" THEN i = None ELSE i # None /\ incidents[i].status # "free"
    /\ call' = [call EXCEPT ![w] =
                  [IdleFrame EXCEPT !.pc = "auth", !.browser = b, !.token = cookie[b], !.act = a,
                       !.inc = i, !.entitled = sessions[cookie[b]].state = "valid"]]
    /\ UNCHANGED <<users, sessions, cookie, incidents, timeline, founders, faults>>

(* Mutation: leaves it to the cookie's MaxAge to end a session. *)
SessionUser_AnyAge(w) ==
    /\ call[w].pc = "auth"
    /\ LET s == sessions[call[w].token]
       IN  IF s.state \notin {"free", "gone"}
           THEN call' = [call EXCEPT ![w].pc = "update", ![w].user = s.user]
           ELSE Return(w)
    /\ UNCHANGED <<users, sessions, cookie, incidents, timeline, founders, faults>>

(* The row and its user; no row, and the request is sent to the login page. *)
SessionUser(w) ==
    /\ call[w].pc = "auth"
    /\ LET s == sessions[call[w].token]
       IN  CASE s.state = "valid"   -> call' = [call EXCEPT ![w].pc = "update", ![w].user = s.user]
             [] s.state = "expired" -> call' = [call EXCEPT ![w].pc = "expired"]
             [] OTHER               -> Return(w)
    /\ UNCHANGED <<users, sessions, cookie, incidents, timeline, founders, faults>>

DropExpired(w) ==
    /\ call[w].pc = "expired"
    /\ sessions' = [sessions EXCEPT ![call[w].token].state = "gone"]
    /\ Return(w)
    /\ UNCHANGED <<users, cookie, incidents, timeline, founders, faults>>

(* requireAdmin and userCreate. *)
Invite(w) ==
    /\ call[w].pc = "update"
    /\ call[w].act = "invite"
    /\ \/ /\ users[call[w].user] = "admin"
          /\ \E u \in Users, r \in {"member", "admin"} :
                ~Exists(u) /\ users' = [users EXCEPT ![u] = r]
       \/ UNCHANGED users
    /\ Return(w)
    /\ UNCHANGED <<sessions, cookie, incidents, timeline, founders, faults>>

-----------------------------------------------------------------------------
(* Answering an incident. *)

(* Mutation: without AND status = 'triggered'. *)
AcknowledgeIncident_Unguarded(i, u) ==
    incidents' = IF incidents[i].status \in Present
                 THEN [incidents EXCEPT ![i].status = "acknowledged", ![i].ackBy = u]
                 ELSE incidents

AcknowledgeIncident(i, u) ==
    incidents' = IF incidents[i].status = "triggered"
                 THEN [incidents EXCEPT ![i].status = "acknowledged", ![i].ackBy = u]
                 ELSE incidents

ResolveIncident(i, u) ==
    incidents' = IF incidents[i].status \in Open
                 THEN [incidents EXCEPT ![i].status = "resolved", ![i].resBy = u]
                 ELSE incidents

(* slackCommand: the user linked at that time, and a prefix that matches the *)
(* ids in names, of which exactly one is open.                               *)
SlackCommand(w, names, a) ==
    /\ Idle(w)
    /\ a # "invite"
    /\ \E u \in Users, i \in names :
          /\ Exists(u)
          /\ {j \in names : incidents[j].status \in Open} = {i}
          /\ call' = [call EXCEPT ![w] = [IdleFrame EXCEPT !.pc = "update", !.user = u,
                                              !.act = a, !.inc = i]]
    /\ UNCHANGED <<users, sessions, cookie, incidents, timeline, founders, faults>>

(* Mutation: a resolved alert acknowledges. *)
SourceResolved_Acknowledges(w, i) ==
    /\ Idle(w)
    /\ incidents[i].status \in Open
    /\ call' = [call EXCEPT ![w] = [IdleFrame EXCEPT !.pc = "update", !.user = Source,
                                        !.act = "acknowledge", !.inc = i]]
    /\ UNCHANGED <<users, sessions, cookie, incidents, timeline, founders, faults>>

(* ResolveByFingerprint has found an open incident. *)
SourceResolved(w, i) ==
    /\ Idle(w)
    /\ incidents[i].status \in Open
    /\ call' = [call EXCEPT ![w] = [IdleFrame EXCEPT !.pc = "update", !.user = Source,
                                        !.act = "resolve", !.inc = i]]
    /\ UNCHANGED <<users, sessions, cookie, incidents, timeline, founders, faults>>

(* Mutation: done once the row is updated. *)
Update_NoEvent(w) ==
    /\ call[w].pc = "update"
    /\ \/ call[w].act = "acknowledge" /\ AcknowledgeIncident(call[w].inc, call[w].user)
       \/ call[w].act = "resolve" /\ ResolveIncident(call[w].inc, call[w].user)
    /\ Return(w)
    /\ UNCHANGED <<users, sessions, cookie, timeline, founders, faults>>

(* Mutation: on an error, on to the timeline all the same. *)
Update_ErrorIgnored(w) ==
    /\ call[w].pc = "update"
    /\ \/ call[w].act = "acknowledge" /\ AcknowledgeIncident(call[w].inc, call[w].user)
             /\ UNCHANGED faults
       \/ call[w].act = "resolve" /\ ResolveIncident(call[w].inc, call[w].user)
             /\ UNCHANGED faults
       \/ call[w].act # "invite" /\ faults < MaxFaults /\ faults' = faults + 1
             /\ UNCHANGED incidents
    /\ call' = [call EXCEPT ![w].pc = "event"]
    /\ UNCHANGED <<users, sessions, cookie, timeline, founders>>

(* The UPDATE, which may meet no row; nobody looks how many it met.          *)
Update(w) ==
    /\ call[w].pc = "update"
    /\ \/ call[w].act = "acknowledge" /\ AcknowledgeIncident(call[w].inc, call[w].user)
       \/ call[w].act = "resolve" /\ ResolveIncident(call[w].inc, call[w].user)
    /\ call' = [call EXCEPT ![w].pc = "event"]
    /\ UNCHANGED <<users, sessions, cookie, timeline, founders, faults>>

EventOf == [acknowledge |-> "acknowledged", resolve |-> "resolved"]

(* AddEvent, which needs the incident's row. *)
AddEvent(w) ==
    /\ call[w].pc = "event"
    /\ timeline' = IF incidents[call[w].inc].status \in Present
                   THEN [timeline EXCEPT ![call[w].inc] = @ \cup
                            {<<EventOf[call[w].act], call[w].user>>}]
                   ELSE timeline
    /\ Return(w)
    /\ UNCHANGED <<users, sessions, cookie, incidents, founders, faults>>

-----------------------------------------------------------------------------
(* What others do: alerts open incidents, a service goes with its incidents. *)
OpenIncident(i) ==
    /\ incidents[i].status = "free"
    /\ incidents' = [incidents EXCEPT ![i].status = "triggered"]
    /\ UNCHANGED <<users, sessions, cookie, timeline, call, founders, faults>>

Purge(i) ==
    /\ incidents[i].status \in Present
    /\ incidents' = [incidents EXCEPT ![i] = [status |-> "deleted", ackBy |-> None, resBy |-> None]]
    /\ timeline' = [timeline EXCEPT ![i] = {}]
    /\ UNCHANGED <<users, sessions, cookie, call, founders, faults>>

(* A statement fails, and the request ends with an error. *)
CallError(w) ==
    /\ ~Idle(w)
    /\ faults < MaxFaults
    /\ faults' = faults + 1
    /\ Return(w)
    /\ UNCHANGED <<users, sessions, cookie, incidents, timeline, founders>>

Restart ==
    /\ faults < MaxFaults
    /\ faults' = faults + 1
    /\ call' = [w \in Workers |-> IdleFrame]
    /\ UNCHANGED <<users, sessions, cookie, incidents, timeline, founders>>

-----------------------------------------------------------------------------
Init ==
    /\ users = [u \in Users |-> "none"]
    /\ sessions = [t \in Tokens |-> [user |-> None, state |-> "free"]]
    /\ cookie = [b \in Browsers |-> None]
    /\ incidents = [i \in Incidents |-> [status |-> "free", ackBy |-> None, resBy |-> None]]
    /\ timeline = [i \in Incidents |-> {}]
    /\ call = [w \in Workers |-> IdleFrame]
    /\ founders = {}
    /\ faults = 0

Serve(w) ==
    \/ SetupCreate(w) \/ CreateSession(w)
    \/ SessionUser(w) \/ DropExpired(w)
    \/ Invite(w) \/ Update(w) \/ AddEvent(w)
    \/ CallError(w)

Next ==
    \/ \E w \in Workers :
          \/ Serve(w)
          \/ \E b \in Browsers : SetupCount(w, b) \/ LoginSubmit(w, b)
          \/ \E b \in Browsers, a \in Act, i \in Incidents \cup {None} : Press(w, b, a, i)
          \/ \E names \in SUBSET Incidents, a \in Act : SlackCommand(w, names, a)
          \/ \E i \in Incidents : SourceResolved(w, i)
    \/ \E b \in Browsers : Logout(b)
    \/ \E t \in Tokens : Expire(t)
    \/ \E i \in Incidents : OpenIncident(i) \/ Purge(i)
    \/ Restart

Spec == Init /\ [][Next]_vars

-----------------------------------------------------------------------------
TypeOK ==
    /\ users \in [Users -> {"none", "member", "admin"}]
    /\ sessions \in [Tokens -> Session]
    /\ cookie \in [Browsers -> Tokens \cup {None}]
    /\ incidents \in [Incidents -> Incident]
    /\ timeline \in [Incidents -> SUBSET ({"acknowledged", "resolved"} \X (Users \cup {Source}))]
    /\ call \in [Workers -> Frame]
    /\ founders \subseteq Users
    /\ faults \in 0..MaxFaults

(* The first-run setup counts and creates in two statements, so it may make  *)
(* more than one admin; never more than there were requests at once.         *)
SetupBound ==
    Cardinality(founders) + Cardinality({w \in Workers : call[w].pc = "create"})
        <= Cardinality(Workers)

(* Whatever is done for a browser is done for a session that was good when   *)
(* the request came, whoever logs out or in, and however late, meanwhile.    *)
ServedWhileEntitled ==
    \A w \in Workers : call[w].pc \in {"update", "event"} /\ call[w].browser # None =>
        call[w].entitled /\ call[w].user = sessions[call[w].token].user

(* Once an incident says who acknowledged it, or who resolved it, it does    *)
(* not say otherwise: of two responders the first one stays.                 *)
FirstResponderStays ==
    [][\A i \in Incidents : incidents'[i].status \in Present =>
          /\ incidents[i].ackBy # None => incidents'[i].ackBy = incidents[i].ackBy
          /\ incidents[i].resBy # None => incidents'[i].resBy = incidents[i].resBy]_vars

Logging(i, a, u) ==
    \E w \in Workers : call[w].pc = "event" /\ call[w].inc = i /\ call[w].act = a /\ call[w].user = u

(* Who answered an incident, by its row. *)
Responder(i, a) == IF a = "acknowledge" THEN incidents[i].ackBy ELSE incidents[i].resBy

Unexplained == {x \in Incidents \X {"acknowledge", "resolve"} :
                  LET u == Responder(x[1], x[2])
                  IN  /\ u # None
                      /\ <<EventOf[x[2]], u>> \notin timeline[x[1]]
                      /\ ~Logging(x[1], x[2], u)}

(* The timeline has an event for whoever the incident says answered it, or    *)
(* the request is still about to write it, unless a fault ended that request: *)
(* nobody else's answer, or the incident's deletion, makes one go missing.    *)
TimelineExplainsRow ==
    [][\A x \in Unexplained' \ Unexplained :
          /\ faults' = faults + 1
          /\ \E w \in Workers : /\ call[w].pc = "event" /\ Idle(w)'
                                /\ call[w].inc = x[1] /\ call[w].act = x[2]]_vars

(* The timeline never runs ahead of the incident: it says acknowledged only  *)
(* of one that no longer pages, and resolved only of one that is resolved,   *)
(* also where statements fail and where somebody else was first.             *)
EventsFollowUpdates ==
    \A i \in Incidents : \A e \in timeline[i] :
        /\ e[1] = "acknowledged" => incidents[i].status \in {"acknowledged", "resolved"}
        /\ e[1] = "resolved" => incidents[i].status = "resolved"
=============================================================================
