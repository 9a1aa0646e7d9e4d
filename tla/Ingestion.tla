----------------------------- MODULE Ingestion -----------------------------
(***************************************************************************)
(* One source of alerts and the service it reports to.  The source sends a *)
(* request, waits, gives up when it takes too long, and sends again until  *)
(* it is answered with success; it cannot take back what it has sent, and  *)
(* a handler does not notice that nobody waits for it any more.  Handlers  *)
(* page before they answer, so giving up is nothing unusual.               *)
(*                                                                         *)
(* A request to Alertmanager's hook reports every alert of its group, as   *)
(* firing or resolved; one to the generic or the e-mail hook ("single") is *)
(* one alert, firing.  Alerts of one fingerprint are one number here, and  *)
(* its incidents are numbered on their own; a number whose incident is     *)
(* closed, and which no handler holds, is drawn again.                     *)
(***************************************************************************)
EXTENDS Naturals, FiniteSets, SequencesExt

CONSTANTS
    MaxRequests,    \* bound: requests of the source in progress at a time
    NumAlerts,      \* bound: alerts in a group
    MaxFaults       \* bound: failed statements and restarts

ASSUME IngestionAssumption ==
    /\ MaxRequests \in Nat \ {0}
    /\ NumAlerts \in Nat \ {0}
    /\ MaxFaults \in Nat

VARIABLES
    kind,       \* which hook the source was given
    service,    \* its key is still known
    open,       \* each alert's incidents that are not resolved
    firing,     \* the alerts as they are
    told,       \* alerts the source need not report
    call,       \* the requests in progress, in the order they were sent: one handler each
    failures,   \* statements that failed
    restarts,
    overlap     \* history: most requests in progress together since nothing was open

vars == <<kind, service, open, firing, told, call, failures, restarts, overlap>>

Group   == IF kind = "single" THEN {1} ELSE 1..NumAlerts
Numbers == 1..(2 * MaxRequests)    \* those open, and those about to be closed

(* report: the request's alerts, TRUE as firing; alert: the loop's variable;   *)
(* inc: what OpenIncidentByFingerprint returned; waiting: the source still is; *)
(* owed: history, the alerts reported firing that no incident has met so far.  *)
Frame == [pc      : {"sent", "alert", "create", "trigger", "close", "ok", "error"},
          report  : [1..NumAlerts -> BOOLEAN],
          alert   : 1..NumAlerts,
          inc     : {0} \cup Numbers,
          waiting : BOOLEAN,
          owed    : SUBSET (1..NumAlerts)]

Request(report) ==
    [pc |-> "sent", report |-> report, alert |-> 1, inc |-> 0, waiting |-> TRUE,
     owed |-> {a \in Group : report[a]}]

Alert(h)    == call[h].alert
Goto(h, pc) == [call[h] EXCEPT !.pc = pc]
Met(h)      == [call[h] EXCEPT !.owed = @ \ {Alert(h)}]

(* The loop goes on, or ends in an answer of success. *)
Continue(frame) ==
    IF frame.alert + 1 \in Group
    THEN [frame EXCEPT !.pc = "alert", !.alert = @ + 1, !.inc = 0]
    ELSE [frame EXCEPT !.pc = "ok", !.alert = 1, !.inc = 0]

Handlers == DOMAIN call
Creating(a) == {h \in Handlers : call[h].pc = "create" /\ Alert(h) = a}
Unused(a)  == Numbers \ (open[a] \cup {call[h].inc : h \in {g \in Handlers : Alert(g) = a}})

-----------------------------------------------------------------------------
(* The source. *)

(* An alert begins, or ends; a single one that begins anew does not wait for  *)
(* the answer to the last.                                                    *)
Change(a) ==
    /\ firing' = [firing EXCEPT ![a] = ~@]
    /\ told' = IF kind = "single" /\ firing[a] THEN told \cup {a} ELSE told \ {a}
    /\ call' = [h \in Handlers |-> [call[h] EXCEPT !.waiting = @ /\ kind # "single"]]
    /\ UNCHANGED <<kind, service, open, failures, restarts, overlap>>

(* What the source has to say is what was not answered with success: that a  *)
(* single alert fires, that one of a group has ended, and, again and again,   *)
(* that one of a group fires.  One request after the other, so far as it can  *)
(* tell.                                                                      *)
Send ==
    /\ ~(Group \subseteq told)
    /\ \A h \in Handlers : ~call[h].waiting
    /\ Len(call) < MaxRequests
    /\ call' = Append(call, Request(firing))
    /\ overlap' = IF call = <<>> /\ \A a \in Group : open[a] = {}
                  THEN 1
                  ELSE Max({overlap, Len(call) + 1})
    /\ UNCHANGED <<kind, service, open, firing, told, failures, restarts>>

GiveUp(h) ==
    /\ call[h].waiting
    /\ call' = [call EXCEPT ![h].waiting = FALSE]
    /\ UNCHANGED <<kind, service, open, firing, told, failures, restarts, overlap>>

(* The answer, if anybody waits for it. *)
Answer(h) ==
    /\ call[h].pc \in {"ok", "error"}
    /\ told' = IF call[h].pc = "ok" /\ call[h].waiting
               THEN told \cup {a \in Group : call[h].report[a] = firing[a] /\ (kind = "single" \/ ~firing[a])}
               ELSE told
    /\ call' = RemoveAt(call, h)
    /\ UNCHANGED <<kind, service, open, firing, failures, restarts, overlap>>

-----------------------------------------------------------------------------
(* Generic, EmailIn, Alertmanager, and the Ingest and ResolveByFingerprint    *)
(* they call.                                                                 *)

(* Ingest or ResolveByFingerprint returned an error: Generic and EmailIn      *)
(* answer 500; Alertmanager logs it and goes on to the next alert.            *)
Failed(h) == IF kind = "single" THEN Goto(h, "error") ELSE Continue(Met(h))

(* Mutation: the query compares the status with a word no incident has. *)
OpenIncidents_None(a) == {}

(* OpenIncidentByFingerprint may return any of these: see IncidentStore. *)
OpenIncidents(a) == open[a]

(* Mutation: a fingerprint that is not found is an error like any other. *)
NotFound_IsError(h) == Failed(h)

(* ErrNotFound is no error: there is nothing to log the alert on. *)
NotFound(h) == Goto(h, "create")

(* Mutation: a resolved alert without an incident ends the loop. *)
NothingOpen_Returns(h) == Goto(h, "ok")

(* Mutation: the incident is used without a look at the error. *)
NothingOpen_Closes(h) == Goto(h, "close")

(* ErrNotFound, and the loop goes on. *)
NothingOpen(h) == Continue(call[h])

(* ServiceByWebhookKey, and the body decoded. *)
Receive(h) ==
    /\ call[h].pc = "sent"
    /\ call' = [call EXCEPT ![h] = Goto(h, IF service THEN "alert" ELSE "error")]
    /\ UNCHANGED <<kind, service, open, firing, told, failures, restarts, overlap>>

(* Ingest: the check. *)
Lookup(h) ==
    /\ call[h].pc = "alert"
    /\ call[h].report[Alert(h)]
    /\ call' = [call EXCEPT ![h] = IF OpenIncidents(Alert(h)) # {} THEN Continue(Met(h)) ELSE NotFound(h)]
    /\ UNCHANGED <<kind, service, open, firing, told, failures, restarts, overlap>>

(* Ingest: the INSERT, which needs the service. *)
Create(h) ==
    /\ call[h].pc = "create"
    /\ IF service
       THEN /\ open' = [open EXCEPT ![Alert(h)] = @ \cup {Min(Unused(Alert(h)))}]
            /\ call' = [call EXCEPT ![h] = [Met(h) EXCEPT !.pc = "trigger"]]
       ELSE /\ call' = [call EXCEPT ![h] = Failed(h)]
            /\ UNCHANGED open
    /\ UNCHANGED <<kind, service, firing, told, failures, restarts, overlap>>

(* TriggerIncident: pages go out before the next alert, and the answer. *)
Trigger(h) ==
    /\ call[h].pc = "trigger"
    /\ call' = [call EXCEPT ![h] = Continue(call[h])]
    /\ UNCHANGED <<kind, service, open, firing, told, failures, restarts, overlap>>

(* ResolveByFingerprint: the query. *)
Match(h) ==
    /\ call[h].pc = "alert"
    /\ ~call[h].report[Alert(h)]
    /\ \/ /\ OpenIncidents(Alert(h)) = {}
          /\ call' = [call EXCEPT ![h] = NothingOpen(h)]
       \/ \E n \in OpenIncidents(Alert(h)) :
             call' = [call EXCEPT ![h].pc = "close", ![h].inc = n]
    /\ UNCHANGED <<kind, service, open, firing, told, failures, restarts, overlap>>

(* ResolveIncident's UPDATE, which changes nothing when somebody was faster. *)
Close(h) ==
    /\ call[h].pc = "close"
    /\ open' = [open EXCEPT ![Alert(h)] = @ \ {call[h].inc}]
    /\ call' = [call EXCEPT ![h] = Continue(call[h])]
    /\ UNCHANGED <<kind, service, firing, told, failures, restarts, overlap>>

Handle(h) ==
    \/ Receive(h) \/ Lookup(h) \/ Create(h) \/ Trigger(h)
    \/ Match(h) \/ Close(h) \/ Answer(h)

-----------------------------------------------------------------------------
(* Everybody else. *)

(* Somebody resolves it.  An acknowledged incident is as open as a triggered  *)
(* one for the source, so that acknowledging is no step here.                 *)
Resolve(a) ==
    /\ \E n \in open[a] : open' = [open EXCEPT ![a] = @ \ {n}]
    /\ UNCHANGED <<kind, service, firing, told, call, failures, restarts, overlap>>

(* serviceDelete: its incidents go with it. *)
DeleteService ==
    /\ service
    /\ service' = FALSE
    /\ open' = [a \in 1..NumAlerts |-> {}]
    /\ UNCHANGED <<kind, firing, told, call, failures, restarts, overlap>>

(* A statement fails.  If it is one of TriggerIncident's, that is only logged. *)
Fault(h) ==
    /\ failures + restarts < MaxFaults
    /\ failures' = failures + 1
    /\ \/ /\ call[h].pc = "sent"
          /\ call' = [call EXCEPT ![h] = Goto(h, "error")]
       \/ /\ call[h].pc \in {"alert", "create", "close"}
          /\ call' = [call EXCEPT ![h] = Failed(h)]
       \/ /\ call[h].pc = "trigger"
          /\ call' = [call EXCEPT ![h] = Continue(call[h])]
    /\ UNCHANGED <<kind, service, open, firing, told, restarts, overlap>>

(* Mutation: its end cancels the statements of requests underway; the hook    *)
(* logs that, as it does any error, and answers.                              *)
Restart_Answers ==
    /\ failures + restarts < MaxFaults
    /\ restarts' = restarts + 1
    /\ call' = <<>>
    /\ told' = IF kind = "single" THEN told
               ELSE told \cup {a \in Group : ~firing[a] /\ \E h \in Handlers :
                                                call[h].waiting /\ ~call[h].report[a]}
    /\ UNCHANGED <<kind, service, open, firing, failures, overlap>>

(* The process ends, by a crash or a signal, and its handlers with it; main   *)
(* waits for nobody.  The source gets no answer.                              *)
Restart ==
    /\ failures + restarts < MaxFaults
    /\ restarts' = restarts + 1
    /\ call' = <<>>
    /\ UNCHANGED <<kind, service, open, firing, told, failures, overlap>>

-----------------------------------------------------------------------------
Init ==
    /\ kind \in {"single", "alertmanager"}
    /\ service = TRUE
    /\ open = [a \in 1..NumAlerts |-> {}]
    /\ firing = [a \in 1..NumAlerts |-> FALSE]
    /\ told = 1..NumAlerts
    /\ call = <<>>
    /\ failures = 0
    /\ restarts = 0
    /\ overlap = 1

Next ==
    \/ \E a \in Group : Change(a) \/ Resolve(a)
    \/ Send
    \/ \E h \in Handlers : GiveUp(h) \/ Handle(h) \/ Fault(h)
    \/ DeleteService
    \/ Restart

Spec == Init /\ [][Next]_vars

(* While there is something to report, or a request to handle, the source or  *)
(* one of the handlers goes on.                                               *)
Fairness == WF_vars(Send \/ \E h \in Handlers : Handle(h))

FairSpec == Spec /\ Fairness

-----------------------------------------------------------------------------
(* Types: every variable holds what its declaration says, and a handler about *)
(* to resolve an incident knows which.                                        *)
TypeOK ==
    /\ kind \in {"single", "alertmanager"}
    /\ service \in BOOLEAN
    /\ open \in [1..NumAlerts -> SUBSET Numbers]
    /\ firing \in [1..NumAlerts -> BOOLEAN]
    /\ told \subseteq 1..NumAlerts
    /\ call \in Seq(Frame) /\ Len(call) <= MaxRequests
    /\ \A h \in Handlers : call[h].pc = "close" <=> call[h].inc # 0
    /\ failures \in 0..MaxFaults
    /\ restarts \in 0..MaxFaults
    /\ overlap \in 1..MaxRequests

(* An answer can be relied upon.  An error means that the alert has met no     *)
(* incident, old or new, so that sending it again opens nothing twice; success *)
(* means that every alert reported firing has met one, but for those of a      *)
(* group whose own statement failed, which take no other alert with them.      *)
AnswerIsHonest ==
    \A h \in Handlers :
        /\ call[h].pc = "error" => call[h].owed = {a \in Group : call[h].report[a]}
        /\ call[h].pc = "ok" => call[h].owed = {}

(* Ingest checks and inserts in two statements.  However often a source gives *)
(* up and sends again, whatever fails or restarts, an alert has no more open  *)
(* incidents, with those about to be, than requests were in progress together *)
(* since nothing was open: none twice, as long as the source is patient.      *)
DuplicateBound ==
    \A a \in Group : Cardinality(open[a]) + Cardinality(Creating(a)) <= overlap

(* Alerts that Alertmanager has been told the end of, and that are still open. *)
Forgotten == {a \in Group : ~firing[a] /\ a \in told /\ open[a] # {}}

(* The source need not be watched: when Alertmanager has been told of the end *)
(* of an alert, no incident of it stays open, unless requests overlapped.     *)
(* A statement that fails leaves one alert open at the most, whatever else    *)
(* its request reports.  A restart in the middle of any request leaves none.  *)
QuietMeansClosed ==
    kind = "alertmanager" /\ overlap = 1 => Cardinality(Forgotten) <= failures

(* An alert that fires without an incident, or has ended and still has one,   *)
(* and the source has not been answered with success.                         *)
Unheard(a) == a \in Group /\ service /\ a \notin told /\ firing[a] # (open[a] # {})

(* Nothing the source has to say is lost, though it may give up on every      *)
(* request: through failed statements and restarts, an alert that fires gets  *)
(* an incident and one that has ended loses its own, or the source is         *)
(* answered with success, unless the alert changes or the service goes.       *)
Delivered == \A a \in 1..NumAlerts : []<>~Unheard(a)

-----------------------------------------------------------------------------
(* What a comment in the code says, and the code does not keep.  Ingest: a    *)
(* matching alert is logged "instead of paging a second time".                *)
OneOpenPerFingerprint == \A a \in Group : Cardinality(open[a]) <= 1
=============================================================================
