-------------------------- MODULE IngestionProofs --------------------------
(***************************************************************************)
(* Proofs about Ingestion for any number of requests in progress, of       *)
(* alerts in a group, and of faults: its answers can be relied upon, an    *)
(* alert opens no more incidents than requests overlapped, and once        *)
(* Alertmanager has been told that an alert has ended, it is closed.       *)
(***************************************************************************)
EXTENDS Ingestion, FiniteSetTheorems, SequenceTheorems, TLAPS

USE IngestionAssumption

-----------------------------------------------------------------------------
(* What a handler's frame holds, by how far it has come: above all, which of *)
(* the alerts it reports as firing have met no incident yet.                 *)
FrameInv(c) ==
    /\ c.alert \in Group
    /\ c.pc = "close" <=> c.inc # 0
    /\ c.pc \in {"create", "trigger"} => c.report[c.alert]
    /\ c.pc = "close" => ~c.report[c.alert]
    /\ c.pc = "sent" => c.alert = 1
    /\ kind = "single" => c.report[1]
    /\ c.pc \in {"sent", "error"} => c.owed = {a \in Group : c.report[a]}
    /\ c.pc \in {"alert", "create", "close"} => c.owed = {a \in Group : c.report[a] /\ a >= c.alert}
    /\ c.pc = "trigger" => c.owed = {a \in Group : c.report[a] /\ a > c.alert}
    /\ c.pc = "ok" => c.owed = {}

Good == {c \in Frame : FrameInv(c)}

Calls ==
    /\ call \in Seq(Frame)
    /\ \A h \in Handlers : FrameInv(call[h])
    /\ Len(call) <= overlap

Tables ==
    /\ kind \in {"single", "alertmanager"}
    /\ service \in BOOLEAN
    /\ open \in [1..NumAlerts -> SUBSET Numbers]
    /\ firing \in [1..NumAlerts -> BOOLEAN]
    /\ told \subseteq 1..NumAlerts
    /\ failures \in 0..MaxFaults
    /\ restarts \in 0..MaxFaults
    /\ overlap \in 1..MaxRequests
    /\ kind = "single" => firing[1] \/ 1 \in told

TypeInv == Tables /\ Calls

LEMMA GroupFacts ==
    ASSUME Tables
    PROVE  /\ Group \subseteq 1..NumAlerts /\ 1 \in Group
           /\ \A a \in Group : a + 1 \notin Group => \A b \in Group : b <= a
           /\ \A a \in Group : a \in Nat
  BY DEF Tables, Group

LEMMA CallFacts ==
    ASSUME TypeInv
    PROVE  /\ Len(call) \in Nat /\ Handlers = 1..Len(call)
           /\ \A h \in Handlers : call[h] \in Frame /\ FrameInv(call[h]) /\ Alert(h) \in 1..NumAlerts
<1>1. Len(call) \in Nat /\ Handlers = 1..Len(call)
  BY LenProperties DEF TypeInv, Calls, Handlers
<1>2. ASSUME NEW h \in Handlers
      PROVE  call[h] \in Frame /\ FrameInv(call[h]) /\ Alert(h) \in 1..NumAlerts
  <2>1. call[h] \in Frame
    BY <1>1, ElementOfSeq DEF TypeInv, Calls
  <2> QED BY <2>1 DEF TypeInv, Calls, Alert, Frame
<1> QED BY <1>1, <1>2

LEMMA TypesImplied == TypeInv => TypeOK
<1> SUFFICES ASSUME TypeInv PROVE TypeOK
  OBVIOUS
<1>1. Len(call) <= MaxRequests
  BY CallFacts DEF TypeInv, Calls, Tables
<1> QED BY <1>1 DEF TypeInv, Tables, Calls, FrameInv, TypeOK

-----------------------------------------------------------------------------
(* The steps of a request's sequence. *)

(* The frame of one request is replaced by one that is in order.             *)
LEMMA Replaced ==
    ASSUME TypeInv, NEW h \in Handlers, NEW f \in Good, call' = [call EXCEPT ![h] = f],
           kind' = kind, overlap' = overlap
    PROVE  /\ Calls'
           /\ Handlers' = Handlers
           /\ \A g \in Handlers : call'[g] = IF g = h THEN f ELSE call[g]
<1>1. Len(call) \in Nat /\ Handlers = 1..Len(call) /\ call \in Seq(Frame) /\ f \in Frame
  BY CallFacts DEF TypeInv, Calls, Good
<1>2. /\ call' \in Seq(Frame) /\ Len(call') = Len(call)
      /\ \A g \in Handlers : call'[g] = IF g = h THEN f ELSE call[g]
  BY <1>1, ExceptSeq
<1>3. Handlers' = Handlers
  BY <1>1, <1>2, LenProperties DEF Handlers
<1>4. ASSUME NEW g \in Handlers PROVE FrameInv(call[g])'
  <2>1. FrameInv(f) /\ FrameInv(call[g])
    BY DEF TypeInv, Calls, Good
  <2>2. \A c : FrameInv(c) => FrameInv(c)'
    BY DEF FrameInv, Group
  <2> QED BY <1>2, <2>1 DEF FrameInv, Group
<1> QED BY <1>2, <1>3, <1>4 DEF Calls, TypeInv

(* A request is sent. *)
LEMMA Appended ==
    ASSUME TypeInv, NEW f \in Good, call' = Append(call, f), kind' = kind,
           Len(call) + 1 <= overlap'
    PROVE  /\ Calls'
           /\ Handlers' = 1..(Len(call) + 1)
           /\ \A g \in Handlers : call'[g] = call[g]
           /\ call'[Len(call) + 1] = f
<1>1. Len(call) \in Nat /\ Handlers = 1..Len(call) /\ call \in Seq(Frame) /\ f \in Frame
  BY CallFacts DEF TypeInv, Calls, Good
<1>2. /\ call' \in Seq(Frame) /\ Len(call') = Len(call) + 1
      /\ \A g \in Handlers : call'[g] = call[g]
      /\ call'[Len(call) + 1] = f
  BY <1>1
<1>3. Handlers' = 1..(Len(call) + 1)
  BY <1>1, <1>2, LenProperties DEF Handlers
<1>4. ASSUME NEW g \in Handlers' PROVE FrameInv(call[g])'
  <2>1. FrameInv(f) /\ (g \in Handlers => FrameInv(call[g]))
    BY DEF TypeInv, Calls, Good
  <2>2. call'[g] = IF g \in Handlers THEN call[g] ELSE f
    BY <1>1, <1>2, <1>3
  <2> QED BY <2>1, <2>2 DEF FrameInv, Group
<1> QED BY <1>2, <1>3, <1>4 DEF Calls

(* A request is answered. *)
LEMMA Removed ==
    ASSUME TypeInv, NEW h \in Handlers, call' = RemoveAt(call, h), kind' = kind,
           overlap' = overlap
    PROVE  /\ Calls'
           /\ Handlers' = 1..(Len(call) - 1)
           /\ \A g \in Handlers' : /\ (IF g < h THEN g ELSE g + 1) \in Handlers
                                   /\ call'[g] = call[IF g < h THEN g ELSE g + 1]
<1> DEFINE n == Len(call)
           s == SubSeq(call, 1, h - 1)
           t == SubSeq(call, h + 1, n)
<1>1. n \in Nat /\ Handlers = 1..n /\ h \in 1..n /\ call \in Seq(Frame)
      /\ \A g \in 1..n : call[g] \in Frame
  BY CallFacts DEF TypeInv, Calls
<1>2. /\ s \in Seq(Frame) /\ Len(s) = h - 1
      /\ \A g \in 1..(h - 1) : s[g] = call[g]
  <2>1. /\ SubSeq(call, 1, h - 1) \in Seq(Frame)
        /\ Len(SubSeq(call, 1, h - 1)) = IF 1 <= h - 1 THEN h - 1 - 1 + 1 ELSE 0
        /\ \A g \in 1..(h - 1 - 1 + 1) : SubSeq(call, 1, h - 1)[g] = call[1 + g - 1]
    <3>1. 1 \in Int /\ h - 1 \in Int /\ \A g \in 1..(h - 1) : call[g] \in Frame
      BY <1>1
    <3> HIDE DEF n
    <3> QED BY <3>1, SubSeqProperties
  <2> QED BY <1>1, <2>1
<1>3. /\ t \in Seq(Frame) /\ Len(t) = n - h
      /\ \A g \in 1..(n - h) : t[g] = call[g + h]
  <2>1. /\ SubSeq(call, h + 1, n) \in Seq(Frame)
        /\ Len(SubSeq(call, h + 1, n)) = IF h + 1 <= n THEN n - (h + 1) + 1 ELSE 0
        /\ \A g \in 1..(n - (h + 1) + 1) : SubSeq(call, h + 1, n)[g] = call[h + 1 + g - 1]
    <3>1. h + 1 \in Int /\ n \in Int /\ \A g \in (h + 1)..n : call[g] \in Frame
      BY <1>1
    <3> HIDE DEF n
    <3> QED BY <3>1, SubSeqProperties
  <2>2. \A g \in 1..(n - h) : t[g] = call[g + h]
    <3> TAKE g \in 1..(n - h)
    <3>1. g \in 1..(n - (h + 1) + 1) /\ h + 1 + g - 1 = g + h
      BY <1>1
    <3> QED BY <2>1, <3>1
  <2> QED BY <1>1, <2>1, <2>2
<1>4. call' = s \o t
  BY DEF RemoveAt
<1> HIDE DEF n, s, t
<1>5. /\ call' \in Seq(Frame) /\ Len(call') = n - 1
      /\ \A g \in 1..(n - 1) : call'[g] = IF g <= h - 1 THEN s[g] ELSE t[g - (h - 1)]
  <2>1. /\ s \o t \in Seq(Frame) /\ Len(s \o t) = Len(s) + Len(t)
        /\ \A g \in 1..(Len(s) + Len(t)) :
              (s \o t)[g] = IF g <= Len(s) THEN s[g] ELSE t[g - Len(s)]
    BY <1>2, <1>3, ConcatProperties
  <2>2. Len(s) + Len(t) = n - 1
    BY <1>1, <1>2, <1>3
  <2> QED BY <1>2, <1>4, <2>1, <2>2
<1>6. Handlers' = 1..(n - 1)
  BY <1>5, LenProperties DEF Handlers
<1>7. ASSUME NEW g \in 1..(n - 1)
      PROVE  /\ (IF g < h THEN g ELSE g + 1) \in Handlers
             /\ call'[g] = call[IF g < h THEN g ELSE g + 1]
  <2>1. CASE g < h
    BY <1>1, <1>2, <1>5, <2>1
  <2>2. CASE ~(g < h)
    <3>1. g - (h - 1) \in 1..(n - h) /\ (g - (h - 1)) + h = g + 1
      BY <1>1, <2>2
    <3>2. call'[g] = t[g - (h - 1)]
      BY <1>1, <1>5, <2>2
    <3>3. t[g - (h - 1)] = call[g + 1]
      BY <1>3, <3>1
    <3> QED BY <1>1, <2>2, <3>2, <3>3
  <2> QED BY <2>1, <2>2
<1>8. ASSUME NEW g \in Handlers' PROVE FrameInv(call[g])'
  <2>1. PICK k \in Handlers : call'[g] = call[k]
    BY <1>6, <1>7
  <2>2. FrameInv(call[k])
    BY DEF TypeInv, Calls
  <2> QED BY <2>1, <2>2 DEF FrameInv, Group
<1>9. Len(call') <= overlap'
  BY <1>1, <1>5 DEF TypeInv, Calls, Tables, n
<1> QED BY <1>5, <1>6, <1>7, <1>8, <1>9 DEF Calls, n

-----------------------------------------------------------------------------
(* The frames that the handlers go on with. *)

LEMMA ContinueGood ==
    ASSUME Tables, NEW c \in Frame, c.alert \in Group, c.inc \in {0} \cup Numbers,
           c.owed = {a \in Group : c.report[a] /\ a > c.alert},
           kind = "single" => c.report[1]
    PROVE  /\ Continue(c) \in Good
           /\ Continue(c).report = c.report
           /\ Continue(c).pc \in {"alert", "ok"}
           /\ Continue(c).pc = "alert" => Continue(c).alert = c.alert + 1
           /\ Continue(c).pc = "ok" => c.alert + 1 \notin Group
<1>1. Group \subseteq 1..NumAlerts /\ 1 \in Group
      /\ \A a \in Group : a + 1 \notin Group => \A b \in Group : b <= a
  BY GroupFacts
<1>4. c.alert \in Int /\ \A a \in Group : a \in Int
  <2>1. \A a \in Group : a \in Nat
    BY GroupFacts
  <2>2. c.alert \in Nat
    BY <2>1, Zenon
  <2>3. \A a \in Nat : a \in Int
    OBVIOUS
  <2> QED BY <2>1, <2>2, <2>3, Zenon
<1>2. CASE c.alert + 1 \in Group
  <2> DEFINE f == [c EXCEPT !.pc = "alert", !.alert = @ + 1, !.inc = 0]
  <2>1. Continue(c) = f
    BY <1>2 DEF Continue
  <2>2. /\ f.pc = "alert" /\ f.alert = c.alert + 1 /\ f.inc = 0 /\ f.report = c.report
        /\ f.waiting = c.waiting /\ f.owed = c.owed /\ f \in Frame
    BY <1>1, <1>2 DEF Frame
  <2>3. {a \in Group : c.report[a] /\ a > c.alert} = {a \in Group : c.report[a] /\ a >= c.alert + 1}
    <3>1. \A a \in Group : a > c.alert <=> a >= c.alert + 1
      BY <1>4
    <3> QED BY <3>1
  <2> HIDE DEF f
  <2>4. FrameInv(f)
    BY <1>2, <2>2, <2>3 DEF FrameInv
  <2> QED BY <1>2, <2>1, <2>2, <2>4 DEF Good
<1>3. CASE c.alert + 1 \notin Group
  <2> DEFINE f == [c EXCEPT !.pc = "ok", !.alert = 1, !.inc = 0]
  <2>1. Continue(c) = f
    BY <1>3 DEF Continue
  <2>2. /\ f.pc = "ok" /\ f.alert = 1 /\ f.inc = 0 /\ f.report = c.report
        /\ f.waiting = c.waiting /\ f.owed = c.owed /\ f \in Frame
    BY <1>1 DEF Frame
  <2>3. c.owed = {}
    <3>1. \A a \in Group : a <= c.alert
      BY <1>1, <1>3
    <3>2. \A a \in Group : ~(a > c.alert)
      BY <1>4, <3>1
    <3> QED BY <3>2
  <2> HIDE DEF f
  <2>4. FrameInv(f)
    BY <1>1, <2>2, <2>3 DEF FrameInv
  <2> QED BY <1>3, <2>1, <2>2, <2>4 DEF Good
<1> QED BY <1>2, <1>3

(* An alert that has met an incident is owed no more.                        *)
LEMMA MetOwes ==
    ASSUME TypeInv, NEW h \in Handlers, call[h].pc \in {"alert", "create", "close"}
    PROVE  /\ Met(h) \in Frame /\ Met(h).alert = Alert(h) /\ Met(h).report = call[h].report
           /\ Met(h).inc = call[h].inc
           /\ Met(h).owed = {a \in Group : call[h].report[a] /\ a > Alert(h)}
<1> DEFINE c == call[h]
<1>1. /\ c \in Frame /\ FrameInv(c) /\ Group \subseteq 1..NumAlerts /\ c.pc = call[h].pc
      /\ c.alert = Alert(h)
  BY CallFacts, GroupFacts DEF TypeInv, Alert
<1>2. Met(h) = [c EXCEPT !.owed = @ \ {c.alert}]
  BY DEF Met, Alert
<1> HIDE DEF c
<1>3. /\ Met(h).alert = c.alert /\ Met(h).report = c.report /\ Met(h).inc = c.inc
      /\ Met(h).owed = c.owed \ {c.alert} /\ Met(h) \in Frame
  BY <1>1, <1>2 DEF Frame
<1>4. c.owed = {a \in Group : c.report[a] /\ a >= c.alert}
  BY <1>1 DEF FrameInv, c
<1>5. c.owed \ {c.alert} = {a \in Group : c.report[a] /\ a > c.alert}
  <2>1. c.alert \in 1..NumAlerts
    BY <1>1 DEF Frame
  <2>2. \A a \in Group : (a >= c.alert /\ a # c.alert) <=> a > c.alert
    BY <1>1, <2>1
  <2> QED BY <1>4, <2>2
<1> QED BY <1>1, <1>3, <1>5 DEF c

(* What a failed alert leaves the handler with.                              *)
LEMMA FailedGood ==
    ASSUME TypeInv, NEW h \in Handlers, call[h].pc \in {"alert", "create", "close"}
    PROVE  /\ Failed(h) \in Good
           /\ Failed(h).report = call[h].report
           /\ Failed(h).pc \in {"alert", "ok", "error"}
           /\ Failed(h).pc = "alert" => Failed(h).alert = Alert(h) + 1
           /\ Failed(h).pc = "ok" => Alert(h) + 1 \notin Group
<1>1. call[h] \in Frame /\ FrameInv(call[h]) /\ Tables
  BY CallFacts DEF TypeInv
<1>2. CASE kind = "single"
  <2>1. Failed(h) = Goto(h, "error")
    BY <1>2 DEF Failed
  <2>2. /\ Goto(h, "error") \in Frame /\ Goto(h, "error").pc = "error"
        /\ Goto(h, "error").alert = call[h].alert /\ Goto(h, "error").inc = call[h].inc
        /\ Goto(h, "error").report = call[h].report /\ Goto(h, "error").owed = call[h].owed
    BY <1>1 DEF Goto, Frame
  <2>3. call[h].owed = {a \in Group : call[h].report[a]}
    <3>1. Group = {1} /\ call[h].alert = 1
      BY <1>1, <1>2 DEF Group, FrameInv
    <3>2. call[h].owed = {a \in Group : call[h].report[a] /\ a >= call[h].alert}
      BY <1>1, <1>2 DEF FrameInv
    <3> QED BY <3>1, <3>2
  <2>4. call[h].pc # "close" /\ call[h].report[1]
    BY <1>1, <1>2 DEF FrameInv, Group
  <2>5. FrameInv(Goto(h, "error"))
    BY <1>1, <1>2, <2>2, <2>3, <2>4 DEF FrameInv
  <2> QED BY <2>1, <2>2, <2>5 DEF Good
<1>3. CASE kind # "single"
  <2>1. Failed(h) = Continue(Met(h))
    BY <1>3 DEF Failed
  <2>2. /\ Met(h) \in Frame /\ Met(h).alert = Alert(h) /\ Met(h).report = call[h].report
        /\ Met(h).inc = call[h].inc
        /\ Met(h).owed = {a \in Group : call[h].report[a] /\ a > Alert(h)}
    BY MetOwes
  <2>3. Alert(h) \in Group /\ call[h].inc \in {0} \cup Numbers /\ kind # "single"
    BY <1>1, <1>3 DEF FrameInv, Alert, Frame
  <2> QED BY <1>1, <2>1, <2>2, <2>3, ContinueGood
<1> QED BY <1>2, <1>3

-----------------------------------------------------------------------------
(* The loop is past alert a.                                                 *)
Past(c, a) == c.pc = "ok" \/ (c.pc \notin {"sent", "error"} /\ a < c.alert)

(* A handler goes on with frame f: to the INSERT only if there was no open    *)
(* incident, to the UPDATE only with one that was, and past an alert that has *)
(* ended only if none was left or it was just closed.                         *)
Moves(h, f) ==
    /\ call' = [call EXCEPT ![h] = f]
    /\ f.report = call[h].report
    /\ f.pc = "create" => f.alert = Alert(h) /\ open[Alert(h)] = {} /\ UNCHANGED open
    /\ f.pc = "close" => f.alert = Alert(h) /\ f.inc \in open[Alert(h)] /\ UNCHANGED open
    /\ \A a \in Group : Past(f, a) =>
          \/ Past(call[h], a)
          \/ call[h].report[a]
          \/ failures' # failures /\ a = Alert(h)
          \/ /\ a = Alert(h)
             /\ open'[a] = open[a] \ {call[h].inc}
             /\ call[h].pc = "close" \/ open[a] = {}

(* The loop goes on: past the alerts before, and this one.                   *)
LEMMA PastNext ==
    ASSUME TypeInv, NEW h \in Handlers, call[h].pc \notin {"sent", "error", "ok"},
           NEW f, f.pc \in {"alert", "ok", "error"}, f.pc = "alert" => f.alert = Alert(h) + 1,
           NEW a \in Group, Past(f, a), f.pc = "ok" => Alert(h) + 1 \notin Group
    PROVE  Past(call[h], a) \/ a = Alert(h)
<1>1. a \in Nat /\ Alert(h) \in Nat /\ Alert(h) \in Group
  <2>1. FrameInv(call[h]) /\ \A b \in Group : b \in Nat
    BY CallFacts, GroupFacts DEF TypeInv
  <2>2. Alert(h) \in Group
    BY <2>1 DEF FrameInv, Alert
  <2> QED BY <2>1, <2>2, Zenon
<1>2. a <= Alert(h)
  <2>1. CASE f.pc = "ok"
    <3>1. Alert(h) + 1 \notin Group => a <= Alert(h)
      BY <1>1, GroupFacts DEF TypeInv
    <3> QED BY <2>1, <3>1
  <2>2. CASE f.pc = "alert"
    <3>1. a < Alert(h) + 1
      BY <2>2 DEF Past
    <3> QED BY <1>1, <3>1
  <2>3. CASE f.pc = "error"
    BY <2>3 DEF Past
  <2> QED BY <2>1, <2>2, <2>3
<1> QED BY <1>1, <1>2 DEF Past, Alert

(* Receive, Lookup, Create, Trigger, Match and Close, and a statement that    *)
(* fails, each take one frame to another that is in order.                    *)
LEMMA ReceiveMoves ==
    ASSUME TypeInv, NEW h \in Handlers,
           Receive(h) \/ (call[h].pc = "sent" /\ call' = [call EXCEPT ![h] = Goto(h, "error")])
    PROVE  \E f \in Good : Moves(h, f)
<1>1. call[h] \in Frame /\ FrameInv(call[h]) /\ call[h].pc = "sent"
  BY CallFacts DEF Receive
<1>2. PICK pc \in {"alert", "error"} : call' = [call EXCEPT ![h] = Goto(h, pc)]
  BY DEF Receive
<1> DEFINE f == Goto(h, pc)
<1>3. /\ f \in Frame /\ f.pc = pc /\ f.alert = call[h].alert /\ f.inc = call[h].inc
      /\ f.report = call[h].report /\ f.owed = call[h].owed
  BY <1>1 DEF Goto, Frame
<1> HIDE DEF f
<1>4. f.alert = 1 /\ f.owed = {a \in Group : f.report[a]} /\ \A a \in Group : a >= 1 /\ ~(a < 1)
  <2>1. \A a \in Group : a \in Nat /\ a >= 1
    BY GroupFacts DEF TypeInv
  <2>2. \A a \in Group : ~(a < 1)
    BY <2>1
  <2> QED BY <1>1, <1>3, <2>1, <2>2 DEF FrameInv
<1>5. {a \in Group : f.report[a]} = {a \in Group : f.report[a] /\ a >= f.alert}
  BY <1>4
<1>6. f.owed = {a \in Group : f.report[a] /\ a >= f.alert}
  BY <1>4, <1>5
<1>7. FrameInv(f)
  BY <1>1, <1>3, <1>4, <1>6 DEF FrameInv
<1>8. \A a \in Group : ~Past(f, a)
  BY <1>3, <1>4 DEF Past
<1>9. call' = [call EXCEPT ![h] = f]
  BY <1>2 DEF f
<1> QED BY <1>3, <1>7, <1>8, <1>9 DEF Moves, Good

(* Where the loop goes on, or the request fails, past this alert.             *)
LEMMA LoopMoves ==
    ASSUME TypeInv, NEW h \in Handlers, call[h].pc \notin {"sent", "error", "ok"},
           NEW f \in Good, call' = [call EXCEPT ![h] = f],
           f.report = call[h].report, f.pc \in {"alert", "ok", "error"},
           f.pc = "alert" => f.alert = Alert(h) + 1,
           f.pc = "ok" => Alert(h) + 1 \notin Group,
           \/ call[h].report[Alert(h)]
           \/ failures' # failures
           \/ /\ open'[Alert(h)] = open[Alert(h)] \ {call[h].inc}
              /\ call[h].pc = "close" \/ open[Alert(h)] = {}
    PROVE  Moves(h, f)
<1>1. ASSUME NEW a \in Group, Past(f, a) PROVE Past(call[h], a) \/ a = Alert(h)
  BY <1>1, PastNext
<1> QED BY <1>1 DEF Moves

LEMMA LookupMoves ==
    ASSUME TypeInv, NEW h \in Handlers, Lookup(h)
    PROVE  \E f \in Good : Moves(h, f)
<1>1. /\ call[h] \in Frame /\ FrameInv(call[h]) /\ call[h].pc = "alert"
      /\ call[h].report[Alert(h)] /\ UNCHANGED open /\ Tables /\ Alert(h) \in Group
      /\ call[h].inc = 0
  BY CallFacts DEF Lookup, TypeInv, FrameInv, Alert
<1>2. CASE open[Alert(h)] # {}
  <2>1. call' = [call EXCEPT ![h] = Continue(Met(h))]
    BY <1>2 DEF Lookup, OpenIncidents
  <2>2. /\ Met(h) \in Frame /\ Met(h).alert = Alert(h) /\ Met(h).report = call[h].report
        /\ Met(h).inc = call[h].inc
        /\ Met(h).owed = {a \in Group : call[h].report[a] /\ a > Alert(h)}
    BY <1>1, MetOwes
  <2>3. kind = "single" => call[h].report[1]
    BY <1>1 DEF FrameInv
  <2>4. /\ Continue(Met(h)) \in Good
        /\ Continue(Met(h)).report = call[h].report
        /\ Continue(Met(h)).pc \in {"alert", "ok"}
        /\ Continue(Met(h)).pc = "alert" => Continue(Met(h)).alert = Alert(h) + 1
        /\ Continue(Met(h)).pc = "ok" => Alert(h) + 1 \notin Group
    BY <1>1, <2>2, <2>3, ContinueGood
  <2>5. Moves(h, Continue(Met(h)))
    BY <1>1, <2>1, <2>4, LoopMoves
  <2> QED BY <2>4, <2>5
<1>3. CASE open[Alert(h)] = {}
  <2> DEFINE f == Goto(h, "create")
  <2>1. call' = [call EXCEPT ![h] = f]
    BY <1>3 DEF Lookup, OpenIncidents, NotFound
  <2>2. /\ f \in Frame /\ f.pc = "create" /\ f.alert = call[h].alert /\ f.inc = call[h].inc
        /\ f.report = call[h].report /\ f.owed = call[h].owed
    BY <1>1 DEF Goto, Frame
  <2> HIDE DEF f
  <2>3. FrameInv(f)
    BY <1>1, <2>2 DEF FrameInv, Alert
  <2>4. \A a \in Group : Past(f, a) => Past(call[h], a)
    BY <1>1, <2>2 DEF Past
  <2>5. Moves(h, f)
    BY <1>1, <1>3, <2>1, <2>2, <2>4 DEF Moves, Alert
  <2> QED BY <2>2, <2>3, <2>5 DEF Good
<1> QED BY <1>2, <1>3

LEMMA CreateMoves ==
    ASSUME TypeInv, NEW h \in Handlers, Create(h)
    PROVE  \E f \in Good : Moves(h, f) /\ f.pc # "create"
<1>1. /\ call[h] \in Frame /\ FrameInv(call[h]) /\ call[h].pc = "create"
      /\ call[h].report[Alert(h)] /\ Tables /\ Alert(h) \in Group
  BY CallFacts DEF Create, TypeInv, FrameInv, Alert
<1>2. CASE service
  <2> DEFINE m == Met(h)
             f == [m EXCEPT !.pc = "trigger"]
  <2>1. call' = [call EXCEPT ![h] = f]
    BY <1>2 DEF Create
  <2>2. /\ m \in Frame /\ m.alert = Alert(h) /\ m.report = call[h].report /\ m.inc = call[h].inc
        /\ m.owed = {a \in Group : call[h].report[a] /\ a > Alert(h)}
    BY <1>1, MetOwes
  <2> HIDE DEF m
  <2>3. /\ f \in Frame /\ f.pc = "trigger" /\ f.alert = m.alert /\ f.inc = m.inc
        /\ f.report = m.report /\ f.owed = m.owed
    BY <2>2 DEF Frame
  <2> HIDE DEF f
  <2>4. FrameInv(f)
    BY <1>1, <2>2, <2>3 DEF FrameInv
  <2>5. \A a \in Group : Past(f, a) => Past(call[h], a)
    BY <1>1, <2>2, <2>3 DEF Past, Alert
  <2>6. Moves(h, f)
    BY <2>1, <2>2, <2>3, <2>5 DEF Moves
  <2> QED BY <2>3, <2>4, <2>6 DEF Good
<1>3. CASE ~service
  <2>1. call' = [call EXCEPT ![h] = Failed(h)]
    BY <1>3 DEF Create
  <2>2. Moves(h, Failed(h))
    BY <1>1, <2>1, FailedGood, LoopMoves
  <2>3. Failed(h) \in Good /\ Failed(h).pc # "create"
    BY <1>1, FailedGood
  <2> QED BY <2>2, <2>3
<1> QED BY <1>2, <1>3

LEMMA TriggerMoves ==
    ASSUME TypeInv, NEW h \in Handlers, call[h].pc = "trigger",
           call' = [call EXCEPT ![h] = Continue(call[h])]
    PROVE  \E f \in Good : Moves(h, f)
<1>1. /\ call[h] \in Frame /\ FrameInv(call[h]) /\ Tables
      /\ call[h].report[Alert(h)] /\ Alert(h) \in Group /\ call[h].inc \in {0} \cup Numbers
      /\ call[h].alert = Alert(h)
      /\ kind = "single" => call[h].report[1]
      /\ call[h].owed = {a \in Group : call[h].report[a] /\ a > call[h].alert}
  BY CallFacts DEF TypeInv, FrameInv, Alert, Frame
<1>2. /\ Continue(call[h]) \in Good
      /\ Continue(call[h]).report = call[h].report
      /\ Continue(call[h]).pc \in {"alert", "ok"}
      /\ Continue(call[h]).pc = "alert" => Continue(call[h]).alert = Alert(h) + 1
      /\ Continue(call[h]).pc = "ok" => Alert(h) + 1 \notin Group
  BY <1>1, ContinueGood
<1> QED BY <1>1, <1>2, LoopMoves

(* An alert that has ended owes nothing.                                      *)
LEMMA EndedGood ==
    ASSUME TypeInv, NEW h \in Handlers, call[h].pc \in {"alert", "close"},
           ~call[h].report[Alert(h)]
    PROVE  /\ Continue(call[h]) \in Good
           /\ Continue(call[h]).report = call[h].report
           /\ Continue(call[h]).pc \in {"alert", "ok"}
           /\ Continue(call[h]).pc = "alert" => Continue(call[h]).alert = Alert(h) + 1
           /\ Continue(call[h]).pc = "ok" => Alert(h) + 1 \notin Group
<1>1. /\ call[h] \in Frame /\ FrameInv(call[h]) /\ Tables
      /\ Alert(h) \in Group /\ call[h].inc \in {0} \cup Numbers
      /\ call[h].alert = Alert(h)
      /\ kind = "single" => call[h].report[1]
      /\ call[h].owed = {a \in Group : call[h].report[a] /\ a >= call[h].alert}
  BY CallFacts DEF TypeInv, FrameInv, Alert, Frame
<1>2. \A a \in Group : a \in Nat
  BY <1>1, GroupFacts
<1>3. \A a \in Group : a >= Alert(h) <=> a > Alert(h) \/ a = Alert(h)
  BY <1>1, <1>2
<1>4. call[h].owed = {a \in Group : call[h].report[a] /\ a > call[h].alert}
  BY <1>1, <1>3
<1> QED BY <1>1, <1>4, ContinueGood

LEMMA MatchMoves ==
    ASSUME TypeInv, NEW h \in Handlers, Match(h)
    PROVE  \E f \in Good : Moves(h, f) /\ f.pc # "create"
<1>1. /\ call[h] \in Frame /\ FrameInv(call[h]) /\ call[h].pc = "alert"
      /\ ~call[h].report[Alert(h)] /\ UNCHANGED open /\ Tables /\ Alert(h) \in Group
      /\ call[h].inc = 0 /\ call \in Seq(Frame) /\ h \in 1..Len(call)
  BY CallFacts DEF Match, TypeInv, FrameInv, Alert, Calls
<1>2. CASE open[Alert(h)] = {} /\ call' = [call EXCEPT ![h] = Continue(call[h])]
  <2>1. open'[Alert(h)] = open[Alert(h)] \ {call[h].inc}
    BY <1>1, <1>2
  <2>2. Moves(h, Continue(call[h]))
    BY <1>1, <1>2, <2>1, EndedGood, LoopMoves
  <2> QED BY <1>1, <2>2, EndedGood
<1>3. ASSUME NEW n \in open[Alert(h)], call' = [call EXCEPT ![h].pc = "close", ![h].inc = n]
      PROVE  \E f \in Good : Moves(h, f) /\ f.pc # "create"
  <2> DEFINE f == [call[h] EXCEPT !.pc = "close", !.inc = n]
  <2>1. call' = [call EXCEPT ![h] = f]
    BY <1>1, <1>3
  <2>2. n \in Numbers /\ n # 0
    <3>1. Alert(h) \in 1..NumAlerts
      BY CallFacts
    <3>2. n \in Numbers
      BY <1>1, <1>3, <3>1 DEF Tables
    <3> QED BY <3>2 DEF Numbers
  <2>3. /\ f \in Frame /\ f.pc = "close" /\ f.alert = call[h].alert /\ f.inc = n
        /\ f.report = call[h].report /\ f.owed = call[h].owed
    BY <1>1, <2>2 DEF Frame
  <2> HIDE DEF f
  <2>4. FrameInv(f)
    BY <1>1, <2>2, <2>3 DEF FrameInv, Alert
  <2>5. \A a \in Group : Past(f, a) => Past(call[h], a)
    BY <1>1, <2>3 DEF Past
  <2>6. Moves(h, f)
    BY <1>1, <1>3, <2>1, <2>3, <2>5 DEF Moves, Alert
  <2> QED BY <2>3, <2>4, <2>6 DEF Good
<1> QED BY <1>2, <1>3 DEF Match, OpenIncidents, NothingOpen

LEMMA CloseMoves ==
    ASSUME TypeInv, NEW h \in Handlers, Close(h)
    PROVE  \E f \in Good : Moves(h, f) /\ f.pc # "create"
<1>1. /\ call[h].pc = "close" /\ ~call[h].report[Alert(h)] /\ Alert(h) \in 1..NumAlerts
      /\ open' = [open EXCEPT ![Alert(h)] = @ \ {call[h].inc}]
      /\ call' = [call EXCEPT ![h] = Continue(call[h])]
      /\ open \in [1..NumAlerts -> SUBSET Numbers]
  BY CallFacts DEF Close, FrameInv, Alert, TypeInv, Tables
<1>2. open'[Alert(h)] = open[Alert(h)] \ {call[h].inc}
  BY <1>1
<1>3. Moves(h, Continue(call[h]))
  BY <1>1, <1>2, EndedGood, LoopMoves
<1> QED BY <1>1, <1>3, EndedGood

LEMMA FaultMoves ==
    ASSUME TypeInv, NEW h \in Handlers, Fault(h)
    PROVE  \E f \in Good : Moves(h, f) /\ f.pc # "create"
<1>1. failures' # failures
  BY DEF Fault, TypeInv, Tables
<1>2. CASE call[h].pc = "sent"
  <2>1. call' = [call EXCEPT ![h] = Goto(h, "error")]
    BY <1>2 DEF Fault
  <2>2. PICK f \in Good : Moves(h, f)
    BY <1>2, <2>1, ReceiveMoves
  <2>3. f = Goto(h, "error")
    BY <2>1, <2>2, CallFacts DEF Moves
  <2>4. f.pc = "error"
    BY <2>3, CallFacts DEF Goto, Frame
  <2> QED BY <2>2, <2>4
<1>3. CASE call[h].pc \in {"alert", "create", "close"}
  <2>1. call' = [call EXCEPT ![h] = Failed(h)]
    BY <1>3 DEF Fault
  <2>2. Moves(h, Failed(h))
    BY <1>1, <1>3, <2>1, FailedGood, LoopMoves
  <2> QED BY <1>3, <2>2, FailedGood
<1>4. CASE call[h].pc = "trigger"
  <2>1. call' = [call EXCEPT ![h] = Continue(call[h])]
    BY <1>4 DEF Fault
  <2>2. PICK f \in Good : Moves(h, f)
    BY <1>4, <2>1, TriggerMoves
  <2>3. f = Continue(call[h]) /\ call[h] \in Frame
    BY <2>1, <2>2, CallFacts DEF Moves
  <2>4. f.pc # "create"
    BY <2>3 DEF Continue, Frame
  <2> QED BY <2>2, <2>4
<1> QED BY <1>2, <1>3, <1>4 DEF Fault

-----------------------------------------------------------------------------
(* Numbers for incidents do not run out: an alert has less than MaxRequests  *)
(* open when a handler is about to insert one, and the other handlers hold   *)
(* one each.                                                                 *)
LEMMA Sizes ==
    ASSUME TypeInv
    PROVE  /\ IsFiniteSet(Handlers) /\ Cardinality(Handlers) = Len(call)
           /\ \A a \in 1..NumAlerts :
                 /\ IsFiniteSet(open[a]) /\ Cardinality(open[a]) \in Nat
                 /\ IsFiniteSet(Creating(a)) /\ Cardinality(Creating(a)) \in Nat
                 /\ Cardinality(Creating(a)) <= Len(call)
<1>1. Len(call) \in Nat /\ Handlers = 1..Len(call)
  BY CallFacts
<1>2. IsFiniteSet(Handlers) /\ Cardinality(Handlers) = Len(call)
  <2>1. /\ IsFiniteSet(1..Len(call))
        /\ Cardinality(1..Len(call)) = IF 1 > Len(call) THEN 0 ELSE Len(call) - 1 + 1
    BY <1>1, FS_Interval
  <2> QED BY <1>1, <2>1
<1>3. ASSUME NEW a \in 1..NumAlerts
      PROVE  /\ IsFiniteSet(open[a]) /\ Cardinality(open[a]) \in Nat
             /\ IsFiniteSet(Creating(a)) /\ Cardinality(Creating(a)) \in Nat
             /\ Cardinality(Creating(a)) <= Len(call)
  <2>1. open[a] \in SUBSET Numbers /\ Creating(a) \in SUBSET Handlers
    BY DEF TypeInv, Tables, Creating
  <2>2. IsFiniteSet(Numbers)
    BY FS_Interval DEF Numbers
  <2>3. IsFiniteSet(open[a]) /\ IsFiniteSet(Creating(a))
    BY <1>2, <2>1, <2>2, FS_Subset
  <2>4. Cardinality(Creating(a)) <= Len(call)
    BY <1>2, <2>1, FS_Subset
  <2> QED BY <2>3, <2>4, FS_CardinalityType
<1> QED BY <1>2, <1>3

LEMMA UnusedSome ==
    ASSUME TypeInv, DuplicateBound, NEW h \in Handlers, call[h].pc = "create"
    PROVE  Min(Unused(Alert(h))) \in Numbers \ open[Alert(h)]
<1> DEFINE a == Alert(h)
           H == {g \in Handlers : Alert(g) = a}
           held == {call[g].inc : g \in H}
<1>1. /\ a \in Group /\ a \in 1..NumAlerts /\ Len(call) \in Nat /\ Len(call) <= overlap
      /\ overlap \in 1..MaxRequests
  BY CallFacts DEF FrameInv, Alert, TypeInv, Tables, Calls
<1>2. /\ IsFiniteSet(open[a]) /\ Cardinality(open[a]) \in Nat
      /\ IsFiniteSet(Creating(a)) /\ Cardinality(Creating(a)) \in Nat
      /\ IsFiniteSet(Handlers) /\ Cardinality(Handlers) = Len(call)
  BY <1>1, Sizes
<1>3. Cardinality(open[a]) + 1 <= MaxRequests
  <2>1. Creating(a) # {}
    BY DEF Creating
  <2>2. Cardinality(Creating(a)) >= 1
    BY <1>2, <2>1, FS_EmptySet
  <2>3. Cardinality(open[a]) + Cardinality(Creating(a)) <= overlap
    BY <1>1 DEF DuplicateBound
  <2> QED BY <1>1, <1>2, <2>2, <2>3
<1>4. IsFiniteSet(held) /\ Cardinality(held) \in Nat /\ Cardinality(held) <= Len(call)
  <2>1. IsFiniteSet(H) /\ Cardinality(H) <= Len(call) /\ Cardinality(H) \in Nat
    <3>1. H \in SUBSET Handlers
      OBVIOUS
    <3>2. IsFiniteSet(H) /\ Cardinality(H) <= Len(call)
      BY <1>2, <3>1, FS_Subset
    <3> QED BY <3>2, FS_CardinalityType
  <2> DEFINE f == [g \in H |-> call[g].inc]
  <2>2. f \in Surjection(H, held)
    BY DEF Surjection
  <2> HIDE DEF f, H, held
  <2>3. IsFiniteSet(held) /\ Cardinality(held) <= Cardinality(H)
    BY <2>1, <2>2, FS_Surjection
  <2>4. Cardinality(held) \in Nat
    BY <2>3, FS_CardinalityType
  <2> QED BY <1>1, <2>1, <2>3, <2>4
<1>5. Unused(a) = Numbers \ (open[a] \cup held)
  BY DEF Unused
<1>6. Unused(a) # {}
  <2>1. SUFFICES ASSUME Unused(a) = {} PROVE FALSE
    OBVIOUS
  <2> HIDE DEF held, a
  <2>2. Numbers \in SUBSET (open[a] \cup held)
    BY <1>5, <2>1
  <2>3. /\ IsFiniteSet(open[a] \cup held)
        /\ Cardinality(open[a] \cup held) =
             Cardinality(open[a]) + Cardinality(held) - Cardinality(open[a] \cap held)
    BY <1>2, <1>4, FS_Union
  <2>4. Cardinality(open[a] \cap held) \in Nat
    <3>1. (open[a] \cap held) \in SUBSET held
      OBVIOUS
    <3> QED BY <1>4, <3>1, FS_Subset, FS_CardinalityType
  <2>5. Cardinality(Numbers) <= Cardinality(open[a] \cup held)
    BY <2>2, <2>3, FS_Subset
  <2>6. Cardinality(Numbers) = 2 * MaxRequests
    <3>1. /\ Cardinality(1..(2 * MaxRequests)) =
               IF 1 > 2 * MaxRequests THEN 0 ELSE 2 * MaxRequests - 1 + 1
      BY FS_Interval
    <3> QED BY <3>1 DEF Numbers
  <2> QED BY <1>1, <1>2, <1>3, <1>4, <2>3, <2>4, <2>5, <2>6
<1>7. Unused(a) \in SUBSET Nat /\ Unused(a) \subseteq Numbers \ open[a]
  BY <1>5 DEF Numbers
<1> HIDE DEF a
<1>8. \E x \in Unused(a) : \A y \in Unused(a) : x <= y
  <2> DEFINE R == OpToRel(<, Nat)
  <2>1. PICK x \in Unused(a) : \A y \in Unused(a) : ~(<<y, x>> \in R)
    BY <1>6, <1>7, NatLessThanWellFounded, WFMin
  <2>2. ASSUME NEW y \in Unused(a) PROVE x <= y
    <3>1. x \in Nat /\ y \in Nat
      BY <1>7
    <3>2. ~(y < x)
      BY <2>1, <3>1 DEF OpToRel
    <3> QED BY <3>1, <3>2
  <2> QED BY <2>2
<1>9. Min(Unused(a)) \in Unused(a)
  BY <1>8 DEF Min
<1> QED BY <1>7, <1>9 DEF a

-----------------------------------------------------------------------------
(* A step of a handler that is not its answer. *)
Proceeds(h) ==
    Receive(h) \/ Lookup(h) \/ Create(h) \/ Trigger(h) \/ Match(h) \/ Close(h) \/ Fault(h)

LEMMA HandlerMoves ==
    ASSUME TypeInv, NEW h \in Handlers, Proceeds(h)
    PROVE  \E f \in Good : Moves(h, f) /\ (Create(h) => f.pc # "create")
<1>1. Create(h) => call[h].pc = "create"
  BY DEF Create
<1>2. CASE Receive(h)
  BY <1>1, <1>2, ReceiveMoves DEF Receive
<1>3. CASE Lookup(h)
  BY <1>1, <1>3, LookupMoves DEF Lookup
<1>4. CASE Create(h)
  BY <1>4, CreateMoves
<1>5. CASE Trigger(h)
  BY <1>1, <1>5, TriggerMoves DEF Trigger
<1>6. CASE Match(h)
  BY <1>6, MatchMoves
<1>7. CASE Close(h)
  BY <1>7, CloseMoves
<1>8. CASE Fault(h)
  BY <1>8, FaultMoves
<1> QED BY <1>2, <1>3, <1>4, <1>5, <1>6, <1>7, <1>8 DEF Proceeds

(* What such a step does to the open incidents: it opens one at most, and     *)
(* only Create does.                                                          *)
LEMMA HandlerTables ==
    ASSUME TypeInv, DuplicateBound, NEW h \in Handlers, Proceeds(h)
    PROVE  /\ Tables'
           /\ UNCHANGED <<kind, firing, told, overlap>>
           /\ \A a \in 1..NumAlerts :
                 \/ open'[a] \subseteq open[a]
                 \/ /\ Create(h) /\ a = Alert(h)
                    /\ \E n \in Numbers : open'[a] = open[a] \cup {n}
<1>1. /\ open \in [1..NumAlerts -> SUBSET Numbers] /\ Alert(h) \in 1..NumAlerts /\ Tables
  BY CallFacts DEF TypeInv, Tables
<1>2. CASE Receive(h) \/ Lookup(h) \/ Trigger(h) \/ Match(h)
  <2>1. UNCHANGED <<kind, service, open, firing, told, failures, restarts, overlap>>
    BY <1>2 DEF Receive, Lookup, Trigger, Match
  <2> QED BY <1>1, <2>1 DEF Tables
<1>3. CASE Create(h)
  <2>1. UNCHANGED <<kind, service, firing, told, failures, restarts, overlap>>
    BY <1>3 DEF Create
  <2>2. Min(Unused(Alert(h))) \in Numbers
    BY <1>3, UnusedSome DEF Create
  <2>3. \/ UNCHANGED open
        \/ open' = [open EXCEPT ![Alert(h)] = @ \cup {Min(Unused(Alert(h)))}]
    BY <1>3 DEF Create
  <2>4. \/ UNCHANGED open
        \/ \E n \in Numbers : open' = [open EXCEPT ![Alert(h)] = @ \cup {n}]
    BY <2>2, <2>3
  <2>5. open' \in [1..NumAlerts -> SUBSET Numbers]
    BY <1>1, <2>4
  <2>6. \A a \in 1..NumAlerts :
            \/ open'[a] \subseteq open[a]
            \/ /\ Create(h) /\ a = Alert(h)
               /\ \E n \in Numbers : open'[a] = open[a] \cup {n}
    BY <1>1, <1>3, <2>4
  <2> QED BY <1>1, <2>1, <2>5, <2>6 DEF Tables
<1>4. CASE Close(h)
  <2>1. /\ UNCHANGED <<kind, service, firing, told, failures, restarts, overlap>>
        /\ open' = [open EXCEPT ![Alert(h)] = @ \ {call[h].inc}]
    BY <1>4 DEF Close
  <2>2. /\ open' \in [1..NumAlerts -> SUBSET Numbers]
        /\ \A a \in 1..NumAlerts : open'[a] \subseteq open[a]
    BY <1>1, <2>1
  <2> QED BY <1>1, <2>1, <2>2 DEF Tables
<1>5. CASE Fault(h)
  <2>1. /\ UNCHANGED <<kind, service, open, firing, told, restarts, overlap>>
        /\ failures' \in 0..MaxFaults
    BY <1>5 DEF Fault, TypeInv, Tables
  <2> QED BY <1>1, <2>1 DEF Tables
<1> QED BY <1>2, <1>3, <1>4, <1>5 DEF Proceeds

LEMMA HandlerTyped ==
    ASSUME TypeInv, DuplicateBound, NEW h \in Handlers, Proceeds(h)
    PROVE  TypeInv'
<1>1. Tables' /\ UNCHANGED <<kind, overlap>>
  BY HandlerTables
<1>2. PICK f \in Good : call' = [call EXCEPT ![h] = f]
  BY HandlerMoves DEF Moves
<1> QED BY <1>1, <1>2, Replaced DEF TypeInv

(* Whether somebody waits for a request is nothing to its handler.           *)
LEMMA WaitsGood ==
    ASSUME NEW c \in Frame, NEW b \in BOOLEAN
    PROVE  LET n == [c EXCEPT !.waiting = b]
           IN  /\ n \in Frame /\ n.pc = c.pc /\ n.report = c.report /\ n.alert = c.alert
               /\ n.inc = c.inc /\ n.owed = c.owed
  BY DEF Frame

(* An alert changes, and the frames are as they were, but for who waits.     *)
LEMMA ChangeCalls ==
    ASSUME TypeInv, NEW x \in Group, Change(x)
    PROVE  /\ Handlers' = Handlers
           /\ Len(call') = Len(call)
           /\ Calls'
           /\ \A h \in Handlers :
                 /\ call'[h].pc = call[h].pc /\ call'[h].report = call[h].report
                 /\ call'[h].alert = call[h].alert /\ call'[h].inc = call[h].inc
                 /\ call'[h].owed = call[h].owed
<1>1. Len(call) \in Nat /\ Handlers = 1..Len(call) /\ \A h \in Handlers : call[h] \in Frame
  BY CallFacts
<1> DEFINE n == Len(call)
           b(h) == call[h].waiting /\ kind # "single"
<1>2. call' = [h \in 1..n |-> [call[h] EXCEPT !.waiting = b(h)]]
  BY <1>1 DEF Change
<1>3. \A h \in 1..n : b(h) \in BOOLEAN
  OBVIOUS
<1> HIDE DEF b
<1>4. ASSUME NEW h \in 1..n
      PROVE  /\ call'[h] \in Frame
             /\ call'[h].pc = call[h].pc /\ call'[h].report = call[h].report
             /\ call'[h].alert = call[h].alert /\ call'[h].inc = call[h].inc
             /\ call'[h].owed = call[h].owed
  <2>1. call'[h] = [call[h] EXCEPT !.waiting = b(h)] /\ call[h] \in Frame /\ b(h) \in BOOLEAN
    BY <1>1, <1>2, <1>3
  <2> QED BY <2>1, WaitsGood
<1> HIDE DEF n
<1>5. n \in Nat /\ call' \in [1..n -> Frame]
  BY <1>1, <1>2, <1>4 DEF n
<1>6. call' \in Seq(Frame)
  BY <1>5, SeqDef
<1>7. Len(call') = n /\ Handlers' = 1..n
  BY <1>5, <1>6, LenProperties DEF Handlers
<1>8. ASSUME NEW h \in Handlers' PROVE FrameInv(call[h])'
  <2>1. FrameInv(call[h]) /\ kind' = kind
    BY <1>1, <1>7 DEF TypeInv, Calls, Change, n
  <2> QED BY <1>4, <1>7, <2>1 DEF FrameInv, Group
<1>9. Len(call') <= overlap'
  BY <1>7 DEF TypeInv, Calls, Change, n
<1> QED BY <1>1, <1>4, <1>6, <1>7, <1>8, <1>9 DEF Calls, n

LEMMA MaxOfTwo == ASSUME NEW x \in Int, NEW y \in Int PROVE Max({x, y}) = IF x >= y THEN x ELSE y
<1>1. CASE x >= y
  <2>1. x \in {x, y} /\ \A z \in {x, y} : x >= z
    BY <1>1
  <2>2. \A w \in {x, y} : (\A z \in {x, y} : w >= z) => w = x
    BY <1>1
  <2> QED BY <1>1, <2>1, <2>2 DEF Max
<1>2. CASE ~(x >= y)
  <2>1. y \in {x, y} /\ \A z \in {x, y} : y >= z
    BY <1>2
  <2>2. \A w \in {x, y} : (\A z \in {x, y} : w >= z) => w = y
    BY <1>2
  <2> QED BY <1>2, <2>1, <2>2 DEF Max
<1> QED BY <1>1, <1>2

(* What the source's next request does to the history of overlaps.           *)
LEMMA OverlapGrows ==
    ASSUME TypeInv, Send
    PROVE  /\ overlap' \in 1..MaxRequests
           /\ Len(call) + 1 <= overlap'
           /\ ~(call = <<>> /\ \A a \in Group : open[a] = {}) => overlap' >= overlap
<1>1. Len(call) \in Nat /\ (call = <<>> => Len(call) = 0) /\ Len(call) < MaxRequests
  BY CallFacts DEF Send
<1>2. CASE call = <<>> /\ \A a \in Group : open[a] = {}
  BY <1>1, <1>2 DEF Send
<1>3. CASE ~(call = <<>> /\ \A a \in Group : open[a] = {})
  <2> DEFINE m == Len(call) + 1
  <2>1. overlap' = Max({overlap, m})
    BY <1>3 DEF Send
  <2>2. m \in 1..MaxRequests /\ overlap \in 1..MaxRequests
    BY <1>1 DEF TypeInv, Tables
  <2> HIDE DEF m
  <2>3. overlap' = IF overlap >= m THEN overlap ELSE m
    BY <2>1, <2>2, MaxOfTwo
  <2> QED BY <2>2, <2>3 DEF m
<1> QED BY <1>2, <1>3

LEMMA SourceTyped ==
    ASSUME TypeInv
    PROVE  /\ \A a \in Group : Change(a) => TypeInv'
           /\ Send => TypeInv'
           /\ \A h \in Handlers : GiveUp(h) \/ Answer(h) => TypeInv'
<1>1. Group \subseteq 1..NumAlerts /\ 1 \in Group
  BY GroupFacts DEF TypeInv
<1>2. ASSUME NEW a \in Group, Change(a) PROVE TypeInv'
  <2>1. /\ UNCHANGED <<kind, service, open, failures, restarts, overlap>>
        /\ firing' = [firing EXCEPT ![a] = ~@]
        /\ told' = IF kind = "single" /\ firing[a] THEN told \cup {a} ELSE told \ {a}
    BY <1>2 DEF Change
  <2>2. firing' \in [1..NumAlerts -> BOOLEAN] /\ told' \subseteq 1..NumAlerts
    BY <1>1, <2>1 DEF TypeInv, Tables
  <2>3. kind = "single" => firing'[1] \/ 1 \in told'
    <3>1. kind = "single" => a = 1
      BY DEF Group
    <3> QED BY <1>1, <2>1, <3>1 DEF TypeInv, Tables
  <2>4. Tables'
    BY <2>1, <2>2, <2>3 DEF TypeInv, Tables
  <2> QED BY <1>2, <2>4, ChangeCalls DEF TypeInv
<1>3. CASE Send
  <2> DEFINE f == Request(firing)
  <2>1. f \in Good
    <3>1. {a \in Group : firing[a]} \in SUBSET (1..NumAlerts)
      BY <1>1
    <3>2. f \in Frame
      BY <3>1, <1>1 DEF Request, Frame, TypeInv, Tables
    <3>3. /\ f.pc = "sent" /\ f.alert = 1 /\ f.inc = 0 /\ f.report = firing
          /\ f.owed = {a \in Group : firing[a]}
      BY DEF Request
    <3>4. kind = "single" => firing[1]
      <4>1. ~(Group \subseteq told)
        BY <1>3 DEF Send
      <4>2. kind = "single" => 1 \notin told
        BY <4>1 DEF Group
      <4> QED BY <4>2 DEF TypeInv, Tables
    <3> HIDE DEF f
    <3> QED BY <1>1, <3>2, <3>3, <3>4 DEF Good, FrameInv
  <2>2. /\ call' = Append(call, f) /\ UNCHANGED <<kind, service, open, firing, told, failures, restarts>>
        /\ Len(call) < MaxRequests
    BY <1>3 DEF Send
  <2>3. Len(call) \in Nat /\ (call = <<>> => Len(call) = 0)
    BY CallFacts
  <2>4. overlap' \in 1..MaxRequests /\ Len(call) + 1 <= overlap'
    BY <1>3, OverlapGrows
  <2>5. Tables'
    BY <2>2, <2>4 DEF TypeInv, Tables
  <2>6. Calls'
    <3> HIDE DEF f
    <3> QED BY <2>1, <2>2, <2>4, Appended
  <2> QED BY <2>5, <2>6 DEF TypeInv
<1>4. ASSUME NEW h \in Handlers, GiveUp(h) PROVE TypeInv'
  <2> DEFINE f == [call[h] EXCEPT !.waiting = FALSE]
  <2>1. /\ UNCHANGED <<kind, service, open, firing, told, failures, restarts, overlap>>
        /\ call' = [call EXCEPT ![h] = f]
    BY <1>4 DEF GiveUp
  <2>2. call[h] \in Frame /\ FrameInv(call[h])
    BY CallFacts
  <2>3. /\ f \in Frame /\ f.pc = call[h].pc /\ f.report = call[h].report
        /\ f.alert = call[h].alert /\ f.inc = call[h].inc /\ f.owed = call[h].owed
    BY <2>2, WaitsGood
  <2> HIDE DEF f
  <2>4. f \in Good
    BY <2>2, <2>3 DEF Good, FrameInv
  <2>5. Tables'
    BY <2>1 DEF TypeInv, Tables
  <2> QED BY <2>1, <2>4, <2>5, Replaced DEF TypeInv
<1>5. ASSUME NEW h \in Handlers, Answer(h) PROVE TypeInv'
  <2>1. /\ UNCHANGED <<kind, service, open, firing, failures, restarts, overlap>>
        /\ call' = RemoveAt(call, h)
    BY <1>5 DEF Answer
  <2>2. told \subseteq told' /\ told' \subseteq 1..NumAlerts
    BY <1>1, <1>5 DEF Answer, TypeInv, Tables
  <2>3. Tables'
    BY <2>1, <2>2 DEF TypeInv, Tables
  <2> QED BY <2>1, <2>3, Removed DEF TypeInv
<1> QED BY <1>2, <1>3, <1>4, <1>5

LEMMA OthersTyped ==
    ASSUME TypeInv, (\E a \in Group : Resolve(a)) \/ DeleteService \/ Restart \/ UNCHANGED vars
    PROVE  TypeInv'
<1>1. CASE \E a \in Group : Resolve(a)
  <2>1. /\ UNCHANGED <<kind, service, firing, told, call, failures, restarts, overlap>>
        /\ open' \in [1..NumAlerts -> SUBSET Numbers]
    BY <1>1 DEF Resolve, TypeInv, Tables
  <2> QED BY <2>1 DEF TypeInv, Tables, Calls, Handlers, FrameInv, Group
<1>2. CASE DeleteService
  <2>1. /\ UNCHANGED <<kind, firing, told, call, failures, restarts, overlap>> /\ service' = FALSE
        /\ open' \in [1..NumAlerts -> SUBSET Numbers]
    BY <1>2 DEF DeleteService
  <2> QED BY <2>1 DEF TypeInv, Tables, Calls, Handlers, FrameInv, Group
<1>3. CASE Restart
  <2>1. /\ UNCHANGED <<kind, service, open, firing, told, failures, overlap>> /\ call' = <<>>
        /\ restarts' \in 0..MaxFaults
    BY <1>3 DEF Restart, TypeInv, Tables
  <2>2. call' \in Seq(Frame) /\ Len(call') = 0
    BY <2>1, EmptySeq
  <2>3. Handlers' = {}
    BY <2>2, LenProperties DEF Handlers
  <2>4. Calls'
    BY <2>1, <2>2, <2>3 DEF Calls, TypeInv, Tables
  <2>5. Tables'
    BY <2>1 DEF TypeInv, Tables
  <2> QED BY <2>4, <2>5 DEF TypeInv
<1>4. CASE UNCHANGED vars
  BY <1>4 DEF vars, TypeInv, Tables, Calls, Handlers, FrameInv, Group
<1> QED BY <1>1, <1>2, <1>3, <1>4

LEMMA TypeNext == TypeInv /\ DuplicateBound /\ [Next]_vars => TypeInv'
<1> SUFFICES ASSUME TypeInv, DuplicateBound, [Next]_vars PROVE TypeInv'
  OBVIOUS
<1> QED
  BY HandlerTyped, SourceTyped, OthersTyped DEF Next, Handle, Proceeds

LEMMA TypeInit == Init => TypeInv
<1> SUFFICES ASSUME Init PROVE TypeInv
  OBVIOUS
<1>1. Tables
  BY DEF Init, Tables
<1>2. call = <<>> /\ call \in Seq(Frame) /\ Len(call) = 0
  BY EmptySeq DEF Init
<1>3. Handlers = {}
  BY <1>2, LenProperties DEF Handlers
<1> QED BY <1>1, <1>2, <1>3 DEF TypeInv, Calls, Tables

-----------------------------------------------------------------------------
(* No more handlers are about to insert an incident, and none is open more.  *)
LEMMA BoundKept ==
    ASSUME TypeInv, TypeInv', DuplicateBound, kind' = kind, overlap' = overlap,
           NEW a \in Group,
           open'[a] \subseteq open[a],
           Cardinality(Creating(a)') <= Cardinality(Creating(a))
    PROVE  Cardinality(open'[a]) + Cardinality(Creating(a)') <= overlap'
<1>1. a \in 1..NumAlerts /\ open'[a] \in SUBSET open[a]
  BY GroupFacts DEF TypeInv
<1>2. /\ IsFiniteSet(open[a]) /\ Cardinality(open[a]) \in Nat /\ Cardinality(Creating(a)) \in Nat
      /\ overlap \in Nat
  BY <1>1, Sizes DEF TypeInv, Tables
<1>3. IsFiniteSet(open'[a]) /\ Cardinality(open'[a]) <= Cardinality(open[a])
  BY <1>1, <1>2, FS_Subset
<1>4. Cardinality(open'[a]) \in Nat
  BY <1>3, FS_CardinalityType
<1>5. IsFiniteSet(Creating(a)')
  <2>1. Creating(a)' \in SUBSET Handlers'
    BY DEF Creating
  <2>2. Handlers' = 1..Len(call') /\ Len(call') \in Nat
    BY LenProperties DEF Handlers, TypeInv, Calls
  <2>3. IsFiniteSet(Handlers')
    BY <2>2, FS_Interval
  <2> QED BY <2>1, <2>3, FS_Subset
<1>6. Cardinality(Creating(a)') \in Nat
  BY <1>5, FS_CardinalityType
<1>7. Cardinality(open[a]) + Cardinality(Creating(a)) <= overlap
  BY DEF DuplicateBound
<1> QED BY <1>2, <1>3, <1>4, <1>6, <1>7

(* What a handler's step does to those about to insert.                      *)
LEMMA HandlerBound ==
    ASSUME TypeInv, DuplicateBound, NEW h \in Handlers, Proceeds(h)
    PROVE  DuplicateBound'
<1>1. PICK f \in Good : Moves(h, f) /\ (Create(h) => f.pc # "create")
  BY HandlerMoves
<1>2. TypeInv' /\ UNCHANGED <<kind, overlap>>
  BY HandlerTyped, HandlerTables
<1>3. /\ Handlers' = Handlers
      /\ \A g \in Handlers : call'[g] = IF g = h THEN f ELSE call[g]
  BY <1>1, <1>2, Replaced DEF Moves
<1>4. ASSUME NEW a \in Group
      PROVE  Cardinality(open'[a]) + Cardinality(Creating(a)') <= overlap'
  <2>1. /\ a \in 1..NumAlerts /\ Len(call) \in Nat /\ Len(call) <= overlap
        /\ overlap \in Nat
    BY CallFacts, GroupFacts DEF TypeInv, Tables, Calls
  <2>2. /\ IsFiniteSet(open[a]) /\ Cardinality(open[a]) \in Nat
        /\ IsFiniteSet(Creating(a)) /\ Cardinality(Creating(a)) \in Nat
        /\ IsFiniteSet(Handlers) /\ Cardinality(Handlers) = Len(call)
    BY <2>1, Sizes
  <2>3. Creating(a)' = {g \in Handlers : call'[g].pc = "create" /\ call'[g].alert = a}
    BY <1>3 DEF Creating, Alert
  <2>4. CASE Create(h) /\ a = Alert(h) /\ \E n \in Numbers : open'[a] = open[a] \cup {n}
    <3>1. PICK n \in Numbers : open'[a] = open[a] \cup {n}
      BY <2>4
    <3>2. Cardinality(open'[a]) <= Cardinality(open[a]) + 1 /\ Cardinality(open'[a]) \in Nat
      <4>1. IsFiniteSet(open'[a]) /\ Cardinality(open'[a]) =
                IF n \in open[a] THEN Cardinality(open[a]) ELSE Cardinality(open[a]) + 1
        <5>1. /\ IsFiniteSet(open[a] \cup {n})
              /\ Cardinality(open[a] \cup {n}) =
                   IF n \in open[a] THEN Cardinality(open[a]) ELSE Cardinality(open[a]) + 1
          BY <2>2, FS_AddElement
        <5> QED BY <3>1, <5>1
      <4> QED BY <2>2, <4>1
    <3>3. h \in Creating(a) /\ Creating(a)' \in SUBSET (Creating(a) \ {h})
      BY <1>1, <1>3, <2>3, <2>4 DEF Creating, Create, Alert
    <3>4. IsFiniteSet(Creating(a) \ {h}) /\ Cardinality(Creating(a) \ {h}) = Cardinality(Creating(a)) - 1
      BY <2>2, <3>3, FS_RemoveElement
    <3>5. Cardinality(Creating(a)') <= Cardinality(Creating(a)) - 1
      BY <3>3, <3>4, FS_Subset
    <3>6. Cardinality(Creating(a)') \in Nat
      BY <3>3, <3>4, FS_Subset, FS_CardinalityType
    <3>7. Cardinality(open[a]) + Cardinality(Creating(a)) <= overlap
      BY DEF DuplicateBound
    <3> QED BY <1>2, <2>1, <2>2, <3>2, <3>5, <3>6, <3>7
  <2>5. CASE open'[a] \subseteq open[a] /\ ~(f.pc = "create" /\ f.alert = a)
    <3>1. Creating(a)' \in SUBSET Creating(a)
      BY <1>3, <2>3, <2>5 DEF Creating, Alert
    <3>2. Cardinality(Creating(a)') <= Cardinality(Creating(a))
      BY <2>2, <3>1, FS_Subset
    <3> QED BY <1>2, <2>5, <3>2, BoundKept
  <2>6. CASE f.pc = "create" /\ f.alert = a
    <3>1. open'[a] = {}
      BY <1>1, <2>6 DEF Moves
    <3>2. Cardinality(open'[a]) = 0
      BY <3>1, FS_EmptySet
    <3>3. Creating(a)' \in SUBSET Handlers
      BY <2>3
    <3>4. Cardinality(Creating(a)') <= Len(call) /\ Cardinality(Creating(a)') \in Nat
      BY <2>2, <3>3, FS_Subset, FS_CardinalityType
    <3> QED BY <1>2, <2>1, <3>2, <3>4
  <2> QED BY <1>1, <2>1, <2>4, <2>5, <2>6, HandlerTables
<1> QED BY <1>2, <1>4 DEF DuplicateBound, Group

(* A request is answered: those after it move up.                            *)
LEMMA AnswerBound ==
    ASSUME TypeInv, TypeInv', DuplicateBound, NEW h \in Handlers, Answer(h)
    PROVE  DuplicateBound'
<1>1. UNCHANGED <<kind, open, overlap>> /\ call' = RemoveAt(call, h)
  BY DEF Answer
<1>2. \A g \in Handlers' : /\ (IF g < h THEN g ELSE g + 1) \in Handlers
                           /\ call'[g] = call[IF g < h THEN g ELSE g + 1]
  BY <1>1, Removed
<1>3. Handlers' \subseteq Nat /\ h \in Nat
  BY <1>1, Removed, CallFacts
<1>4. ASSUME NEW a \in Group
      PROVE  Cardinality(open'[a]) + Cardinality(Creating(a)') <= overlap'
  <2> DEFINE S == Creating(a)'
             T == Creating(a)
             f == [g \in S |-> IF g < h THEN g ELSE g + 1]
  <2>1. \A g \in S : g \in Nat /\ (IF g < h THEN g ELSE g + 1) \in T
    BY <1>2, <1>3 DEF Creating, Alert
  <2>2. IsFiniteSet(T)
    BY GroupFacts, Sizes DEF TypeInv
  <2> HIDE DEF S, T
  <2>3. f \in [S -> T]
    BY <2>1
  <2>4. \A x, y \in S : f[x] = f[y] => x = y
    BY <1>3, <2>1
  <2> HIDE DEF f
  <2>5. f \in Injection(S, T)
    BY <2>3, <2>4 DEF Injection, IsInjective
  <2>6. Cardinality(S) <= Cardinality(T)
    BY <2>2, <2>5, FS_Injection
  <2> QED BY <1>1, <2>6, BoundKept DEF S, T
<1> QED BY <1>1, <1>4 DEF DuplicateBound, Group

LEMMA SendBound == ASSUME TypeInv, TypeInv', DuplicateBound, Send PROVE DuplicateBound'
<1> DEFINE f == Request(firing)
<1>1. UNCHANGED <<kind, open>> /\ call' = Append(call, f) /\ f.pc = "sent"
  BY DEF Send, Request
<1>2. /\ Len(call) \in Nat /\ Handlers = 1..Len(call) /\ call \in Seq(Frame)
      /\ call' \in Seq(Frame)
  BY CallFacts DEF TypeInv, Calls
<1> HIDE DEF f
<1>3. /\ Len(call') = Len(call) + 1
      /\ \A g \in Handlers : call'[g] = call[g]
      /\ call'[Len(call) + 1] = f
  <2>1. call \in Seq({call[g] : g \in Handlers} \cup {f})
    <3>1. call \in [1..Len(call) -> {call[g] : g \in Handlers} \cup {f}]
      BY <1>2, LenProperties
    <3> QED BY <1>2, <3>1, SeqDef
  <2> QED BY <1>1, <1>2, <2>1
<1>4. Handlers' = 1..(Len(call) + 1)
  BY <1>2, <1>3, LenProperties DEF Handlers
<1>5. ASSUME NEW a \in Group
      PROVE  Cardinality(open'[a]) + Cardinality(Creating(a)') <= overlap'
  <2>1. Creating(a)' = Creating(a)
    BY <1>1, <1>2, <1>3, <1>4 DEF Creating, Alert
  <2>2. Cardinality(open[a]) + Cardinality(Creating(a)) <= overlap
    BY DEF DuplicateBound
  <2>3. /\ a \in 1..NumAlerts /\ Cardinality(open[a]) \in Nat /\ Cardinality(Creating(a)) \in Nat
        /\ overlap \in 1..MaxRequests /\ overlap' \in 1..MaxRequests
    BY GroupFacts, Sizes DEF TypeInv, Tables
  <2>4. CASE call = <<>> /\ \A b \in Group : open[b] = {}
    <3>1. Creating(a) = {}
      BY <2>4, <1>2, EmptySeq DEF Creating
    <3>2. open'[a] = {} /\ Creating(a)' = {}
      BY <1>1, <2>1, <2>4, <3>1
    <3>3. Cardinality(open'[a]) = 0 /\ Cardinality(Creating(a)') = 0
      BY <3>2, FS_EmptySet
    <3> QED BY <2>3, <3>3
  <2>5. CASE ~(call = <<>> /\ \A b \in Group : open[b] = {})
    <3>1. overlap' >= overlap
      BY <2>5, OverlapGrows
    <3> QED BY <1>1, <2>1, <2>2, <2>3, <3>1
  <2> QED BY <2>4, <2>5
<1> QED BY <1>1, <1>5 DEF DuplicateBound, Group

LEMMA BoundNext == TypeInv /\ DuplicateBound /\ [Next]_vars => DuplicateBound'
<1> SUFFICES ASSUME TypeInv, DuplicateBound, [Next]_vars PROVE DuplicateBound'
  OBVIOUS
<1>1. TypeInv'
  BY TypeNext
<1>2. ASSUME NEW x \in Group, Change(x) PROVE DuplicateBound'
  <2>1. /\ Handlers' = Handlers /\ UNCHANGED <<kind, open, overlap>>
        /\ \A h \in Handlers : call'[h].pc = call[h].pc /\ call'[h].alert = call[h].alert
    BY <1>2, ChangeCalls DEF Change
  <2>2. ASSUME NEW a \in Group PROVE Creating(a)' = Creating(a)
    BY <2>1 DEF Creating, Alert
  <2> QED BY <2>1, <2>2 DEF DuplicateBound, Group
<1>3. ASSUME NEW h \in Handlers, GiveUp(h) PROVE DuplicateBound'
  <2> DEFINE f == [call[h] EXCEPT !.waiting = FALSE]
  <2>1. UNCHANGED <<kind, open, overlap>> /\ call' = [call EXCEPT ![h] = f]
    BY <1>3 DEF GiveUp
  <2>2. f \in Frame /\ f.pc = call[h].pc /\ f.alert = call[h].alert /\ call[h] \in Frame
    BY CallFacts, WaitsGood
  <2> HIDE DEF f
  <2>3. call \in Seq(Frame) /\ Handlers = 1..Len(call)
    BY CallFacts DEF TypeInv, Calls
  <2>4. /\ call' \in Seq(Frame) /\ Len(call') = Len(call)
        /\ \A g \in Handlers : call'[g] = IF g = h THEN f ELSE call[g]
    BY <2>1, <2>2, <2>3, ExceptSeq
  <2>5. Handlers' = Handlers
    BY <2>3, <2>4, LenProperties DEF Handlers
  <2>6. ASSUME NEW a \in Group PROVE Creating(a)' = Creating(a)
    BY <2>2, <2>4, <2>5 DEF Creating, Alert
  <2> QED BY <2>1, <2>6 DEF DuplicateBound, Group
<1>4. ASSUME \/ \E a \in Group : Resolve(a)
             \/ DeleteService
      PROVE  DuplicateBound'
  <2>1. /\ UNCHANGED <<kind, call, overlap>>
        /\ \A b \in Group : open'[b] \subseteq open[b]
    <3>1. CASE DeleteService
      BY <3>1, GroupFacts DEF DeleteService, TypeInv
    <3>2. ASSUME NEW a \in Group, Resolve(a)
          PROVE  UNCHANGED <<kind, call, overlap>> /\ \A b \in Group : open'[b] \subseteq open[b]
      BY <3>2, GroupFacts DEF Resolve, TypeInv, Tables
    <3> QED BY <1>4, <3>1, <3>2
  <2>2. ASSUME NEW a \in Group
        PROVE  Cardinality(open'[a]) + Cardinality(Creating(a)') <= overlap'
    <3>1. Creating(a)' = Creating(a)
      BY <2>1 DEF Creating, Alert, Handlers
    <3>2. Cardinality(Creating(a)) \in Nat
      BY GroupFacts, Sizes DEF TypeInv
    <3>3. Cardinality(Creating(a)') <= Cardinality(Creating(a))
      BY <3>1, <3>2
    <3> QED BY <1>1, <2>1, <3>3, BoundKept
  <2> QED BY <2>1, <2>2 DEF DuplicateBound, Group
<1>5. CASE Restart
  <2>1. UNCHANGED <<kind, open, overlap>> /\ call' = <<>>
    BY <1>5 DEF Restart
  <2>2. Handlers' = {}
    BY <2>1, EmptySeq, LenProperties DEF Handlers
  <2>3. ASSUME NEW a \in Group
        PROVE  Cardinality(open'[a]) + Cardinality(Creating(a)') <= overlap'
    <3>1. Creating(a)' = {}
      BY <2>2 DEF Creating
    <3>2. Cardinality(Creating(a)) \in Nat
      BY GroupFacts, Sizes DEF TypeInv
    <3>3. Cardinality(Creating(a)') <= Cardinality(Creating(a))
      BY <3>1, <3>2, FS_EmptySet
    <3> QED BY <1>1, <2>1, <3>3, BoundKept
  <2> QED BY <2>1, <2>3 DEF DuplicateBound, Group
<1>6. CASE UNCHANGED vars
  BY <1>6 DEF vars, DuplicateBound, Creating, Alert, Handlers, Group
<1> QED
  BY <1>1, <1>2, <1>3, <1>4, <1>5, <1>6, HandlerBound, AnswerBound, SendBound
     DEF Next, Handle, Proceeds

LEMMA BoundInit == Init => DuplicateBound
<1> SUFFICES ASSUME Init, NEW a \in Group PROVE Cardinality(open[a]) + Cardinality(Creating(a)) <= overlap
  BY DEF DuplicateBound
<1>1. a \in 1..NumAlerts
  BY TypeInit, GroupFacts DEF TypeInv
<1>2. open[a] = {} /\ overlap = 1
  BY <1>1 DEF Init
<1>3. Creating(a) = {}
  BY EmptySeq, LenProperties DEF Creating, Handlers, Init
<1> QED BY <1>2, <1>3, FS_EmptySet

(* Every variable keeps its type, and a handler about to resolve an incident  *)
(* knows which; the numbers of incidents do not run out.                      *)
THEOREM IngestionTypes == Spec => []TypeOK
<1>1. TypeInv => TypeOK
  BY TypesImplied
<1> QED
  BY <1>1, TypeInit, BoundInit, TypeNext, BoundNext, PTL DEF Spec

(* An alert has no more open incidents, with those about to be, than requests *)
(* were in progress together since nothing was open: Ingest inserts only if   *)
(* it found none open, and from then on each of those is one request's.       *)
THEOREM DuplicatesAreBounded == Spec => []DuplicateBound
  BY TypeInit, BoundInit, TypeNext, BoundNext, PTL DEF Spec

(* An error means that no incident was met, success that every alert that     *)
(* fires met one, or its own statement failed: what is owed is, at every      *)
(* alert of the loop, what the loop has not come to.                          *)
THEOREM AnswersAreHonest == Spec => []AnswerIsHonest
<1>1. TypeInv => AnswerIsHonest
  BY DEF TypeInv, Calls, FrameInv, AnswerIsHonest
<1> QED
  BY <1>1, TypeInit, BoundInit, TypeNext, BoundNext, PTL DEF Spec

-----------------------------------------------------------------------------
(* With one request at a time, and but for one alert for every statement that *)
(* failed, however often the process restarts: an alert known to have ended   *)
(* has no open incident, and the request in progress does not report it       *)
(* firing; the loop has closed it if it has ended and the loop is past it;    *)
(* and what the loop is about to close is the only incident there is.         *)
Quiet(a) ==
    /\ ~firing[a] /\ a \in told => open[a] = {}
    /\ \A h \in Handlers :
          /\ ~firing[a] /\ a \in told => ~call[h].report[a]
          /\ ~call[h].report[a] /\ Past(call[h], a) => open[a] = {}
          /\ call[h].pc = "close" /\ Alert(h) = a => open[a] \subseteq {call[h].inc}

Unquiet == {a \in Group : ~Quiet(a)}

QuietInv == kind = "alertmanager" /\ overlap = 1 => Cardinality(Unquiet) <= failures

LEMMA UnquietFinite ==
    ASSUME Tables
    PROVE  /\ IsFiniteSet(Unquiet) /\ Cardinality(Unquiet) \in Nat
           /\ \A S \in SUBSET Unquiet :
                 IsFiniteSet(S) /\ Cardinality(S) \in Nat /\ Cardinality(S) <= Cardinality(Unquiet)
<1>1. IsFiniteSet(1..NumAlerts)
  BY FS_Interval
<1>2. Unquiet \subseteq 1..NumAlerts
  BY GroupFacts DEF Unquiet
<1>3. IsFiniteSet(Unquiet)
  BY <1>1, <1>2, FS_Subset
<1> QED BY <1>3, FS_Subset, FS_CardinalityType

(* Steps after which every alert in order before is so still. *)
LEMMA QuietStep ==
    ASSUME TypeInv, QuietInv, kind' = kind, overlap' = overlap, failures' = failures \/ failures' = failures + 1,
           kind = "alertmanager" /\ overlap = 1 => \A a \in Group : Quiet(a) => Quiet(a)'
    PROVE  QuietInv'
<1> SUFFICES ASSUME kind = "alertmanager", overlap = 1 PROVE Cardinality(Unquiet') <= failures'
  BY DEF QuietInv
<1>1. Unquiet' \in SUBSET Unquiet
  BY DEF Unquiet, Group
<1>2. Cardinality(Unquiet') \in Nat /\ Cardinality(Unquiet') <= Cardinality(Unquiet)
  BY <1>1, UnquietFinite DEF TypeInv
<1>3. Cardinality(Unquiet) <= failures /\ Cardinality(Unquiet) \in Nat /\ failures \in Nat
  BY UnquietFinite DEF QuietInv, TypeInv, Tables
<1> QED BY <1>2, <1>3

(* Steps that only close incidents and leave what matters of the frames.     *)
LEMMA QuietKept ==
    ASSUME TypeInv, QuietInv, kind' = kind, overlap' = overlap, failures' = failures,
           Handlers' = Handlers,
           \A h \in Handlers :
              /\ call'[h].pc = call[h].pc /\ call'[h].report = call[h].report
              /\ call'[h].alert = call[h].alert /\ call'[h].inc = call[h].inc,
           kind = "alertmanager" =>
              \A a \in Group : /\ open'[a] \subseteq open[a]
                               /\ ~firing'[a] /\ a \in told' => ~firing[a] /\ a \in told
    PROVE  QuietInv'
<1>1. ASSUME kind = "alertmanager", NEW a \in Group, Quiet(a) PROVE Quiet(a)'
  <2>1. /\ ~firing[a] /\ a \in told => open[a] = {}
        /\ \A h \in Handlers :
              /\ ~firing[a] /\ a \in told => ~call[h].report[a]
              /\ ~call[h].report[a] /\ Past(call[h], a) => open[a] = {}
              /\ call[h].pc = "close" /\ call[h].alert = a => open[a] \subseteq {call[h].inc}
    BY <1>1 DEF Quiet, Alert
  <2>2. /\ ~firing'[a] /\ a \in told' => open'[a] = {}
        /\ \A h \in Handlers :
              /\ ~firing'[a] /\ a \in told' => ~call'[h].report[a]
              /\ ~call'[h].report[a] /\ Past(call'[h], a) => open'[a] = {}
              /\ call'[h].pc = "close" /\ call'[h].alert = a => open'[a] \subseteq {call'[h].inc}
    BY <1>1, <2>1 DEF Past
  <2> QED BY <2>2 DEF Quiet, Alert, Past
<1> QED BY <1>1, QuietStep

(* The request in progress is the only one.                                  *)
LEMMA OneRequest ==
    ASSUME TypeInv, overlap = 1, NEW h \in Handlers
    PROVE  h = 1 /\ Len(call) = 1 /\ \A g \in Handlers : g = h
<1>1. Len(call) \in Nat /\ Len(call) <= 1 /\ Handlers = 1..Len(call)
  BY CallFacts DEF TypeInv, Calls
<1>2. Len(call) = 1
  <2> DEFINE n == Len(call)
  <2>1. n \in Nat /\ n <= 1 /\ h \in 1..n
    BY <1>1
  <2> HIDE DEF n
  <2>2. n = 1
    BY <2>1
  <2> QED BY <2>2 DEF n
<1>3. Handlers = {1}
  BY <1>1, <1>2
<1> QED BY <1>2, <1>3

(* A handler keeps every alert in order but the one whose statement fails. *)
LEMMA HandlerQuiet ==
    ASSUME TypeInv, DuplicateBound, NEW h \in Handlers, Proceeds(h),
           kind = "alertmanager", overlap = 1,
           NEW a \in Group, Quiet(a), failures' # failures => a # Alert(h)
    PROVE  Quiet(a)'
<1>1. PICK f \in Good : Moves(h, f)
  BY HandlerMoves
<1>2. /\ UNCHANGED <<kind, firing, told, overlap>>
      /\ \A b \in 1..NumAlerts :
            \/ open'[b] \subseteq open[b]
            \/ Create(h) /\ b = Alert(h)
  BY HandlerTables
<1>3. /\ Handlers' = Handlers
      /\ \A g \in Handlers : call'[g] = IF g = h THEN f ELSE call[g]
  BY <1>1, <1>2, Replaced DEF Moves
<1> SUFFICES /\ ~firing[a] /\ a \in told => open'[a] = {}
             /\ ~firing[a] /\ a \in told => ~f.report[a]
             /\ ~f.report[a] /\ Past(f, a) => open'[a] = {}
             /\ f.pc = "close" /\ f.alert = a => open'[a] \subseteq {f.inc}
  <2>1. \A g \in Handlers : g = h
    BY OneRequest
  <2> QED BY <1>2, <1>3, <2>1 DEF Quiet, Alert, Past
<1>5. /\ ~firing[a] /\ a \in told => open[a] = {}
      /\ ~firing[a] /\ a \in told => ~call[h].report[a]
      /\ ~call[h].report[a] /\ Past(call[h], a) => open[a] = {}
      /\ call[h].pc = "close" /\ Alert(h) = a => open[a] \subseteq {call[h].inc}
  BY DEF Quiet
<1>6. a \in 1..NumAlerts
  BY GroupFacts DEF TypeInv
<1>7. ~call[h].report[a] => open'[a] \subseteq open[a]
  <2>1. Create(h) => call[h].report[Alert(h)]
    BY CallFacts DEF Create, FrameInv, Alert
  <2> QED BY <1>2, <1>6, <2>1
<1>8. f.report = call[h].report
  BY <1>1 DEF Moves
<1>9. ~f.report[a] /\ Past(f, a) => open'[a] = {}
  BY <1>1, <1>5, <1>7, <1>8 DEF Moves
<1>10. f.pc = "close" /\ f.alert = a => open'[a] \subseteq {f.inc}
  <2>1. SUFFICES ASSUME f.pc = "close", f.alert = a PROVE open'[a] \subseteq {f.inc}
    OBVIOUS
  <2>2. f.inc \in open[a] /\ open'[a] = open[a]
    BY <1>1, <2>1 DEF Moves
  <2>3. /\ IsFiniteSet(open[a]) /\ Cardinality(open[a]) \in Nat
        /\ Cardinality(Creating(a)) \in Nat
        /\ Cardinality(open[a]) + Cardinality(Creating(a)) <= 1
    BY <1>6, Sizes DEF DuplicateBound
  <2>4. Cardinality(open[a]) # 0
    BY <2>2, <2>3, FS_EmptySet
  <2>5. Cardinality(open[a]) = 1
    BY <2>3, <2>4
  <2>6. \E x : open[a] = {x}
    BY <2>3, <2>5, FS_Singleton
  <2> QED BY <2>2, <2>6
<1> QED BY <1>5, <1>7, <1>8, <1>9, <1>10

LEMMA QuietHandler ==
    ASSUME TypeInv, DuplicateBound, QuietInv, NEW h \in Handlers, Proceeds(h)
    PROVE  QuietInv'
<1>1. UNCHANGED <<kind, overlap>>
  BY HandlerTables
<1>2. \/ failures' = failures
      \/ failures' = failures + 1
  BY DEF Proceeds, Receive, Lookup, Create, Trigger, Match, Close, Fault
<1>3. failures \in Nat
  BY DEF TypeInv, Tables
<1>4. CASE failures' = failures
  BY <1>1, <1>4, HandlerQuiet, QuietStep
<1>5. CASE failures' = failures + 1
  <2> SUFFICES ASSUME kind = "alertmanager", overlap = 1 PROVE Cardinality(Unquiet') <= failures'
    BY <1>1 DEF QuietInv
  <2> DEFINE S == Unquiet \cup {Alert(h)}
  <2>1. /\ IsFiniteSet(Unquiet) /\ Cardinality(Unquiet) \in Nat
        /\ Cardinality(Unquiet) <= failures
    BY UnquietFinite DEF QuietInv, TypeInv
  <2>2. /\ IsFiniteSet(S)
        /\ Cardinality(S) = Cardinality(Unquiet) \/ Cardinality(S) = Cardinality(Unquiet) + 1
    BY <2>1, FS_AddElement
  <2>3. Unquiet' \subseteq S
    BY <1>1, HandlerQuiet DEF Unquiet, Group
  <2>4. /\ IsFiniteSet(Unquiet') /\ Cardinality(Unquiet') <= Cardinality(S)
        /\ Cardinality(Unquiet') \in Nat /\ Cardinality(S) \in Nat
    BY <2>2, <2>3, FS_Subset, FS_CardinalityType
  <2> HIDE DEF S
  <2> QED BY <1>3, <1>5, <2>1, <2>2, <2>4
<1> QED BY <1>2, <1>4, <1>5

LEMMA QuietNext == TypeInv /\ DuplicateBound /\ QuietInv /\ [Next]_vars => QuietInv'
<1> SUFFICES ASSUME TypeInv, DuplicateBound, QuietInv, [Next]_vars PROVE QuietInv'
  OBVIOUS
<1>1. ASSUME NEW x \in Group, Change(x) PROVE QuietInv'
  <2>1. /\ UNCHANGED <<kind, open, failures, restarts, overlap>>
        /\ firing' = [firing EXCEPT ![x] = ~@]
        /\ told' = IF kind = "single" /\ firing[x] THEN told \cup {x} ELSE told \ {x}
    BY <1>1 DEF Change
  <2>2. CASE kind = "single"
    BY <2>1, <2>2 DEF QuietInv
  <2>3. CASE kind # "single"
    <3>1. \A a \in Group : ~firing'[a] /\ a \in told' => ~firing[a] /\ a \in told
      BY <2>1, <2>3 DEF TypeInv, Tables
    <3> QED BY <1>1, <2>1, <3>1, ChangeCalls, QuietKept
  <2> QED BY <2>2, <2>3
<1>2. CASE Send
  <2> DEFINE f == Request(firing)
  <2>1. /\ UNCHANGED <<kind, service, open, firing, told, failures, restarts>> /\ call' = Append(call, f)
        /\ f.pc = "sent" /\ f.report = firing
    BY <1>2 DEF Send, Request
  <2> HIDE DEF f
  <2>2. SUFFICES ASSUME kind = "alertmanager", overlap' = 1 PROVE QuietInv'
    BY <2>1 DEF QuietInv
  <2>3. call = <<>>
    <3>1. Len(call) + 1 <= overlap' /\ Len(call) \in Nat /\ call \in Seq(Frame)
      BY <1>2, OverlapGrows, CallFacts DEF TypeInv, Calls
    <3>2. Len(call) = 0
      BY <2>2, <3>1
    <3> QED BY <3>1, <3>2, EmptySeq
  <2>4. call' = <<f>>
    BY <2>1, <2>3
  <2>5. Handlers' = {1} /\ call'[1] = f
    BY <2>4 DEF Handlers
  <2>6. ASSUME NEW a \in Group, Quiet(a) \/ open[a] = {} PROVE Quiet(a)'
    <3>1. /\ ~firing[a] /\ a \in told => open[a] = {}
          /\ ~firing[a] /\ a \in told => ~f.report[a]
          /\ ~Past(f, a) /\ f.pc # "close"
      BY <2>1, <2>6 DEF Quiet, Past
    <3> QED BY <2>1, <2>5, <3>1 DEF Quiet, Past
  <2>7. CASE overlap = 1
    BY <2>1, <2>2, <2>6, <2>7, QuietStep
  <2>8. CASE overlap # 1
    <3>1. overlap' >= overlap \/ \A a \in Group : open[a] = {}
      BY <1>2, OverlapGrows
    <3>2. \A a \in Group : open[a] = {}
      BY <2>2, <2>8, <3>1 DEF TypeInv, Tables
    <3>3. Unquiet' = {}
      BY <2>1, <2>6, <3>2 DEF Unquiet, Group
    <3>4. Cardinality(Unquiet') = 0
      BY <3>3, FS_EmptySet, Zenon
    <3> QED BY <2>1, <3>4 DEF QuietInv, TypeInv, Tables
  <2> QED BY <2>7, <2>8
<1>3. ASSUME NEW h \in Handlers, GiveUp(h) PROVE QuietInv'
  <2> DEFINE f == [call[h] EXCEPT !.waiting = FALSE]
  <2>1. /\ UNCHANGED <<kind, service, open, firing, told, failures, restarts, overlap>>
        /\ call' = [call EXCEPT ![h] = f]
    BY <1>3 DEF GiveUp
  <2>2. call[h] \in Frame /\ FrameInv(call[h])
    BY CallFacts
  <2>3. /\ f \in Frame /\ f.pc = call[h].pc /\ f.report = call[h].report
        /\ f.alert = call[h].alert /\ f.inc = call[h].inc /\ f.owed = call[h].owed
    BY <2>2, WaitsGood
  <2> HIDE DEF f
  <2>4. f \in Good
    BY <2>2, <2>3 DEF Good, FrameInv
  <2>5. /\ Handlers' = Handlers
        /\ \A g \in Handlers : call'[g] = IF g = h THEN f ELSE call[g]
    BY <2>1, <2>4, Replaced
  <2> QED BY <2>1, <2>3, <2>5, QuietKept
<1>4. ASSUME NEW h \in Handlers, Answer(h) PROVE QuietInv'
  <2>1. /\ UNCHANGED <<kind, service, open, firing, failures, restarts, overlap>>
        /\ call' = RemoveAt(call, h)
    BY <1>4 DEF Answer
  <2>2. SUFFICES ASSUME kind = "alertmanager", overlap = 1 PROVE QuietInv'
    BY <2>1 DEF QuietInv
  <2>3. Handlers' = {}
    <3>1. Handlers' = 1..(Len(call) - 1) /\ Len(call) = 1
      BY <2>1, <2>2, OneRequest, Removed
    <3> QED BY <3>1
  <2>4. ASSUME NEW a \in Group, Quiet(a), ~firing[a], a \in told' PROVE open[a] = {}
    <3>1. CASE a \in told
      BY <2>4, <3>1 DEF Quiet
    <3>2. CASE a \notin told
      <4>1. call[h].pc = "ok" /\ call[h].report[a] = firing[a]
        BY <1>4, <2>4, <3>2 DEF Answer
      <4> QED BY <2>4, <4>1 DEF Quiet, Past
    <3> QED BY <3>1, <3>2
  <2>5. \A a \in Group : Quiet(a) => Quiet(a)'
    BY <2>1, <2>3, <2>4 DEF Quiet
  <2> QED BY <2>1, <2>5, QuietStep
<1>5. ASSUME NEW x \in Group, Resolve(x) PROVE QuietInv'
  <2>1. /\ UNCHANGED <<kind, firing, told, call, failures, restarts, overlap>>
        /\ \A a \in Group : open'[a] \subseteq open[a]
    BY <1>5, GroupFacts DEF Resolve, TypeInv, Tables
  <2> QED BY <2>1, QuietKept DEF Handlers
<1>6. CASE DeleteService
  <2>1. /\ UNCHANGED <<kind, firing, told, call, failures, restarts, overlap>>
        /\ \A a \in Group : open'[a] \subseteq open[a]
    BY <1>6, GroupFacts DEF DeleteService, TypeInv
  <2> QED BY <2>1, QuietKept DEF Handlers
<1>7. CASE Restart
  <2>1. UNCHANGED <<kind, open, firing, told, failures, overlap>> /\ call' = <<>>
    BY <1>7 DEF Restart
  <2>2. Handlers' = {}
    BY <2>1, EmptySeq, LenProperties DEF Handlers
  <2>3. \A a \in Group : Quiet(a) => Quiet(a)'
    BY <2>1, <2>2 DEF Quiet
  <2> QED BY <2>1, <2>3, QuietStep
<1>8. CASE UNCHANGED vars
  BY <1>8, QuietKept DEF vars, Handlers
<1> QED
  BY <1>1, <1>2, <1>3, <1>4, <1>5, <1>6, <1>7, <1>8, QuietHandler DEF Next, Handle, Proceeds

LEMMA QuietInit == Init => QuietInv
<1> SUFFICES ASSUME Init PROVE QuietInv
  OBVIOUS
<1>1. Handlers = {}
  BY EmptySeq, LenProperties DEF Handlers, Init
<1>2. \A a \in Group : open[a] = {}
  BY TypeInit, GroupFacts DEF TypeInv, Init
<1>3. Unquiet = {}
  BY <1>1, <1>2 DEF Unquiet, Quiet
<1>4. Cardinality(Unquiet) = 0
  BY <1>3, FS_EmptySet, Zenon
<1> QED BY <1>4 DEF QuietInv, Init

(* Once Alertmanager has been told that an alert has ended, nothing of it     *)
(* stays open if its requests did not overlap, but for as many alerts as      *)
(* statements failed.  Restarts, however many, leave none open.               *)
THEOREM QuietIsClosed == Spec => []QuietMeansClosed
<1>1. TypeInv /\ QuietInv => QuietMeansClosed
  <2> SUFFICES ASSUME TypeInv, QuietInv, kind = "alertmanager", overlap = 1
               PROVE  Cardinality(Forgotten) <= failures
    BY DEF QuietMeansClosed
  <2>1. Forgotten \in SUBSET Unquiet
    BY DEF Forgotten, Unquiet, Quiet
  <2>2. Cardinality(Forgotten) \in Nat /\ Cardinality(Forgotten) <= Cardinality(Unquiet)
    BY <2>1, UnquietFinite DEF TypeInv
  <2>3. Cardinality(Unquiet) \in Nat /\ Cardinality(Unquiet) <= failures /\ failures \in Nat
    BY UnquietFinite DEF QuietInv, TypeInv, Tables
  <2> QED BY <2>2, <2>3
<1> QED
  BY <1>1, TypeInit, BoundInit, QuietInit, TypeNext, BoundNext, QuietNext, PTL DEF Spec
=============================================================================
