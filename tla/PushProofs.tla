----------------------------- MODULE PushProofs -----------------------------
(***************************************************************************)
(* Proofs about Boot and Push for any number of migrations, key pairs,     *)
(* crashes, users, browsers and sending loops: what a boot leaves on disk  *)
(* is consistent, the key that browsers subscribed for is the key that is  *)
(* served, and the clean-up of gone subscriptions spares the live ones.    *)
(***************************************************************************)
EXTENDS Push, TLAPS

-----------------------------------------------------------------------------
(* Booting. *)

(* While a transaction is open it has done what its statements so far do to  *)
(* the migration at hand; the names before that one are all marked.          *)
DiskInv ==
    /\ BootTypeOK
    /\ proc.pc \in {"apply", "mark", "commit"} => proc.next \in Migrations
    /\ tx.schema = IF proc.pc \in {"mark", "commit"} THEN {proc.next} ELSE {}
    /\ tx.marks = IF proc.pc = "commit" THEN {proc.next} ELSE {}
    /\ 1..(proc.next - 1) \subseteq marks
    /\ SchemaMatchesMarks

(* From the moment EnsureVAPIDKeys has read or stored the public half, it is *)
(* the one the process holds.                                                *)
KeyInv ==
    /\ proc.pc \in {"getpriv", "setpriv", "up"} =>
          proc.pub = settings.pub /\ settings.pub # NoKey
    /\ proc.pc = "setpub" => settings.pub = NoKey

LEMMA BootInvInit == Init => DiskInv /\ KeyInv
BY BootAssumption
   DEF Init, BootInit, DiskInv, KeyInv, SchemaMatchesMarks, BootTypeOK, Down, NoTx, Key

(* One migration is committed: its tables and its mark go to disk together.  *)
LEMMA DiskCommit == DiskInv /\ Commit => DiskInv'
<1> SUFFICES ASSUME DiskInv, Commit PROVE DiskInv'
  OBVIOUS
<1> USE BootAssumption
<1> DEFINE n == proc.next
<1>1. n \in 1..MigrationCount /\ tx.schema = {n} /\ tx.marks = {n}
  BY DEF DiskInv, Commit, Migrations
<1>2. schema' = schema \cup {n} /\ marks' = marks \cup {n}
  BY <1>1 DEF Commit
<1>3. proc'.pc = "check" /\ proc'.next = n + 1 /\ tx' = NoTx
  BY DEF Commit, DiskInv, BootTypeOK
<1>4. BootTypeOK'
  <2>1. proc' \in [pc   : {"down", "check", "apply", "mark", "commit", "getpub", "getpriv",
                           "setpub", "setpriv", "up"},
                   next : 1..(MigrationCount + 1), pub : Key, priv : Key]
    <3>1. n + 1 \in 1..(MigrationCount + 1)
      BY <1>1
    <3>2. proc' = [proc EXCEPT !.pc = "check", !.next = n + 1]
      BY DEF Commit
    <3> HIDE DEF n
    <3> QED BY <3>1, <3>2 DEF DiskInv, BootTypeOK
  <2> QED BY <1>1, <1>2, <2>1 DEF Commit, DiskInv, BootTypeOK, NoTx, Migrations
<1>5. 1..n \subseteq marks'
  <2>1. 1..(n - 1) \subseteq marks
    BY DEF DiskInv
  <2>2. 1..n \subseteq (1..(n - 1)) \cup {n}
    BY <1>1
  <2> QED BY <1>2, <2>1, <2>2
<1>6. 1..(proc'.next - 1) \subseteq marks'
  <2>1. proc'.next - 1 = n
    BY <1>1, <1>3
  <2> QED BY <2>1, <1>5
<1>7. SchemaMatchesMarks'
  BY <1>2, <1>5 DEF SchemaMatchesMarks, DiskInv
<1> QED
  BY <1>3, <1>4, <1>6, <1>7 DEF DiskInv, NoTx

LEMMA DiskNext == DiskInv /\ [Next]_vars => DiskInv'
<1> SUFFICES ASSUME DiskInv, [Next]_vars PROVE DiskInv'
  OBVIOUS
<1> USE BootAssumption
<1> USE DEF DiskInv, BootTypeOK, SchemaMatchesMarks, Migrations, Key, Down, NoTx
<1>1. CASE Start
  BY <1>1 DEF Start
<1>2. CASE CheckMark
  <2>1. UNCHANGED <<schema, marks, settings, tx, drawn, crashes>> /\ proc.pc = "check"
    BY <1>2 DEF CheckMark
  <2>2. CASE proc.next \notin Migrations
    BY <1>2, <2>1, <2>2 DEF CheckMark
  <2>3. CASE proc.next \in Migrations /\ proc.next \in marks
    <3> DEFINE n == proc.next
    <3>1. proc' = [proc EXCEPT !.next = n + 1]
      BY <1>2, <2>3 DEF CheckMark
    <3>2. proc'.next = n + 1 /\ proc'.pc = "check" /\ n \in 1..MigrationCount
      BY <2>1, <2>3, <3>1
    <3>3. 1..n \subseteq marks
      BY <2>3
    <3>4. n + 1 - 1 = n
      BY <3>2
    <3> QED BY <2>1, <3>1, <3>2, <3>3, <3>4
  <2>4. CASE proc.next \in Migrations /\ proc.next \notin marks
    BY <1>2, <2>1, <2>4 DEF CheckMark
  <2> QED BY <2>2, <2>3, <2>4
<1>3. CASE Apply
  <2>1. UNCHANGED <<schema, marks, settings, drawn, crashes>> /\ proc.pc = "apply"
    BY <1>3 DEF Apply
  <2>2. proc.next \in 1..MigrationCount
    BY <2>1
  <2>3. CASE proc.next \in schema
    <3>1. proc' = Down /\ UNCHANGED tx
      BY <1>3, <2>3 DEF Apply
    <3> QED BY <2>1, <2>2, <3>1
  <2>4. CASE proc.next \notin schema
    <3>1. tx' = [tx EXCEPT !.schema = {proc.next}] /\ proc' = [proc EXCEPT !.pc = "mark"]
      BY <1>3, <2>4 DEF Apply
    <3>2. tx' \in [schema : SUBSET Migrations, marks : SUBSET Migrations]
      BY <2>2, <3>1
    <3>3. tx'.schema = {proc.next} /\ tx'.marks = {}
      BY <2>1, <3>1
    <3> QED BY <2>1, <2>2, <3>1, <3>2, <3>3
  <2> QED BY <2>3, <2>4
<1>4. CASE Mark
  BY <1>4 DEF Mark
<1>5. CASE Commit
  BY <1>5, DiskCommit
<1>6. CASE GetPublic
  BY <1>6 DEF GetPublic
<1>7. CASE GetPrivate
  BY <1>7 DEF GetPrivate
<1>8. CASE SetPublic
  BY <1>8 DEF SetPublic
<1>9. CASE SetPrivate
  BY <1>9 DEF SetPrivate
<1>10. CASE Crash
  BY <1>10 DEF Crash
<1>11. CASE UNCHANGED bootVars
  BY <1>11 DEF bootVars
<1>12. CASE UNCHANGED vars
  BY <1>11, <1>12 DEF bootVars, vars
<1> QED
  BY <1>1, <1>2, <1>3, <1>4, <1>5, <1>6, <1>7, <1>8, <1>9, <1>10, <1>11, <1>12
  DEF Next, BootStep

(* The schema on disk is what schema_migrations says it is, whenever the     *)
(* process ends and however many migrations there are.                       *)
THEOREM MigrationsAreAtomic == Spec => []SchemaMatchesMarks
<1>1. DiskInv => SchemaMatchesMarks
  BY DEF DiskInv
<1> QED
  BY <1>1, BootInvInit, DiskNext, PTL DEF Spec

LEMMA KeyNext == DiskInv /\ KeyInv /\ [Next]_vars => KeyInv'
<1> SUFFICES ASSUME DiskInv, KeyInv, [Next]_vars PROVE KeyInv'
  OBVIOUS
<1> USE BootAssumption
<1> USE DEF DiskInv, BootTypeOK, KeyInv, Down
<1>1. CASE Start
  BY <1>1 DEF Start
<1>2. CASE CheckMark
  BY <1>2 DEF CheckMark
<1>3. CASE Apply
  BY <1>3 DEF Apply
<1>4. CASE Mark
  BY <1>4 DEF Mark
<1>5. CASE Commit
  BY <1>5 DEF Commit
<1>6. CASE GetPublic
  BY <1>6 DEF GetPublic
<1>7. CASE GetPrivate
  BY <1>7 DEF GetPrivate
<1>8. CASE SetPublic
  BY <1>8 DEF SetPublic
<1>9. CASE SetPrivate
  BY <1>9 DEF SetPrivate
<1>10. CASE Crash
  BY <1>10 DEF Crash
<1>11. CASE UNCHANGED bootVars
  BY <1>11 DEF bootVars
<1>12. CASE UNCHANGED vars
  BY <1>11, <1>12 DEF bootVars, vars
<1> QED
  BY <1>1, <1>2, <1>3, <1>4, <1>5, <1>6, <1>7, <1>8, <1>9, <1>10, <1>11, <1>12
  DEF Next, BootStep

-----------------------------------------------------------------------------
(* Every boot takes the disk the same way. *)

(* The migration at hand is not marked yet; the keys come when there is none  *)
(* left; and the half that is still to be stored fits the one that is.        *)
StageInv ==
    /\ proc.pc \in {"apply", "mark", "commit"} => proc.next \notin marks
    /\ proc.pc \in {"getpub", "getpriv", "setpub", "setpriv", "up"} => proc.next \notin Migrations
    /\ proc.pc = "setpriv" => proc.priv = settings.pub /\ settings.priv = NoKey
    /\ settings.pub = NoKey => settings.priv = NoKey

LEMMA StageInit == Init => StageInv
BY BootAssumption DEF Init, BootInit, StageInv, Down

LEMMA StageNext == DiskInv /\ KeyInv /\ StageInv /\ [Next]_vars => StageInv'
<1> SUFFICES ASSUME DiskInv, KeyInv, StageInv, [Next]_vars PROVE StageInv'
  OBVIOUS
<1> USE BootAssumption
<1> USE DEF DiskInv, BootTypeOK, KeyInv, StageInv, Down
<1>1. CASE Start
  BY <1>1 DEF Start
<1>2. CASE CheckMark
  BY <1>2 DEF CheckMark
<1>3. CASE Apply
  BY <1>3 DEF Apply
<1>4. CASE Mark
  BY <1>4 DEF Mark
<1>5. CASE Commit
  BY <1>5 DEF Commit
<1>6. CASE GetPublic
  BY <1>6 DEF GetPublic
<1>7. CASE GetPrivate
  BY <1>7 DEF GetPrivate
<1>8. CASE SetPublic
  BY <1>8 DEF SetPublic
<1>9. CASE SetPrivate
  BY <1>9 DEF SetPrivate
<1>10. CASE Crash
  BY <1>10 DEF Crash
<1>11. CASE UNCHANGED bootVars
  BY <1>11 DEF bootVars
<1>12. CASE UNCHANGED vars
  BY <1>11, <1>12 DEF bootVars, vars
<1> QED
  BY <1>1, <1>2, <1>3, <1>4, <1>5, <1>6, <1>7, <1>8, <1>9, <1>10, <1>11, <1>12
  DEF Next, BootStep

BootInv == DiskInv /\ KeyInv /\ StageInv

LEMMA BootAlways == Spec => []BootInv
<1>1. Init => BootInv
  BY BootInvInit, StageInit DEF BootInv
<1>2. BootInv /\ [Next]_vars => BootInv'
  BY DiskNext, KeyNext, StageNext DEF BootInv
<1> QED
  BY <1>1, <1>2, PTL DEF Spec

(* While a migration is at hand, exactly those before it are on disk; when    *)
(* none is left, all are.                                                     *)
LEMMA MarksSoFar ==
    ASSUME BootInv
    PROVE  /\ proc.pc \in {"apply", "mark", "commit"} =>
                 /\ marks = 1..(proc.next - 1)
                 /\ schema = 1..(proc.next - 1)
                 /\ proc.next \notin schema
           /\ proc.pc \in {"getpub", "getpriv", "setpub", "setpriv", "up"} =>
                 marks = 1..MigrationCount
<1> USE BootAssumption DEF BootInv, DiskInv, BootTypeOK, SchemaMatchesMarks, StageInv, Migrations
<1>1. ASSUME proc.pc \in {"apply", "mark", "commit"} PROVE marks = 1..(proc.next - 1)
  <2>1. proc.next \in 1..MigrationCount /\ proc.next \notin marks
    BY <1>1
  <2>2. ASSUME NEW m \in marks PROVE m \in 1..(proc.next - 1)
    <3>1. m \in 1..MigrationCount /\ 1..m \subseteq marks
      BY <2>2
    <3>2. proc.next \notin 1..m
      BY <2>1, <3>1
    <3> QED BY <2>1, <3>1, <3>2
  <2> QED BY <2>2
<1>2. ASSUME proc.pc \in {"getpub", "getpriv", "setpub", "setpriv", "up"}
      PROVE  marks = 1..MigrationCount
  <2>1. proc.next = MigrationCount + 1
    BY <1>2
  <2>2. proc.next - 1 = MigrationCount
    BY <2>1
  <2> QED BY <2>2
<1> QED BY <1>1, <1>2

(* On disk, a boot's step is one of AtomicDisk or none at all. *)
LEMMA DiskStep == BootInv /\ [Next]_vars => [Disk!Next]_(Disk!diskVars)
<1> SUFFICES ASSUME BootInv, [Next]_vars PROVE [Disk!Next]_(Disk!diskVars)
  OBVIOUS
<1>1. CASE UNCHANGED <<schema, marks, settings>>
  BY <1>1 DEF Disk!diskVars
<1>2. CASE Commit
  <2>1. /\ proc.next \in 1..MigrationCount
        /\ schema' = schema \cup {proc.next} /\ marks' = marks \cup {proc.next}
    BY <1>2 DEF Commit, BootInv, DiskInv, Migrations
  <2>2. marks = 1..(proc.next - 1) /\ schema = 1..(proc.next - 1)
    BY <1>2, MarksSoFar DEF Commit
  <2>3. (1..(proc.next - 1)) \cup {proc.next} = 1..proc.next
    BY <2>1, BootAssumption
  <2>4. Disk!Migrate(proc.next)
    BY <1>2, <2>1, <2>2, <2>3 DEF Commit, Disk!Migrate
  <2> QED BY <2>1, <2>4 DEF Disk!Next
<1>3. CASE SetPublic
  <2>1. marks = 1..MigrationCount /\ settings.pub = NoKey
    BY <1>3, MarksSoFar DEF SetPublic, BootInv, KeyInv
  <2>2. PICK k \in KeyPairs : settings' = [settings EXCEPT !.pub = k]
    BY <1>3 DEF SetPublic
  <2>3. settings'.pub = k /\ settings'.priv = settings.priv
    BY <2>2 DEF BootInv, DiskInv, BootTypeOK
  <2>4. Disk!StorePublic(k)
    BY <1>3, <2>1, <2>3 DEF SetPublic, Disk!StorePublic
  <2> QED BY <2>4 DEF Disk!Next
<1>4. CASE SetPrivate
  <2>1. /\ settings.pub # NoKey /\ settings.priv = NoKey
        /\ proc.priv = settings.pub
    BY <1>4 DEF SetPrivate, BootInv, KeyInv, StageInv
  <2>2. settings'.priv = proc.priv /\ settings'.pub = settings.pub
    BY <1>4 DEF SetPrivate, BootInv, DiskInv, BootTypeOK
  <2>3. Disk!StorePrivate
    BY <1>4, <2>1, <2>2 DEF SetPrivate, Disk!StorePrivate
  <2> QED BY <2>3 DEF Disk!Next
<1> QED
  BY <1>1, <1>2, <1>3, <1>4
  DEF Next, vars, bootVars, BootStep, Start, CheckMark, Apply, Mark, GetPublic, GetPrivate, Crash

(* The disk goes through the states of a boot that nothing interrupts,        *)
(* however often the process ends between two statements.                     *)
THEOREM BootImplementsDisk == Spec => ImplementsDisk
<1>1. Init => Disk!Init
  BY DEF Init, BootInit, Disk!Init
<1> QED
  BY <1>1, BootAlways, DiskStep, PTL DEF Spec, ImplementsDisk, Disk!Spec

(* No step of a boot ever takes it back, the failure of a migration whose     *)
(* tables exist already least of all: that never happens.                     *)
THEOREM BootOnlyAdvances == Spec => BootAdvances
<1>1. BootInv /\ [Next]_vars => [BootStep => Distance' < Distance]_vars
  <2> SUFFICES ASSUME BootInv, BootStep PROVE Distance' < Distance
    OBVIOUS
  <2> USE BootAssumption
  <2>1. proc \in [pc   : {"down", "check", "apply", "mark", "commit", "getpub", "getpriv",
                          "setpub", "setpriv", "up"},
                  next : 1..(MigrationCount + 1), pub : Key, priv : Key]
    BY DEF BootInv, DiskInv, BootTypeOK
  <2>2. CASE Start
    BY <2>1, <2>2 DEF Start, Distance
  <2>3. CASE CheckMark
    BY <2>1, <2>3 DEF CheckMark, Distance, Migrations
  <2>4. CASE Apply
    <3>1. proc.next \notin schema /\ proc.pc = "apply"
      BY <2>4, MarksSoFar DEF Apply
    <3> QED BY <2>1, <2>4, <3>1 DEF Apply, Distance
  <2>5. CASE Mark
    BY <2>1, <2>5 DEF Mark, Distance
  <2>6. CASE Commit
    BY <2>1, <2>6 DEF Commit, Distance, BootInv, DiskInv, Migrations
  <2>7. CASE GetPublic
    BY <2>1, <2>7 DEF GetPublic, Distance
  <2>9. CASE GetPrivate
    BY <2>1, <2>9 DEF GetPrivate, Distance
  <2>10. CASE SetPrivate
    BY <2>1, <2>10 DEF SetPrivate, Distance
  <2>8. CASE SetPublic
    BY <2>1, <2>8 DEF SetPublic, Distance
  <2> QED
    BY <2>2, <2>3, <2>4, <2>5, <2>6, <2>7, <2>8, <2>9, <2>10 DEF BootStep
<1> QED
  BY <1>1, BootAlways, PTL DEF Spec, BootAdvances

-----------------------------------------------------------------------------
(* Subscriptions. *)

(* One step, by the component that takes it. *)
LEMMA NextCases ==
    ASSUME [Next]_vars
    PROVE  \/ UNCHANGED pushVars
           \/ /\ \A s \in Senders : send'[s] = IdleFrame
              /\ send' = [s \in Senders |-> IdleFrame]
              /\ UNCHANGED <<browser, minted, vouched, rows, enabled>>
           \/ PushStep /\ UNCHANGED bootVars
BY DEF Next, vars, pushVars

(* A browser that talks to the server has a subscription to talk about.      *)
ShapeInv ==
    /\ TypeOK
    /\ \A b \in Browsers : browser[b].pc # "idle" => browser[b].sub # None

LEMMA ShapeInit == Init => ShapeInv
<1> SUFFICES ASSUME Init PROVE ShapeInv
  OBVIOUS
<1>1. BootTypeOK
  BY BootInvInit DEF DiskInv
<1>2. IdleFrame \in Frame
  BY DEF IdleFrame, Frame
<1> QED
  BY <1>1, <1>2 DEF Init, ShapeInv, TypeOK, Key

LEMMA ShapeNext == DiskInv' /\ ShapeInv /\ [Next]_vars => ShapeInv'
<1> SUFFICES ASSUME DiskInv', ShapeInv, [Next]_vars PROVE ShapeInv'
  OBVIOUS
<1> USE PushAssumption DEF ShapeInv
<1>1. BootTypeOK'
  BY DEF DiskInv
<1>2. CASE UNCHANGED pushVars
  BY <1>1, <1>2 DEF TypeOK, pushVars, Senders
<1>3. CASE /\ send' = [s \in Senders |-> IdleFrame]
           /\ UNCHANGED <<browser, minted, vouched, rows, enabled>>
  <2>1. IdleFrame \in Frame
    BY DEF IdleFrame, Frame
  <2> QED BY <1>1, <1>3, <2>1 DEF TypeOK
<1>4. ASSUME NEW b \in Browsers, Enable(b), UNCHANGED bootVars PROVE ShapeInv'
  <2>1. proc.pub \in Key
    BY DEF TypeOK, BootTypeOK
  <2> QED BY <1>1, <1>4, <2>1 DEF Enable, TypeOK, bootVars
<1>5. ASSUME NEW b \in Browsers, Saved(b) PROVE ShapeInv'
  <2>1. browser[b].sub \in Endpoints /\ browser[b].user \in Users
    BY <1>5 DEF Saved, TypeOK
  <2> QED BY <1>1, <1>5, <2>1 DEF Saved, TypeOK
<1>6. ASSUME NEW b \in Browsers, SaveLost(b) \/ Drop(b) \/ Forget(b) PROVE ShapeInv'
  BY <1>1, <1>6 DEF SaveLost, Drop, Forget, TypeOK, Key
<1>7. ASSUME NEW b \in Browsers, Disable(b) PROVE ShapeInv'
  BY <1>1, <1>7 DEF Disable, DeletePushSubscription, TypeOK
<1>8. ASSUME NEW b \in Browsers, NEW u \in Users, SwitchUser(b, u) PROVE ShapeInv'
  BY <1>1, <1>8 DEF SwitchUser, TypeOK
<1>9. ASSUME NEW s \in Senders, NEW u \in Users, ReadSubscriptions(s, u) PROVE ShapeInv'
  BY <1>1, <1>9 DEF ReadSubscriptions, TypeOK, Frame, IdleFrame
<1>10. ASSUME NEW s \in Senders, SendOne(s) PROVE ShapeInv'
  <2>1. /\ UNCHANGED <<browser, minted, vouched, rows, enabled>>
        /\ send \in [Senders -> Frame]
    BY <1>10 DEF SendOne, TypeOK
  <2>2. PICK e \in send[s].left :
            \/ send' = [send EXCEPT ![s].left = @ \ {e}, ![s].cur = e, ![s].pc = "gone"]
            \/ send' = [send EXCEPT ![s].left = @ \ {e}, ![s].sent = @ \cup {e}]
            \/ send' = [send EXCEPT ![s].left = @ \ {e}, ![s].failed = @ \cup {e}]
    BY <1>10 DEF SendOne
  <2>3. send[s] \in Frame /\ e \in Endpoints
    BY <2>1 DEF Frame
  <2>4. send' \in [Senders -> Frame]
    BY <2>1, <2>2, <2>3 DEF Frame
  <2> QED BY <1>1, <2>1, <2>4 DEF TypeOK
<1>11. ASSUME NEW s \in Senders, DeleteGone(s) PROVE ShapeInv'
  <2>1. /\ UNCHANGED <<browser, minted, vouched, enabled>>
        /\ rows' \subseteq rows
        /\ send' = [send EXCEPT ![s].pc = "loop", ![s].cur = None]
    BY <1>11 DEF DeleteGone, DeletePushSubscription
  <2>2. send \in [Senders -> Frame]
    BY DEF TypeOK
  <2>3. [send[s] EXCEPT !.pc = "loop", !.cur = None] \in Frame
    BY <2>2 DEF Frame
  <2>4. send' = [send EXCEPT ![s] = [send[s] EXCEPT !.pc = "loop", !.cur = None]]
    BY <2>1, <2>2
  <2>5. send' \in [Senders -> Frame]
    BY <2>2, <2>3, <2>4
  <2> QED BY <1>1, <2>1, <2>5 DEF TypeOK
<1>12. ASSUME NEW s \in Senders, Report(s) PROVE ShapeInv'
  <2>1. Outcome(s) \in {"nothing", "notified", "notify_failed"}
    BY DEF Outcome
  <2>2. /\ UNCHANGED <<browser, minted, vouched, rows, enabled>>
        /\ send' = [send EXCEPT ![s].pc = "idle", ![s].user = None, ![s].said = Outcome(s)]
    BY <1>12 DEF Report
  <2>3. send \in [Senders -> Frame]
    BY DEF TypeOK
  <2> DEFINE o == Outcome(s)
             f == [send[s] EXCEPT !.pc = "idle", !.user = None, !.said = o]
  <2>4. o \in {"nothing", "notified", "notify_failed"}
    BY <2>1
  <2>5. send' = [send EXCEPT ![s] = f]
    BY <2>2, <2>3
  <2> HIDE DEF o
  <2>6. f \in Frame
    BY <2>3, <2>4 DEF Frame
  <2>7. send' \in [Senders -> Frame]
    BY <2>3, <2>5, <2>6
  <2> QED BY <1>1, <2>2, <2>7 DEF TypeOK
<1> QED
  BY NextCases, <1>2, <1>3, <1>4, <1>5, <1>6, <1>7, <1>8, <1>9, <1>10, <1>11, <1>12
  DEF PushStep

(* An endpoint that is gone never comes back, and none is ever unminted.     *)
LEMMA GoneForGood ==
    ASSUME ShapeInv, [Next]_vars
    PROVE  minted \subseteq minted' /\ \A e \in minted : Live(e)' => Live(e)
<1> USE PushAssumption DEF ShapeInv, Live
<1>1. ASSUME NEW b \in Browsers, Enable(b)
      PROVE  minted \subseteq minted' /\ \A e \in minted : Live(e)' => Live(e)
  BY <1>1 DEF Enable, TypeOK
<1>2. ASSUME NEW b \in Browsers, Drop(b) \/ Forget(b)
      PROVE  minted \subseteq minted' /\ \A e \in minted : Live(e)' => Live(e)
  BY <1>2 DEF Drop, Forget, TypeOK
<1>3. CASE UNCHANGED <<minted, vouched>>
  BY <1>3
<1> QED
  BY NextCases, <1>1, <1>2, <1>3
  DEF PushStep, Saved, SaveLost, Disable, SwitchUser, ReadSubscriptions, SendOne,
      DeleteGone, Report, pushVars

-----------------------------------------------------------------------------
(* Live subscriptions were minted for the key on disk.                       *)
UsableInv == \A e \in Endpoints : Live(e) => vouched[e] = settings.pub

LEMMA UsableNext == DiskInv /\ KeyInv /\ ShapeInv /\ UsableInv /\ [Next]_vars => UsableInv'
<1> SUFFICES ASSUME DiskInv, KeyInv, ShapeInv, UsableInv, [Next]_vars PROVE UsableInv'
  OBVIOUS
<1> USE DEF UsableInv, Live
<1>1. CASE UNCHANGED vouched
  <2>1. CASE SetPublic
    <3>1. settings.pub = NoKey
      BY <2>1 DEF SetPublic, KeyInv
    <3>2. \A e \in Endpoints : ~Live(e)
      BY <3>1
    <3> QED BY <1>1, <3>2
  <2>2. CASE UNCHANGED settings.pub
    BY <1>1, <2>2
  <2>3. CASE SetPrivate
    BY <2>2, <2>3 DEF SetPrivate, DiskInv, BootTypeOK
  <2> QED
    BY <2>1, <2>2, <2>3
    DEF Next, vars, BootStep, Start, CheckMark, Apply, Mark, Commit, GetPublic, GetPrivate,
        Crash, bootVars
<1>2. CASE ~UNCHANGED vouched
  <2>1. UNCHANGED <<settings, proc>> /\ PushStep
    BY <1>2, NextCases DEF pushVars, bootVars
  <2>2. ASSUME NEW b \in Browsers, Enable(b) PROVE UsableInv'
    BY <2>1, <2>2 DEF Enable, Up, KeyInv, ShapeInv, TypeOK
  <2>3. ASSUME NEW b \in Browsers, Drop(b) \/ Forget(b) PROVE UsableInv'
    BY <2>1, <2>3 DEF Drop, Forget, ShapeInv, TypeOK
  <2> QED
    BY <1>2, <2>1, <2>2, <2>3
    DEF PushStep, Saved, SaveLost, Disable, SwitchUser, ReadSubscriptions, SendOne,
        DeleteGone, Report
<1> QED BY <1>1, <1>2

(* Everything above, together.                                               *)
PushTypes == DiskInv /\ KeyInv /\ ShapeInv /\ UsableInv

LEMMA PushTypesInit == Init => PushTypes
BY BootInvInit, ShapeInit DEF PushTypes, UsableInv, Init, Live

LEMMA PushTypesNext == PushTypes /\ [Next]_vars => PushTypes'
BY DiskNext, KeyNext, ShapeNext, UsableNext DEF PushTypes

(* Every variable of Boot and Push keeps its type.                           *)
THEOREM PushTypeCorrect == Spec => []TypeOK
<1>1. PushTypes => TypeOK
  BY DEF PushTypes, ShapeInv
<1> QED
  BY <1>1, PushTypesInit, PushTypesNext, PTL DEF Spec

(* A browser's subscription is good for whatever server process follows,     *)
(* also where a key pair was stored in two steps with a crash in between.    *)
THEOREM KeysStayStable == Spec => []SubscriptionsUsable
<1>1. PushTypes => SubscriptionsUsable
  BY DEF PushTypes, ShapeInv, TypeOK, UsableInv, KeyInv, SubscriptionsUsable, Up
<1> QED
  BY <1>1, PushTypesInit, PushTypesNext, PTL DEF Spec

-----------------------------------------------------------------------------
(* Whatever the server or a browser knows of was minted; what a loop is      *)
(* about to delete is gone; what was saved and still lives has its row.      *)
CleanupInv ==
    /\ \A r \in rows \cup enabled : r[2] \in minted
    /\ \A b \in Browsers : browser[b].sub # None => browser[b].sub \in minted
    /\ \A s \in Senders : /\ send[s].read \subseteq minted
                          /\ send[s].left \subseteq send[s].read
                          /\ send[s].pc = "gone" => send[s].cur \in minted /\ ~Live(send[s].cur)
    /\ CleanupSparesLive

LEMMA CleanupInit == Init => CleanupInv
BY DEF Init, CleanupInv, CleanupSparesLive, IdleFrame

LEMMA CleanupNext == PushTypes /\ CleanupInv /\ [Next]_vars => CleanupInv'
<1> SUFFICES ASSUME PushTypes, CleanupInv, [Next]_vars PROVE CleanupInv'
  OBVIOUS
<1> USE PushAssumption DEF CleanupInv, CleanupSparesLive
<1>1. ShapeInv /\ TypeOK
  BY DEF PushTypes, ShapeInv
<1>2. minted \subseteq minted' /\ \A e \in minted : Live(e)' => Live(e)
  BY <1>1, GoneForGood
<1>3. CASE UNCHANGED pushVars
  BY <1>3 DEF pushVars, Live
<1>4. CASE /\ \A s \in Senders : send'[s] = IdleFrame
           /\ UNCHANGED <<browser, minted, vouched, rows, enabled>>
  BY <1>4 DEF IdleFrame, Live
<1>5. ASSUME NEW b \in Browsers, Enable(b) PROVE CleanupInv'
  BY <1>1, <1>2, <1>5 DEF Enable, TypeOK
<1>6. ASSUME NEW b \in Browsers, Saved(b) PROVE CleanupInv'
  <2>1. browser[b].sub \in minted
    BY <1>1, <1>6 DEF Saved, ShapeInv
  <2> QED BY <1>1, <1>2, <1>6, <2>1 DEF Saved, TypeOK, Live
<1>7. ASSUME NEW b \in Browsers, SaveLost(b) \/ Drop(b) \/ Forget(b) PROVE CleanupInv'
  BY <1>1, <1>2, <1>7 DEF SaveLost, Drop, Forget, TypeOK
<1>8. ASSUME NEW b \in Browsers, Disable(b) PROVE CleanupInv'
  BY <1>1, <1>2, <1>8 DEF Disable, DeletePushSubscription, TypeOK, Live
<1>9. ASSUME NEW b \in Browsers, NEW u \in Users, SwitchUser(b, u) PROVE CleanupInv'
  BY <1>1, <1>2, <1>9 DEF SwitchUser, TypeOK, Live
<1>10. ASSUME NEW s \in Senders, NEW u \in Users, ReadSubscriptions(s, u) PROVE CleanupInv'
  BY <1>1, <1>2, <1>10 DEF ReadSubscriptions, TypeOK, Frame, IdleFrame, Live
<1>11. ASSUME NEW s \in Senders, SendOne(s) PROVE CleanupInv'
  BY <1>1, <1>2, <1>11 DEF SendOne, TypeOK, Frame, Live
<1>12. ASSUME NEW s \in Senders, DeleteGone(s) PROVE CleanupInv'
  BY <1>1, <1>2, <1>12 DEF DeleteGone, DeletePushSubscription, TypeOK, Frame, Live
<1>13. ASSUME NEW s \in Senders, Report(s) PROVE CleanupInv'
  BY <1>1, <1>2, <1>13 DEF Report, TypeOK, Frame, Live
<1> QED
  BY NextCases, <1>3, <1>4, <1>5, <1>6, <1>7, <1>8, <1>9, <1>10, <1>11, <1>12, <1>13
  DEF PushStep

(* Whatever loops overlap, on whatever stale lists, a subscription that was  *)
(* saved, that its user has not taken back and that still works keeps its    *)
(* row.                                                                      *)
THEOREM LiveRowsAreKept == Spec => []CleanupSparesLive
<1>1. CleanupInv => CleanupSparesLive
  BY DEF CleanupInv
<1> QED
  BY <1>1, PushTypesInit, PushTypesNext, CleanupInit, CleanupNext, PTL DEF Spec

-----------------------------------------------------------------------------
(* A loop has tried each live endpoint it has read, or still has it to do;   *)
(* it says nothing before the last.                                          *)
LoopInv ==
    \A s \in Senders :
        /\ \A e \in send[s].read : Live(e) => e \in send[s].left \cup send[s].sent \cup send[s].failed
        /\ send[s].said # "nothing" => send[s].left = {}

LEMMA LoopInit == Init => LoopInv
BY DEF Init, LoopInv, IdleFrame

LEMMA LoopNext == PushTypes /\ CleanupInv /\ LoopInv /\ [Next]_vars => LoopInv'
<1> SUFFICES ASSUME PushTypes, CleanupInv, LoopInv, [Next]_vars PROVE LoopInv'
  OBVIOUS
<1> USE PushAssumption DEF LoopInv
<1>1. ShapeInv /\ TypeOK
  BY DEF PushTypes, ShapeInv
<1>2. /\ \A e \in minted : Live(e)' => Live(e)
      /\ \A s \in Senders : send[s].read \subseteq minted
  BY <1>1, GoneForGood DEF CleanupInv
<1>3. CASE UNCHANGED send
  BY <1>2, <1>3
<1>4. CASE \A s \in Senders : send'[s] = IdleFrame
  BY <1>4 DEF IdleFrame
<1>5. ASSUME NEW s \in Senders, NEW u \in Users, ReadSubscriptions(s, u) PROVE LoopInv'
  BY <1>1, <1>2, <1>5 DEF ReadSubscriptions, TypeOK, Frame, IdleFrame
<1>6. ASSUME NEW s \in Senders, SendOne(s) PROVE LoopInv'
  BY <1>1, <1>2, <1>6 DEF SendOne, TypeOK, Frame, Live
<1>7. ASSUME NEW s \in Senders, DeleteGone(s) \/ Report(s) PROVE LoopInv'
  BY <1>1, <1>2, <1>7 DEF DeleteGone, Report, TypeOK, Frame
<1> QED
  BY NextCases, <1>3, <1>4, <1>5, <1>6, <1>7
  DEF PushStep, Enable, Saved, SaveLost, Disable, Drop, Forget, SwitchUser, pushVars

(* No failure of one subscription keeps a page from another.                 *)
THEOREM NoDeviceSkipped == Spec => []EveryDeviceTried
<1>1. LoopInv => EveryDeviceTried
  BY DEF LoopInv, EveryDeviceTried
<1> QED
  BY <1>1, PushTypesInit, PushTypesNext, CleanupInit, CleanupNext, LoopInit, LoopNext, PTL
  DEF Spec

-----------------------------------------------------------------------------
(* What was said stays true of the loop that said it.                        *)
ReportInv ==
    /\ \A s \in Senders : send[s].said # "nothing" => send[s].pc = "idle"
    /\ HonestReport

LEMMA ReportInit == Init => ReportInv
BY DEF Init, ReportInv, HonestReport, IdleFrame

LEMMA ReportNext ==
    PushTypes /\ CleanupInv /\ LoopInv /\ ReportInv /\ [Next]_vars => ReportInv'
<1> SUFFICES ASSUME PushTypes, CleanupInv, LoopInv, ReportInv, [Next]_vars PROVE ReportInv'
  OBVIOUS
<1> USE PushAssumption DEF ReportInv, HonestReport
<1>1. ShapeInv /\ TypeOK
  BY DEF PushTypes, ShapeInv
<1>2. /\ \A e \in minted : Live(e)' => Live(e)
      /\ \A s \in Senders : send[s].read \subseteq minted
  BY <1>1, GoneForGood DEF CleanupInv
<1>3. CASE UNCHANGED send
  BY <1>2, <1>3
<1>4. CASE \A s \in Senders : send'[s] = IdleFrame
  BY <1>4 DEF IdleFrame
<1>5. ASSUME NEW s \in Senders, NEW u \in Users, ReadSubscriptions(s, u) PROVE ReportInv'
  BY <1>1, <1>2, <1>5 DEF ReadSubscriptions, TypeOK, Frame, IdleFrame
<1>6. ASSUME NEW s \in Senders, SendOne(s) PROVE ReportInv'
  BY <1>1, <1>2, <1>6 DEF SendOne, TypeOK, Frame, Live
<1>7. ASSUME NEW s \in Senders, DeleteGone(s) PROVE ReportInv'
  BY <1>1, <1>2, <1>7 DEF DeleteGone, TypeOK, Frame, Live
<1>8. ASSUME NEW s \in Senders, Report(s) PROVE ReportInv'
  <2>1. \A e \in send[s].read : Live(e) => e \in send[s].sent \cup send[s].failed
    BY <1>8 DEF Report, LoopInv
  <2>2. /\ Outcome(s) = "notified" => \/ send[s].sent # {}
                                      \/ \A e \in send[s].read : ~Live(e)
        /\ Outcome(s) = "notify_failed" => send[s].sent = {}
    BY <2>1 DEF Outcome
  <2> HIDE DEF HonestReport
  <2>3. /\ send' = [send EXCEPT ![s].pc = "idle", ![s].user = None, ![s].said = Outcome(s)]
        /\ vouched' = vouched
    BY <1>8 DEF Report
  <2>4. send \in [Senders -> Frame]
    BY <1>1 DEF TypeOK
  <2>5. ASSUME NEW t \in Senders, t # s PROVE send'[t] = send[t]
    BY <2>3, <2>4, <2>5
  <2>6. /\ send'[s].pc = "idle" /\ send'[s].said = Outcome(s)
        /\ send'[s].sent = send[s].sent /\ send'[s].read = send[s].read
    BY <2>3, <2>4 DEF Frame
  <2> HIDE DEF Outcome
  <2> QED BY <2>2, <2>3, <2>5, <2>6 DEF HonestReport, Live
<1> QED
  BY NextCases, <1>3, <1>4, <1>5, <1>6, <1>7, <1>8
  DEF PushStep, Enable, Saved, SaveLost, Disable, Drop, Forget, SwitchUser, pushVars

(* The timeline never says that nobody could be notified when some device    *)
(* was, nor that somebody was when every live device failed.                 *)
THEOREM ReportsAreHonest == Spec => []HonestReport
<1>1. ReportInv => HonestReport
  BY DEF ReportInv
<1> QED
  BY <1>1, PushTypesInit, PushTypesNext, CleanupInit, CleanupNext, LoopInit, LoopNext,
     ReportInit, ReportNext, PTL
  DEF Spec

-----------------------------------------------------------------------------
(* The subscriptions that work. *)

(* What is alive was minted, what a browser holds is alive and held by no     *)
(* other browser, and no row is there that its user has taken back.          *)
BrowserInv ==
    /\ rows \subseteq enabled
    /\ \A e \in Endpoints : Live(e) => e \in minted
    /\ \A b \in Browsers : browser[b].sub # None =>
          /\ Live(browser[b].sub)
          /\ \A c \in Browsers : browser[c].sub = browser[b].sub => c = b

LEMMA BrowserInit == Init => BrowserInv
BY DEF Init, BrowserInv, Live

LEMMA BrowserNext == PushTypes /\ CleanupInv /\ BrowserInv /\ [Next]_vars => BrowserInv'
<1> SUFFICES ASSUME PushTypes, CleanupInv, BrowserInv, [Next]_vars PROVE BrowserInv'
  OBVIOUS
<1> USE PushAssumption
<1>1. ShapeInv /\ TypeOK
  BY DEF PushTypes, ShapeInv
<1>2. CASE UNCHANGED <<browser, minted, vouched, enabled>> /\ rows' \subseteq rows
  BY <1>2 DEF BrowserInv, Live
<1>3. ASSUME NEW b \in Browsers, Enable(b), UNCHANGED bootVars PROVE BrowserInv'
  <2>1. proc.pub \in Key /\ proc.pub # NoKey
    BY <1>1, <1>3 DEF Enable, Up, PushTypes, KeyInv, TypeOK, BootTypeOK
  <2>2. PICK e \in Endpoints \ minted :
            /\ minted' = minted \cup {e}
            /\ vouched' = [vouched EXCEPT ![e] = proc.pub]
            /\ browser' = [browser EXCEPT ![b].sub = e, ![b].pc = "saving"]
            /\ UNCHANGED <<rows, enabled>>
    BY <1>3 DEF Enable
  <2>3. \A c \in Browsers : browser[c].sub # e
    BY <2>2 DEF CleanupInv
  <2>4. \A c \in Browsers : browser'[c].sub = IF c = b THEN e ELSE browser[c].sub
    BY <1>1, <2>2 DEF TypeOK
  <2>5. \A d \in Endpoints : vouched'[d] = IF d = e THEN proc.pub ELSE vouched[d]
    BY <1>1, <2>2 DEF TypeOK
  <2>6. \A c \in Browsers : browser[c].sub \in Endpoints \cup {None}
    BY <1>1 DEF TypeOK
  <2>7. \A d \in Endpoints : Live(d)' => d \in minted'
    BY <2>1, <2>2, <2>5 DEF BrowserInv, Live
  <2>8. ASSUME NEW c \in Browsers, browser'[c].sub # None
        PROVE  /\ Live(browser[c].sub)'
               /\ \A d \in Browsers : browser'[d].sub = browser'[c].sub => d = c
    <3>1. browser'[c].sub \in Endpoints /\ Live(browser[c].sub)'
      <4>1. CASE c = b
        BY <2>1, <2>2, <2>4, <2>5, <4>1 DEF Live
      <4>2. CASE c # b
        <5>1. browser'[c].sub = browser[c].sub
          BY <2>4, <4>2
        <5>2. browser[c].sub \in Endpoints /\ Live(browser[c].sub)
          BY <2>6, <2>8, <5>1 DEF BrowserInv
        <5>3. browser[c].sub # e
          BY <2>3
        <5> QED BY <2>5, <5>1, <5>2, <5>3 DEF Live
      <4> QED BY <4>1, <4>2
    <3>2. \A d \in Browsers : browser'[d].sub = browser'[c].sub => d = c
      BY <2>3, <2>4, <2>8 DEF BrowserInv
    <3> QED BY <3>1, <3>2
  <2> QED BY <2>2, <2>7, <2>8 DEF BrowserInv
<1>4. ASSUME NEW b \in Browsers, Drop(b) \/ Forget(b) PROVE BrowserInv'
  <2>1. /\ browser[b].sub # None /\ UNCHANGED <<minted, rows, enabled>>
        /\ vouched' = [vouched EXCEPT ![browser[b].sub] = NoKey]
        /\ \A c \in Browsers : browser'[c].sub = IF c = b THEN None ELSE browser[c].sub
    BY <1>1, <1>4 DEF Drop, Forget, ShapeInv, TypeOK
  <2>2. \A d \in Endpoints : vouched'[d] = IF d = browser[b].sub THEN NoKey ELSE vouched[d]
    BY <1>1, <2>1 DEF TypeOK
  <2>3. \A c \in Browsers : browser[c].sub \in Endpoints \cup {None}
    BY <1>1 DEF TypeOK
  <2> QED BY <2>1, <2>2, <2>3 DEF BrowserInv, Live
<1>5. CASE /\ UNCHANGED <<minted, vouched>>
           /\ rows' \subseteq enabled'
           /\ \A b \in Browsers : browser'[b].sub = browser[b].sub
  BY <1>5 DEF BrowserInv, Live
<1>6. ASSUME NEW b \in Browsers, Saved(b) \/ SaveLost(b) \/ Disable(b) PROVE BrowserInv'
  BY <1>1, <1>5, <1>6
  DEF Saved, SaveLost, Disable, DeletePushSubscription, TypeOK, BrowserInv
<1>7. ASSUME NEW b \in Browsers, NEW u \in Users, SwitchUser(b, u) PROVE BrowserInv'
  BY <1>1, <1>5, <1>7 DEF SwitchUser, TypeOK, BrowserInv
<1> QED
  BY NextCases, <1>2, <1>3, <1>4, <1>6, <1>7
  DEF PushStep, ReadSubscriptions, SendOne, DeleteGone, DeletePushSubscription, Report, pushVars

(* Everything a step of the registry rests on.                               *)
RegistryInv == PushTypes /\ CleanupInv /\ BrowserInv

LEMMA RegistryAlways == Spec => []RegistryInv
<1>1. Init => RegistryInv
  BY PushTypesInit, CleanupInit, BrowserInit DEF RegistryInv
<1>2. RegistryInv /\ [Next]_vars => RegistryInv'
  BY PushTypesNext, CleanupNext, BrowserNext DEF RegistryInv
<1> QED
  BY <1>1, <1>2, PTL DEF Spec

(* The registry does not see a step that leaves the live subscriptions alone, *)
(* what users have asked for, and who is at which browser.                   *)
LEMMA RegistryUnseen ==
    ASSUME UNCHANGED <<minted, vouched, enabled>>, AtHand' = AtHand,
           \A r \in rows \cup rows' : Live(r[2]) => (r \in rows <=> r \in rows')
    PROVE  UNCHANGED Registry!registryVars
BY DEF Live, Registry!registryVars

(* Nobody logs in, and no browser comes to another subscription.             *)
LEMMA SameHands ==
    ASSUME \A b \in Browsers : browser'[b].user = browser[b].user /\ browser'[b].sub = browser[b].sub
    PROVE  AtHand' = AtHand
BY DEF AtHand

(* Whoever is at a browser that holds a subscription has it at hand.         *)
LEMMA HandFacts ==
    ASSUME RegistryInv, NEW b \in Browsers, browser[b].sub # None
    PROVE  /\ browser[b].user \in Users /\ browser[b].sub \in Endpoints
           /\ Live(browser[b].sub) /\ browser[b].sub \in minted
           /\ <<browser[b].user, browser[b].sub>> \in AtHand
           /\ \A c \in Browsers : browser[c].sub = browser[b].sub => c = b
<1>1. TypeOK
  BY DEF RegistryInv, PushTypes, ShapeInv
<1> QED BY <1>1 DEF TypeOK, RegistryInv, BrowserInv, AtHand

LEMMA MintStep ==
    ASSUME RegistryInv, UNCHANGED bootVars, NEW b \in Browsers, Enable(b)
    PROVE  Registry!Next
<1>1. TypeOK
  BY DEF RegistryInv, PushTypes, ShapeInv
<1>2. proc.pub # NoKey
  BY DEF Enable, Up, RegistryInv, PushTypes, KeyInv
<1>3. PICK e \in Endpoints \ minted :
          /\ minted' = minted \cup {e}
          /\ vouched' = [vouched EXCEPT ![e] = proc.pub]
          /\ browser' = [browser EXCEPT ![b].sub = e, ![b].pc = "saving"]
  BY DEF Enable
<1>4. UNCHANGED <<rows, enabled>> /\ \A r \in rows : r[2] \in minted
  BY DEF Enable, RegistryInv, CleanupInv
<1>5. ~Live(e)
  BY <1>3 DEF RegistryInv, BrowserInv
<1> DEFINE u == browser[b].user
<1>6. AtHand' = AtHand \cup {<<u, e>>}
  <2>1. /\ \A c \in Browsers : browser'[c].user = browser[c].user
        /\ \A c \in Browsers : browser'[c].sub = IF c = b THEN e ELSE browser[c].sub
        /\ e # None /\ browser[b].sub = None
    BY <1>1, <1>3, PushAssumption DEF TypeOK, Enable
  <2> QED BY <2>1 DEF AtHand
<1>7. u \in Users
  BY <1>1 DEF TypeOK
<1> HIDE DEF u
<1>8. Registry!Mint(u, e)
  BY <1>1, <1>2, <1>3, <1>4, <1>5, <1>6 DEF Registry!Mint, Live, TypeOK
<1> QED BY <1>3, <1>7, <1>8 DEF Registry!Next

LEMMA LoginStep ==
    ASSUME RegistryInv, NEW b \in Browsers, NEW v \in Users, SwitchUser(b, v)
    PROVE  [Registry!Next]_(Registry!registryVars)
<1>1. TypeOK
  BY DEF RegistryInv, PushTypes, ShapeInv
<1>2. /\ UNCHANGED <<minted, vouched, rows, enabled>>
      /\ \A c \in Browsers : /\ browser'[c].sub = browser[c].sub
                             /\ browser'[c].user = IF c = b THEN v ELSE browser[c].user
  BY <1>1 DEF SwitchUser, TypeOK
<1>3. CASE browser[b].sub = None
  <2>1. AtHand' = AtHand
    BY <1>2, <1>3 DEF AtHand
  <2> QED BY <1>2, <2>1, RegistryUnseen
<1>4. CASE browser[b].sub # None
  <2> DEFINE u == browser[b].user
             e == browser[b].sub
  <2>1. /\ u \in Users /\ e \in Endpoints /\ <<u, e>> \in AtHand
        /\ \A c \in Browsers : browser[c].sub = e => c = b
    BY <1>4, HandFacts
  <2>2. AtHand' = (AtHand \ {<<u, e>>}) \cup {<<v, e>>}
    <3>1. ASSUME NEW c \in Browsers, browser[c].sub # None, c # b
          PROVE  <<browser[c].user, browser[c].sub>> # <<u, e>>
      BY <2>1, <3>1
    <3>2. AtHand' = {<<browser[c].user, browser[c].sub>> : c \in {d \in Browsers : browser[d].sub # None /\ d # b}}
                        \cup {<<v, e>>}
      BY <1>2, <1>4 DEF AtHand
    <3>3. AtHand = {<<browser[c].user, browser[c].sub>> : c \in {d \in Browsers : browser[d].sub # None /\ d # b}}
                        \cup {<<u, e>>}
      BY <1>4 DEF AtHand
    <3> QED BY <3>1, <3>2, <3>3
  <2> HIDE DEF u, e
  <2>3. Registry!Login(u, v, e)
    BY <1>2, <2>1, <2>2 DEF Registry!Login, Live
  <2> QED BY <2>1, <2>3 DEF Registry!Next
<1> QED BY <1>3, <1>4

LEMMA SaveStep ==
    ASSUME RegistryInv, NEW b \in Browsers, Saved(b)
    PROVE  Registry!Next
<1>1. ShapeInv /\ TypeOK
  BY DEF RegistryInv, PushTypes, ShapeInv
<1> DEFINE u == browser[b].user
           e == browser[b].sub
<1>2. u \in Users /\ e \in Endpoints /\ Live(e) /\ <<u, e>> \in AtHand
  BY <1>1, HandFacts DEF Saved, ShapeInv
<1>3. /\ rows' = rows \cup {<<u, e>>} /\ enabled' = enabled \cup {<<u, e>>}
      /\ UNCHANGED <<minted, vouched>>
  BY DEF Saved
<1>4. AtHand' = AtHand
  BY <1>1, SameHands DEF Saved, TypeOK
<1> HIDE DEF u, e
<1>5. Registry!Save(u, e)
  BY <1>2, <1>3, <1>4 DEF Registry!Save, Live
<1> QED BY <1>2, <1>5 DEF Registry!Next

LEMMA TakeBackStep ==
    ASSUME RegistryInv, NEW b \in Browsers, Disable(b)
    PROVE  [Registry!Next]_(Registry!registryVars)
<1>1. TypeOK
  BY DEF RegistryInv, PushTypes, ShapeInv
<1> DEFINE u == browser[b].user
           e == browser[b].sub
<1>2. u \in Users /\ e \in Endpoints /\ Live(e) /\ <<u, e>> \in AtHand
  BY HandFacts DEF Disable
<1>3. /\ \/ rows' = rows \ {<<u, e>>} /\ enabled' = enabled \ {<<u, e>>}
         \/ UNCHANGED <<rows, enabled>>
      /\ UNCHANGED <<minted, vouched>>
  BY DEF Disable, DeletePushSubscription
<1>4. AtHand' = AtHand
  BY <1>1, SameHands DEF Disable, TypeOK
<1>5. rows \subseteq enabled
  BY DEF RegistryInv, BrowserInv
<1> HIDE DEF u, e
<1>6. CASE UNCHANGED <<rows, enabled>>
  BY <1>3, <1>4, <1>6, RegistryUnseen
<1>7. CASE <<u, e>> \notin enabled
  <2>1. UNCHANGED <<rows, enabled>>
    BY <1>3, <1>5, <1>7
  <2> QED BY <1>6, <2>1
<1>8. CASE /\ <<u, e>> \in enabled
           /\ rows' = rows \ {<<u, e>>} /\ enabled' = enabled \ {<<u, e>>}
  <2>1. Registry!TakeBack(u, e)
    BY <1>2, <1>3, <1>4, <1>8 DEF Registry!TakeBack, Live
  <2> QED BY <1>2, <2>1 DEF Registry!Next
<1> QED BY <1>3, <1>6, <1>7, <1>8

LEMMA DieStep ==
    ASSUME RegistryInv, NEW b \in Browsers, Drop(b) \/ Forget(b)
    PROVE  Registry!Next
<1>1. ShapeInv /\ TypeOK
  BY DEF RegistryInv, PushTypes, ShapeInv
<1>2. /\ browser[b].sub # None
      /\ vouched' = [vouched EXCEPT ![browser[b].sub] = NoKey]
      /\ UNCHANGED <<minted, rows, enabled>>
      /\ \A c \in Browsers : /\ browser'[c].user = browser[c].user
                             /\ browser'[c].sub = IF c = b THEN None ELSE browser[c].sub
  BY <1>1 DEF Drop, Forget, ShapeInv, TypeOK
<1>3. PICK e \in Endpoints : /\ e = browser[b].sub /\ Live(e) /\ e \in minted
                             /\ \A c \in Browsers : browser[c].sub = e => c = b
  BY <1>2, HandFacts
<1>4. /\ ~Live(e)'
      /\ \A d \in Endpoints : d # e => (Live(d)' <=> Live(d))
  BY <1>1, <1>2, <1>3 DEF Live, TypeOK
<1>5. minted \subseteq Endpoints /\ \A r \in rows : r[2] \in Endpoints
  BY <1>1 DEF TypeOK
<1>6. AtHand' = {r \in AtHand : r[2] # e}
  <2>1. {c \in Browsers : browser[c].sub # None}' =
            {c \in Browsers : browser[c].sub # None /\ browser[c].sub # e}
    BY <1>2, <1>3
  <2>2. AtHand' = {<<browser[c].user, browser[c].sub>> :
                       c \in {d \in Browsers : browser[d].sub # None /\ browser[d].sub # e}}
    BY <1>2, <2>1 DEF AtHand
  <2> QED BY <2>2 DEF AtHand
<1>7. Registry!Die(e)
  BY <1>2, <1>3, <1>4, <1>5, <1>6 DEF Registry!Die, Live
<1> QED BY <1>3, <1>7 DEF Registry!Next

LEMMA CleanupStep ==
    ASSUME RegistryInv, NEW s \in Senders, DeleteGone(s)
    PROVE  UNCHANGED Registry!registryVars
<1>1. ~Live(send[s].cur)
  BY DEF DeleteGone, RegistryInv, CleanupInv
<1>2. /\ UNCHANGED <<browser, minted, vouched, enabled>>
      /\ rows' = rows \ {<<send[s].user, send[s].cur>>}
  BY DEF DeleteGone, DeletePushSubscription
<1>3. AtHand' = AtHand
  BY <1>2, SameHands
<1> QED BY <1>1, <1>2, <1>3, RegistryUnseen

LEMMA RegistryStep == RegistryInv /\ [Next]_vars => [Registry!Next]_(Registry!registryVars)
<1> SUFFICES ASSUME RegistryInv, [Next]_vars PROVE [Registry!Next]_(Registry!registryVars)
  OBVIOUS
<1>1. CASE UNCHANGED <<browser, minted, vouched, rows, enabled>>
  BY <1>1, SameHands, RegistryUnseen
<1>2. ASSUME NEW b \in Browsers, SaveLost(b) PROVE UNCHANGED Registry!registryVars
  <2>1. /\ UNCHANGED <<minted, vouched, rows, enabled>>
        /\ \A c \in Browsers : browser'[c].user = browser[c].user /\ browser'[c].sub = browser[c].sub
    BY <1>2 DEF SaveLost, RegistryInv, PushTypes, ShapeInv, TypeOK
  <2> QED BY <2>1, SameHands, RegistryUnseen
<1> QED
  BY NextCases, <1>1, <1>2, MintStep, LoginStep, SaveStep, TakeBackStep, DieStep, CleanupStep
  DEF PushStep, ReadSubscriptions, SendOne, Report, pushVars

(* However many loops send on stale lists and clean up after themselves, a    *)
(* working subscription comes with its save and goes with its own user's      *)
(* word, given at the browser that holds it, or with its endpoint, and by     *)
(* nothing else: a clean-up takes only rows that no longer work.              *)
THEOREM PushImplementsRegistry == Spec => ImplementsRegistry
<1>1. Init => Registry!Init
  BY DEF Init, Registry!Init, Live, AtHand
<1> QED
  BY <1>1, RegistryAlways, RegistryStep, PTL DEF Spec, ImplementsRegistry, Registry!Spec
=============================================================================
