-------------------------------- MODULE Boot --------------------------------
(***************************************************************************)
(* How the process starts: db.Open applies the migrations that are not     *)
(* marked yet, each in a transaction of its own, and EnsureVAPIDKeys reads *)
(* the key pair that signs push messages from the settings table, or draws *)
(* one and stores its two halves by two statements.  The process may end   *)
(* between any two of them; what was committed stays on disk.              *)
(***************************************************************************)
EXTENDS Naturals

CONSTANTS
    MigrationCount, \* files in migrations/, numbered in the order of their names
    KeyPairs,       \* bound: key pairs that may ever be drawn
    NoKey,          \* a setting that is missing, read as ""
    MaxCrashes      \* bound: how often the process ends

ASSUME BootAssumption ==
    /\ MigrationCount \in Nat
    /\ NoKey \notin KeyPairs
    /\ MaxCrashes \in Nat

VARIABLES
    schema,     \* on disk: migrations whose tables exist
    marks,      \* on disk: schema_migrations
    settings,   \* on disk: the key pairs whose public, private half is stored
    tx,         \* what the open transaction has done so far
    proc,       \* the process
    drawn,      \* history: key pairs drawn so far
    crashes

bootVars == <<schema, marks, settings, tx, proc, drawn, crashes>>

Migrations == 1..MigrationCount
Key        == KeyPairs \cup {NoKey}

NoTx == [schema |-> {}, marks |-> {}]
Down == [pc |-> "down", next |-> 1, pub |-> NoKey, priv |-> NoKey]

Up == proc.pc = "up"

-----------------------------------------------------------------------------
(* db.Open and migrate. *)

Start ==
    /\ proc.pc = "down"
    /\ proc' = [proc EXCEPT !.pc = "check"]
    /\ UNCHANGED <<schema, marks, settings, tx, drawn, crashes>>

(* Mutation: one name too many. *)
CheckMark_PastEnd ==
    /\ proc.pc = "check"
    /\ proc' = IF proc.next > MigrationCount + 1 THEN [proc EXCEPT !.pc = "getpub"]
               ELSE IF proc.next \in marks THEN [proc EXCEPT !.next = @ + 1]
               ELSE [proc EXCEPT !.pc = "apply"]
    /\ UNCHANGED <<schema, marks, settings, tx, drawn, crashes>>

(* SELECT COUNT(-) FROM schema_migrations, for one name after the other. *)
CheckMark ==
    /\ proc.pc = "check"
    /\ proc' = IF proc.next \notin Migrations THEN [proc EXCEPT !.pc = "getpub"]
               ELSE IF proc.next \in marks THEN [proc EXCEPT !.next = @ + 1]
               ELSE [proc EXCEPT !.pc = "apply"]
    /\ UNCHANGED <<schema, marks, settings, tx, drawn, crashes>>

(* Mutation: runs the file on the connection instead of in the transaction. *)
Apply_Autocommit ==
    /\ proc.pc = "apply"
    /\ IF proc.next \in schema
       THEN proc' = Down /\ UNCHANGED schema
       ELSE schema' = schema \cup {proc.next} /\ proc' = [proc EXCEPT !.pc = "mark"]
    /\ UNCHANGED <<marks, settings, tx, drawn, crashes>>

(* The file creates tables; where they exist it fails, and run exits. *)
Apply ==
    /\ proc.pc = "apply"
    /\ IF proc.next \in schema
       THEN proc' = Down /\ UNCHANGED tx
       ELSE tx' = [tx EXCEPT !.schema = {proc.next}] /\ proc' = [proc EXCEPT !.pc = "mark"]
    /\ UNCHANGED <<schema, marks, settings, drawn, crashes>>

Mark ==
    /\ proc.pc = "mark"
    /\ tx' = [tx EXCEPT !.marks = {proc.next}]
    /\ proc' = [proc EXCEPT !.pc = "commit"]
    /\ UNCHANGED <<schema, marks, settings, drawn, crashes>>

Commit ==
    /\ proc.pc = "commit"
    /\ schema' = schema \cup tx.schema
    /\ marks' = marks \cup tx.marks
    /\ tx' = NoTx
    /\ proc' = [proc EXCEPT !.pc = "check", !.next = @ + 1]
    /\ UNCHANGED <<settings, drawn, crashes>>

-----------------------------------------------------------------------------
(* EnsureVAPIDKeys, with no keys in the environment. *)

(* The public half decides whether there is a pair. *)
GetPublic ==
    /\ proc.pc = "getpub"
    /\ proc' = IF settings.pub = NoKey THEN [proc EXCEPT !.pc = "setpub"]
               ELSE [proc EXCEPT !.pc = "getpriv", !.pub = settings.pub]
    /\ UNCHANGED <<schema, marks, settings, tx, drawn, crashes>>

(* Whether the private half was there is ignored. *)
GetPrivate ==
    /\ proc.pc = "getpriv"
    /\ proc' = [proc EXCEPT !.pc = "up", !.priv = settings.priv]
    /\ UNCHANGED <<schema, marks, settings, tx, drawn, crashes>>

(* Mutation: draws a pair and does not store its public half. *)
SetPublic_Forgotten ==
    /\ proc.pc = "setpub"
    /\ \E k \in KeyPairs \ drawn :
          /\ drawn' = drawn \cup {k}
          /\ proc' = [proc EXCEPT !.pc = "setpriv", !.pub = k, !.priv = k]
    /\ UNCHANGED <<schema, marks, settings, tx, crashes>>

(* GenerateVAPIDKeys, then SetSetting of the public half. *)
SetPublic ==
    /\ proc.pc = "setpub"
    /\ \E k \in KeyPairs \ drawn :
          /\ drawn' = drawn \cup {k}
          /\ settings' = [settings EXCEPT !.pub = k]
          /\ proc' = [proc EXCEPT !.pc = "setpriv", !.pub = k, !.priv = k]
    /\ UNCHANGED <<schema, marks, tx, crashes>>

SetPrivate ==
    /\ proc.pc = "setpriv"
    /\ settings' = [settings EXCEPT !.priv = proc.priv]
    /\ proc' = [proc EXCEPT !.pc = "up"]
    /\ UNCHANGED <<schema, marks, tx, drawn, crashes>>

(* A statement that fails makes run exit; so does a signal or a kill.  An    *)
(* open transaction is rolled back.                                          *)
Crash ==
    /\ proc.pc # "down"
    /\ crashes < MaxCrashes
    /\ crashes' = crashes + 1
    /\ proc' = Down
    /\ tx' = NoTx
    /\ UNCHANGED <<schema, marks, settings, drawn>>

-----------------------------------------------------------------------------
BootStep ==
    \/ Start
    \/ CheckMark
    \/ Apply
    \/ Mark
    \/ Commit
    \/ GetPublic
    \/ GetPrivate
    \/ SetPublic
    \/ SetPrivate

BootInit ==
    /\ schema = {}
    /\ marks = {}
    /\ settings = [pub |-> NoKey, priv |-> NoKey]
    /\ tx = NoTx
    /\ proc = Down
    /\ drawn = {}
    /\ crashes = 0

BootTypeOK ==
    /\ schema \subseteq Migrations
    /\ marks \subseteq Migrations
    /\ settings \in [pub : Key, priv : Key]
    /\ tx \in [schema : SUBSET Migrations, marks : SUBSET Migrations]
    /\ proc \in [pc   : {"down", "check", "apply", "mark", "commit", "getpub", "getpriv",
                         "setpub", "setpriv", "up"},
                 next : 1..(MigrationCount + 1), pub : Key, priv : Key]
    /\ drawn \subseteq KeyPairs
    /\ crashes \in 0..MaxCrashes
=============================================================================
