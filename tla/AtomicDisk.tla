----------------------------- MODULE AtomicDisk -----------------------------
(***************************************************************************)
(* What booting promises about the disk, as if nothing ever cut it short:  *)
(* a migration's tables and its mark appear in one step and in order, a    *)
(* public key is stored once, on a complete schema, and never replaced,    *)
(* and the private half that may follow is its own.                        *)
(***************************************************************************)
EXTENDS Naturals

CONSTANTS MigrationCount, KeyPairs, NoKey

VARIABLES
    tables,     \* migrations whose tables exist
    applied,    \* migrations that are marked
    public,     \* the key pair whose public half is stored
    private     \* the key pair whose private half is stored

diskVars == <<tables, applied, public, private>>

Init ==
    /\ tables = {}
    /\ applied = {}
    /\ public = NoKey
    /\ private = NoKey

Migrate(m) ==
    /\ tables = 1..(m - 1)
    /\ applied = 1..(m - 1)
    /\ tables' = 1..m
    /\ applied' = 1..m
    /\ UNCHANGED <<public, private>>

StorePublic(k) ==
    /\ applied = 1..MigrationCount
    /\ public = NoKey
    /\ public' = k
    /\ UNCHANGED <<tables, applied, private>>

StorePrivate ==
    /\ public # NoKey
    /\ private = NoKey
    /\ private' = public
    /\ UNCHANGED <<tables, applied, public>>

Next ==
    \/ \E m \in 1..MigrationCount : Migrate(m)
    \/ \E k \in KeyPairs : StorePublic(k)
    \/ StorePrivate

Spec == Init /\ [][Next]_diskVars
=============================================================================
