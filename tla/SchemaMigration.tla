-------------------------- MODULE SchemaMigration --------------------------
(***************************************************************************)
(* ShareDb::init on the file share.db: create_tables, then the migrations  *)
(* from the version the file says it has to SCHEMA_VERSION.  Every         *)
(* statement commits by itself, so the program may end between any two and *)
(* the next launch finds what was committed.                               *)
(***************************************************************************)
EXTENDS Naturals, Sequences

CONSTANTS
    Releases,   \* schema versions of the files a launch may find: 0 is no file,
                \* SCHEMA_VERSION + 1 that of a newer program
    MaxCrashes  \* bound: launches that end in the middle of init

SCHEMA_VERSION == 7

ASSUME ConstAssumption ==
    /\ Releases \subseteq 0 .. SCHEMA_VERSION + 1
    /\ MaxCrashes \in Nat

VARIABLES
    release,  \* history: the schema version the file was left with
    tables,   \* tables of the file
    wide,     \* tables that have the column upstream_model
    version,  \* PRAGMA user_version
    phase,    \* where init stands
    step,     \* number of the next statement
    crashes   \* launches that ended in the middle of init

vars == <<release, tables, wide, version, phase, step, crashes>>

Phases == {"closed", "creating", "migrating", "open", "failed"}

\* The tables of create_tables in their order, with the indexes of each.
Created == <<"share_settings", "user_wallet", "p2p_task_log", "share_node_registry",
             "client_config", "system_log", "daily_sync_log">>
Versioned == {"p2p_task_log", "daily_sync_log"}

Create(name) == [kind |-> "create", table |-> name]
AddColumn(name) == [kind |-> "alter", table |-> name]

\* The statements of the migration from v to v + 1.
Migration(v) ==
    CASE v = 0 -> <<>>
      [] v = 1 -> <<Create("client_config")>>
      [] v = 2 -> <<Create("system_log")>>
      [] v = 3 -> <<Create("daily_sync_log")>>
      [] v = 4 -> <<AddColumn("p2p_task_log"), AddColumn("daily_sync_log")>>
      [] v = 5 -> <<Create("p2p_keypair"), Create("p2p_connections"),
                    Create("p2p_session_log")>>
      [] v = 6 -> <<Create("settlement_receipts")>>

\* Tables of version v, and those of them with upstream_model.
BaseTables == {"share_settings", "user_wallet", "p2p_task_log", "share_node_registry"}
TablesOf(v) ==
    (IF v = 0 THEN {} ELSE BaseTables)
    \union (IF v >= 2 THEN {"client_config"} ELSE {})
    \union (IF v >= 3 THEN {"system_log"} ELSE {})
    \union (IF v >= 4 THEN {"daily_sync_log"} ELSE {})
    \union (IF v >= 6 THEN {"p2p_keypair", "p2p_connections", "p2p_session_log"} ELSE {})
    \union (IF v >= 7 THEN {"settlement_receipts"} ELSE {})
WideOf(v) == IF v >= 5 THEN Versioned ELSE {}

----------------------------------------------------------------------------
Open ==
    /\ phase = "closed"
    /\ phase' = "creating"
    /\ step' = 1
    /\ UNCHANGED <<release, tables, wide, version, crashes>>

\* CREATE TABLE IF NOT EXISTS, in its current form.
CreateTable ==
    /\ phase = "creating"
    /\ step <= Len(Created)
    /\ tables' = tables \union {Created[step]}
    /\ wide' = IF Created[step] \in tables THEN wide
               ELSE wide \union ({Created[step]} \intersect Versioned)
    /\ step' = step + 1
    /\ UNCHANGED <<release, version, phase, crashes>>

\* A file of a newer program is refused, after create_tables.
TooNew ==
    /\ phase = "creating"
    /\ step > Len(Created)
    /\ version > SCHEMA_VERSION
    /\ phase' = "failed"
    /\ UNCHANGED <<release, tables, wide, version, step, crashes>>

ReadVersion ==
    /\ phase = "creating"
    /\ step > Len(Created)
    /\ version <= SCHEMA_VERSION
    /\ phase' = "migrating"
    /\ step' = 1
    /\ UNCHANGED <<release, tables, wide, version, crashes>>

\* The statements of a migration are through; a faulty variant misses the last.
StatementsDoneEarly == step + 1 > Len(Migration(version))
StatementsDone == step > Len(Migration(version))

Runs(kind) ==
    /\ phase = "migrating"
    /\ version < SCHEMA_VERSION
    /\ ~StatementsDone
    /\ Migration(version)[step].kind = kind

\* CREATE TABLE IF NOT EXISTS: the migrations know no upstream_model.
MigrateCreate ==
    /\ Runs("create")
    /\ tables' = tables \union {Migration(version)[step].table}
    /\ step' = step + 1
    /\ UNCHANGED <<release, wide, version, phase, crashes>>

MigrateColumn ==
    /\ Runs("alter")
    /\ Migration(version)[step].table \notin wide
    /\ wide' = wide \union {Migration(version)[step].table}
    /\ step' = step + 1
    /\ UNCHANGED <<release, tables, version, phase, crashes>>

\* ALTER TABLE ADD COLUMN has no IF NOT EXISTS: init returns the error and the
\* application does not start.
ColumnExists ==
    /\ Runs("alter")
    /\ Migration(version)[step].table \in wide
    /\ phase' = "failed"
    /\ UNCHANGED <<release, tables, wide, version, step, crashes>>

\* What set_user_version writes, and a faulty variant that writes the old version.
NextVersionSame == version
NextVersion == version + 1

SetVersion ==
    /\ phase = "migrating"
    /\ version < SCHEMA_VERSION
    /\ StatementsDone
    /\ version' = NextVersion
    /\ step' = 1
    /\ UNCHANGED <<release, tables, wide, phase, crashes>>

Opened ==
    /\ phase = "migrating"
    /\ version >= SCHEMA_VERSION
    /\ phase' = "open"
    /\ UNCHANGED <<release, tables, wide, version, step, crashes>>

\* The program ends in the middle of init.
Crash ==
    /\ phase \in {"creating", "migrating"}
    /\ crashes < MaxCrashes
    /\ crashes' = crashes + 1
    /\ phase' = "closed"
    /\ UNCHANGED <<release, tables, wide, version, step>>

\* The program ends after init, to be launched again.
Quit ==
    /\ phase \in {"open", "failed"}
    /\ phase' = "closed"
    /\ UNCHANGED <<release, tables, wide, version, step, crashes>>

----------------------------------------------------------------------------
Init ==
    /\ release \in Releases
    /\ version = release
    /\ tables = TablesOf(release)
    /\ wide = WideOf(release)
    /\ phase = "closed"
    /\ step = 1
    /\ crashes = 0

Migrate == MigrateCreate \/ MigrateColumn \/ ColumnExists \/ SetVersion
Proceed == CreateTable \/ TooNew \/ ReadVersion \/ Migrate \/ Opened
Next == Open \/ Proceed \/ Crash \/ Quit

Spec == Init /\ [][Next]_vars
=============================================================================
