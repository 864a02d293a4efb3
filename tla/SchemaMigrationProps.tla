----------------------- MODULE SchemaMigrationProps -----------------------
(***************************************************************************)
(* What ShareDb::init promises for the file share.db.                      *)
(***************************************************************************)
EXTENDS SchemaMigration

AllTables == TablesOf(SCHEMA_VERSION)

\* Every variable has its type; only tables that exist have columns.
TypeOK ==
    /\ release \in Releases
    /\ tables \in SUBSET AllTables
    /\ wide \in SUBSET (tables \intersect Versioned)
    /\ version \in (0 .. SCHEMA_VERSION) \union {release}
    /\ phase \in Phases
    /\ step \in Nat
    /\ crashes \in 0 .. MaxCrashes

\* user_version never promises more than the file has, wherever init was cut
\* off: a later launch starts from it and repeats nothing below it.
VersionIsKept == TablesOf(version) \subseteq tables /\ WideOf(version) \subseteq wide

\* An opened database has every table and every column the DAOs use.
OpenIsComplete ==
    phase = "open" => version = SCHEMA_VERSION /\ tables = AllTables /\ wide = Versioned

\* init fails only on files older than v4, on a file whose migration from v4 was
\* cut off and on a file of a newer program, which it leaves at its version: all
\* others it brings to the current version.
FailsOnlyWhereKnown ==
    phase = "failed" => \/ release < 4
                        \/ release = 4 /\ crashes > 0
                        \/ release > SCHEMA_VERSION /\ version = release

\* Unkept: init creates the tables and runs the migrations.
InitSucceeds == phase # "failed"
=============================================================================
