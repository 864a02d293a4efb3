----------------------- MODULE SchemaMigrationProofs -----------------------
(***************************************************************************)
(* Proofs about ShareDb::init, for files of any release and any number of  *)
(* launches that end in the middle.                                        *)
(***************************************************************************)
EXTENDS SchemaMigrationProps, TLAPS

\* What a statement leaves behind.
Done(s) == IF s.kind = "create" THEN s.table \in tables ELSE s.table \in wide

\* How far create_tables and the current migration have come.
ProgressInv ==
    /\ step >= 1
    /\ phase = "creating" =>
        \A i \in 1 .. Len(Created) : i < step => Created[i] \in tables
    /\ phase = "migrating" => BaseTables \subseteq tables /\ version <= SCHEMA_VERSION
    /\ phase = "migrating" /\ version < SCHEMA_VERSION =>
        \A i \in 1 .. Len(Migration(version)) : i < step => Done(Migration(version)[i])
    /\ phase = "open" => version = SCHEMA_VERSION

\* What VersionIsKept rests on: it is not inductive without the progress of the
\* statements that the next version number will stand for.
SchemaInv == TypeOK /\ VersionIsKept /\ ProgressInv

\* The migrations one by one.
LEMMA MigrationValues ==
    /\ Migration(0) = <<>>
    /\ Migration(1) = <<Create("client_config")>>
    /\ Migration(2) = <<Create("system_log")>>
    /\ Migration(3) = <<Create("daily_sync_log")>>
    /\ Migration(4) = <<AddColumn("p2p_task_log"), AddColumn("daily_sync_log")>>
    /\ Migration(5) = <<Create("p2p_keypair"), Create("p2p_connections"),
                        Create("p2p_session_log")>>
    /\ Migration(6) = <<Create("settlement_receipts")>>
  BY DEF Migration

LEMMA MigrationLengths ==
    /\ Len(Migration(0)) = 0
    /\ Len(Migration(1)) = 1
    /\ Len(Migration(2)) = 1
    /\ Len(Migration(3)) = 1
    /\ Len(Migration(4)) = 2
    /\ Len(Migration(5)) = 3
    /\ Len(Migration(6)) = 1
  BY MigrationValues

\* The migrations create tables of the current schema and add columns only
\* between v4 and v5.
LEMMA MigrationShape ==
    ASSUME NEW v \in 0 .. 6
    PROVE  /\ Len(Migration(v)) \in Nat
           /\ \A i \in 1 .. Len(Migration(v)) :
                /\ Migration(v)[i].kind \in {"create", "alter"}
                /\ Migration(v)[i].table \in AllTables
                /\ Migration(v)[i].kind = "alter"
                    => v = 4 /\ Migration(v)[i].table \in Versioned
  <1>1. /\ {"client_config", "system_log", "daily_sync_log", "p2p_keypair",
             "p2p_connections", "p2p_session_log", "settlement_receipts",
             "p2p_task_log"} \subseteq AllTables
        /\ {"p2p_task_log", "daily_sync_log"} = Versioned
    BY DEF AllTables, TablesOf, BaseTables, Versioned, SCHEMA_VERSION
  <1>2. v \in {0, 1, 2, 3, 4, 5, 6}
    OBVIOUS
  <1>3. Len(Migration(v)) \in 0 .. 3
    BY <1>2, MigrationLengths
  <1>4. ASSUME NEW i \in 1 .. Len(Migration(v))
        PROVE  \/ /\ v = 4
                  /\ \E name \in Versioned : Migration(v)[i] = AddColumn(name)
               \/ \E name \in AllTables : Migration(v)[i] = Create(name)
    <2>1. i \in {1, 2, 3}
      <3>1. \A n \in 0 .. 3 : \A k \in 1 .. n : k \in {1, 2, 3}
        OBVIOUS
      <3> QED
        BY <1>3, <3>1
    <2>2. CASE v \in {0, 1, 2, 3}
      BY <1>1, <2>1, <2>2, MigrationValues, MigrationLengths
    <2>3. CASE v = 4
      BY <1>1, <2>1, <2>3, MigrationValues, MigrationLengths
    <2>4. CASE v = 5
      BY <1>1, <2>1, <2>4, MigrationValues, MigrationLengths
    <2>5. CASE v = 6
      BY <1>1, <2>1, <2>5, MigrationValues, MigrationLengths
    <2> QED
      BY <1>2, <2>2, <2>3, <2>4, <2>5
  <1>5. Versioned \subseteq AllTables
    BY <1>1
  <1>6. Len(Migration(v)) \in Nat
    BY <1>3
  <1>7. ASSUME NEW i \in 1 .. Len(Migration(v))
        PROVE  /\ Migration(v)[i].kind \in {"create", "alter"}
               /\ Migration(v)[i].table \in AllTables
               /\ Migration(v)[i].kind = "alter"
                    => v = 4 /\ Migration(v)[i].table \in Versioned
    <2>1. CASE v = 4 /\ \E name \in Versioned : Migration(v)[i] = AddColumn(name)
      <3>1. PICK name \in Versioned : Migration(v)[i] = AddColumn(name)
        BY <2>1
      <3> QED
        <4>1. Migration(v)[i].kind = "alter" /\ Migration(v)[i].table = name
          BY <3>1 DEF AddColumn
        <4>2. name \in AllTables
          BY <1>5
        <4> QED
          BY <2>1, <4>1, <4>2
    <2>2. CASE \E name \in AllTables : Migration(v)[i] = Create(name)
      <3>1. PICK name \in AllTables : Migration(v)[i] = Create(name)
        BY <2>2
      <3> QED
        BY <3>1 DEF Create
    <2> QED
      BY <1>4, <2>1, <2>2
  <1> QED
    BY <1>6, <1>7

\* With the statements of a migration done, the file is of the next version.
LEMMA MigrationSuffices ==
    ASSUME NEW v \in 0 .. 6, BaseTables \subseteq tables,
           TablesOf(v) \subseteq tables, WideOf(v) \subseteq wide,
           \A i \in 1 .. Len(Migration(v)) : Done(Migration(v)[i])
    PROVE  TablesOf(v + 1) \subseteq tables /\ WideOf(v + 1) \subseteq wide
  <1>1. \A name : Done(Create(name)) <=> name \in tables
    BY DEF Done, Create
  <1>2. \A name : Done(AddColumn(name)) <=> name \in wide
    BY DEF Done, AddColumn
  <1> USE DEF TablesOf, WideOf, Versioned
  <1>3. CASE v = 0
    BY <1>3
  <1>4. CASE v = 1
    <2>1. "client_config" \in tables
      BY <1>1, <1>4, MigrationValues, MigrationLengths
    <2> QED
      BY <1>4, <2>1
  <1>5. CASE v = 2
    <2>1. "system_log" \in tables
      BY <1>1, <1>5, MigrationValues, MigrationLengths
    <2> QED
      BY <1>5, <2>1
  <1>6. CASE v = 3
    <2>1. "daily_sync_log" \in tables
      BY <1>1, <1>6, MigrationValues, MigrationLengths
    <2> QED
      BY <1>6, <2>1
  <1>7. CASE v = 4
    <2>1. "p2p_task_log" \in wide /\ "daily_sync_log" \in wide
      BY <1>2, <1>7, MigrationValues, MigrationLengths
    <2> QED
      BY <1>7, <2>1
  <1>8. CASE v = 5
    <2>1. /\ "p2p_keypair" \in tables
          /\ "p2p_connections" \in tables
          /\ "p2p_session_log" \in tables
      BY <1>1, <1>8, MigrationValues, MigrationLengths
    <2> QED
      BY <1>8, <2>1
  <1>9. CASE v = 6
    <2>1. "settlement_receipts" \in tables
      BY <1>1, <1>9, MigrationValues, MigrationLengths
    <2> QED
      BY <1>9, <2>1
  <1> QED
    BY <1>3, <1>4, <1>5, <1>6, <1>7, <1>8, <1>9

LEMMA InitSchemaInv == Init => SchemaInv
  <1> SUFFICES ASSUME Init PROVE SchemaInv
    OBVIOUS
  <1>1. release \in 0 .. 8
    BY ConstAssumption DEF Init, SCHEMA_VERSION
  <1>2. tables \in SUBSET AllTables /\ wide \in SUBSET (tables \intersect Versioned)
    BY <1>1 DEF Init, AllTables, TablesOf, WideOf, BaseTables, Versioned,
                SCHEMA_VERSION
  <1>3. TypeOK
    BY <1>1, <1>2, ConstAssumption DEF Init, TypeOK, Phases, SCHEMA_VERSION
  <1>4. VersionIsKept
    BY DEF Init, VersionIsKept
  <1>5. ProgressInv
    BY DEF Init, ProgressInv
  <1> QED
    BY <1>3, <1>4, <1>5 DEF SchemaInv

\* Statements only add to the file, so what was promised stays.
LEMMA GrowthKeepsVersion ==
    ASSUME VersionIsKept, tables \subseteq tables', wide \subseteq wide',
           version' = version
    PROVE  VersionIsKept'
  BY DEF VersionIsKept

LEMMA CreateTableKeepsInv == ASSUME SchemaInv, CreateTable PROVE SchemaInv'
  <1> USE DEF SchemaInv, CreateTable
  <1>1. Created[step] \in AllTables
    BY DEF TypeOK, ProgressInv, Created, AllTables, TablesOf, BaseTables,
           SCHEMA_VERSION
  <1>2. TypeOK'
    BY <1>1 DEF TypeOK, Phases
  <1>3. VersionIsKept'
    BY GrowthKeepsVersion
  <1>4. ProgressInv'
    BY DEF TypeOK, ProgressInv, Created
  <1> QED
    BY <1>2, <1>3, <1>4

LEMMA ReadVersionKeepsInv == ASSUME SchemaInv, ReadVersion PROVE SchemaInv'
  <1> USE DEF SchemaInv, ReadVersion
  <1>1. TypeOK'
    BY DEF TypeOK, Phases
  <1>2. VersionIsKept'
    BY DEF VersionIsKept
  <1>3. BaseTables \subseteq tables
    <2>1. \A i \in 1 .. 7 : Created[i] \in tables
      BY DEF TypeOK, ProgressInv, Created
    <2>2. Created[1] \in tables /\ Created[2] \in tables
          /\ Created[3] \in tables /\ Created[4] \in tables
      BY <2>1
    <2> QED
      BY <2>2 DEF Created, BaseTables
  <1>4. ProgressInv'
    <2>1. \A i \in 1 .. Len(Migration(version)) : ~(i < 1)
      <3>1. CASE version < SCHEMA_VERSION
        BY <3>1
      <3>2. CASE ~(version < SCHEMA_VERSION)
        OBVIOUS
      <3> QED
        BY <3>1, <3>2
    <2> QED
      BY <1>3, <2>1 DEF ProgressInv
  <1> QED
    BY <1>1, <1>2, <1>4

LEMMA MigrateKeepsInv ==
    ASSUME SchemaInv, MigrateCreate \/ MigrateColumn
    PROVE  SchemaInv'
  <1> DEFINE s == Migration(version)[step]
  <1>1. /\ phase = "migrating" /\ phase' = phase
        /\ version \in 0 .. 6 /\ version' = version
        /\ step \in 1 .. Len(Migration(version)) /\ step' = step + 1
        /\ UNCHANGED <<release, crashes>>
    <2>1. /\ phase = "migrating" /\ phase' = phase
          /\ version \in 0 .. 6 /\ version' = version
          /\ step \in Nat /\ step >= 1 /\ step' = step + 1
          /\ ~(step > Len(Migration(version)))
          /\ UNCHANGED <<release, crashes>>
      <3>1. version \in 0 .. 8 /\ step \in Nat /\ step >= 1
        BY ConstAssumption DEF SchemaInv, TypeOK, ProgressInv, SCHEMA_VERSION
      <3>2. /\ phase = "migrating" /\ phase' = phase
            /\ version < 7 /\ version' = version
            /\ step' = step + 1
            /\ ~(step > Len(Migration(version)))
            /\ UNCHANGED <<release, crashes>>
        BY DEF MigrateCreate, MigrateColumn, Runs, StatementsDone, SCHEMA_VERSION
      <3> QED
        BY <3>1, <3>2
    <2>2. Len(Migration(version)) \in Nat
      BY <2>1, MigrationShape
    <2> QED
      BY <2>1, <2>2
  <1>2. /\ s.kind \in {"create", "alter"}
        /\ s.table \in AllTables
        /\ s.kind = "alter" => version = 4 /\ s.table \in Versioned
    BY <1>1, MigrationShape
  <1>3. \/ s.kind = "create" /\ tables' = tables \union {s.table} /\ wide' = wide
        \/ s.kind = "alter" /\ wide' = wide \union {s.table} /\ tables' = tables
    BY DEF MigrateCreate, MigrateColumn, Runs
  <1> HIDE DEF s
  <1>4. Versioned \subseteq tables \/ s.kind = "create"
    <2>1. TablesOf(version) \subseteq tables
      BY DEF SchemaInv, VersionIsKept
    <2>2. Versioned \subseteq TablesOf(4)
      BY DEF TablesOf, BaseTables, Versioned
    <2> QED
      BY <1>2, <2>1, <2>2
  <1>5. TypeOK'
    <2>1. tables' \in SUBSET AllTables
      BY <1>2, <1>3 DEF SchemaInv, TypeOK
    <2>2. wide' \in SUBSET (tables' \intersect Versioned)
      <3>1. wide \subseteq tables /\ wide \subseteq Versioned
        BY DEF SchemaInv, TypeOK
      <3>2. CASE s.kind = "create"
        BY <1>3, <3>1, <3>2
      <3>3. CASE s.kind = "alter"
        BY <1>2, <1>3, <1>4, <3>1, <3>3
      <3> QED
        BY <1>2, <3>2, <3>3
    <2>3. step' \in Nat
      BY <1>1 DEF SchemaInv, TypeOK
    <2> QED
      BY <1>1, <2>1, <2>2, <2>3 DEF SchemaInv, TypeOK
  <1>6. VersionIsKept'
    BY <1>1, <1>3, GrowthKeepsVersion DEF SchemaInv
  <1>7. \A i \in 1 .. Len(Migration(version)) :
            i < step + 1 => Done(Migration(version)[i])'
    <2> SUFFICES ASSUME NEW i \in 1 .. Len(Migration(version)), i < step + 1
                 PROVE  Done(Migration(version)[i])'
      OBVIOUS
    <2>1. CASE i < step
      <3>1. Done(Migration(version)[i])
        BY <1>1, <2>1 DEF SchemaInv, ProgressInv, SCHEMA_VERSION
      <3> QED
        BY <1>1, <1>3, <3>1 DEF Done
    <2>2. CASE i = step
      BY <1>1, <1>2, <1>3, <2>2 DEF Done, s
    <2> QED
      BY <1>1, <2>1, <2>2
  <1>8. ProgressInv'
    <2>1. step' >= 1
      BY <1>1 DEF SchemaInv, TypeOK
    <2>2. BaseTables \subseteq tables' /\ version' <= SCHEMA_VERSION
      BY <1>1, <1>3 DEF SchemaInv, ProgressInv
    <2> QED
      BY <1>1, <1>7, <2>1, <2>2 DEF ProgressInv
  <1> QED
    BY <1>5, <1>6, <1>8 DEF SchemaInv

LEMMA SetVersionKeepsInv == ASSUME SchemaInv, SetVersion PROVE SchemaInv'
  <1>1. /\ phase = "migrating" /\ phase' = phase
        /\ version \in 0 .. 6 /\ version' = version + 1
        /\ step > Len(Migration(version)) /\ step' = 1
        /\ UNCHANGED <<release, tables, wide, crashes>>
    BY ConstAssumption DEF SetVersion, StatementsDone, NextVersion, SchemaInv, TypeOK, SCHEMA_VERSION
  <1>2. \A i \in 1 .. Len(Migration(version)) : Done(Migration(version)[i])
    <2>1. Len(Migration(version)) \in Nat /\ step \in Nat
      BY <1>1, MigrationShape DEF SchemaInv, TypeOK
    <2>2. \A i \in 1 .. Len(Migration(version)) : i < step
      BY <1>1, <2>1
    <2> QED
      BY <1>1, <2>2 DEF SchemaInv, ProgressInv, SCHEMA_VERSION
  <1>3. VersionIsKept'
    BY <1>1, <1>2, MigrationSuffices DEF SchemaInv, ProgressInv, VersionIsKept
  <1>4. TypeOK'
    BY <1>1 DEF SchemaInv, TypeOK, SCHEMA_VERSION
  <1>5. \A i \in 1 .. Len(Migration(version')) : ~(i < step')
    BY <1>1
  <1>6. ProgressInv'
    <2>1. version' <= SCHEMA_VERSION /\ step' >= 1
      BY <1>1 DEF SCHEMA_VERSION
    <2>2. BaseTables \subseteq tables'
      BY <1>1 DEF SchemaInv, ProgressInv
    <2> QED
      BY <1>1, <1>5, <2>1, <2>2 DEF ProgressInv
  <1> QED
    BY <1>3, <1>4, <1>6 DEF SchemaInv

LEMMA PhaseKeepsInv ==
    ASSUME SchemaInv,
           Open \/ TooNew \/ Opened \/ ColumnExists \/ Crash \/ Quit \/ UNCHANGED vars
    PROVE  SchemaInv'
  <1>1. UNCHANGED <<release, tables, wide, version>>
    BY DEF Open, TooNew, Opened, ColumnExists, Crash, Quit, vars
  <1>2. TypeOK'
    <2>1. /\ phase' \in Phases
          /\ step' \in Nat
          /\ crashes' \in 0 .. MaxCrashes
      <3>1. crashes \in 0 .. MaxCrashes /\ step \in Nat /\ phase \in Phases
        BY DEF SchemaInv, TypeOK
      <3>2. CASE Crash
        <4>1. MaxCrashes \in Nat
          BY ConstAssumption
        <4> QED
          BY <3>1, <3>2, <4>1 DEF Crash, Phases
      <3>3. CASE Open \/ TooNew \/ Opened \/ ColumnExists \/ Quit
        <4>1. phase' \in Phases
          BY <3>3 DEF Open, TooNew, Opened, ColumnExists, Quit, Phases
        <4>2. crashes' = crashes
          BY <3>3 DEF Open, TooNew, Opened, ColumnExists, Quit
        <4>3. step' = step \/ step' = 1
          BY <3>3 DEF Open, TooNew, Opened, ColumnExists, Quit
        <4> QED
          BY <3>1, <4>1, <4>2, <4>3
      <3>4. CASE UNCHANGED vars
        BY <3>1, <3>4 DEF vars
      <3> QED
        BY <3>2, <3>3, <3>4
    <2> QED
      BY <1>1, <2>1 DEF SchemaInv, TypeOK
  <1>3. VersionIsKept'
    BY <1>1 DEF SchemaInv, VersionIsKept
  <1>4. CASE Open
    <2>1. \A i \in 1 .. Len(Created) : ~(i < 1)
      OBVIOUS
    <2> QED
      BY <1>1, <1>2, <1>3, <1>4, <2>1 DEF Open, SchemaInv, ProgressInv
  <1>5. CASE Opened
    BY <1>1, <1>2, <1>3, <1>5 DEF Opened, SchemaInv, ProgressInv, TypeOK, SCHEMA_VERSION
  <1>6. CASE TooNew \/ ColumnExists \/ Crash \/ Quit
    BY <1>1, <1>2, <1>3, <1>6 DEF TooNew, ColumnExists, Crash, Quit, SchemaInv, ProgressInv
  <1>7. CASE UNCHANGED vars
    <2>1. ProgressInv'
      BY <1>1, <1>7 DEF SchemaInv, ProgressInv, Done, vars
    <2> QED
      BY <1>2, <1>3, <2>1 DEF SchemaInv
  <1> QED
    BY <1>4, <1>5, <1>6, <1>7

LEMMA NextSchemaInv == SchemaInv /\ [Next]_vars => SchemaInv'
  BY CreateTableKeepsInv, ReadVersionKeepsInv, MigrateKeepsInv,
     SetVersionKeepsInv, PhaseKeepsInv
     DEF Next, Proceed, Migrate

\* The file, its version and the place in the migrations keep their types (ShareDb::init).
THEOREM TypeCorrect == Spec => []TypeOK
  <1>1. SchemaInv => TypeOK
    BY DEF SchemaInv
  <1> QED
    BY <1>1, InitSchemaInv, NextSchemaInv, PTL DEF Spec

\* The version number never promises more than the file has
\* (apply_migrations, set_user_version).
THEOREM VersionKept == Spec => []VersionIsKept
  <1>1. SchemaInv => VersionIsKept
    BY DEF SchemaInv
  <1> QED
    BY <1>1, InitSchemaInv, NextSchemaInv, PTL DEF Spec

\* An opened database is complete (ShareDb::init).
THEOREM OpenComplete == Spec => []OpenIsComplete
  <1>1. SchemaInv => OpenIsComplete
    <2> SUFFICES ASSUME SchemaInv, phase = "open"
                 PROVE  version = SCHEMA_VERSION /\ tables = AllTables /\ wide = Versioned
      BY DEF OpenIsComplete
    <2>1. version = SCHEMA_VERSION
      BY DEF SchemaInv, ProgressInv
    <2> QED
      BY <2>1 DEF SchemaInv, TypeOK, VersionIsKept, AllTables, WideOf, SCHEMA_VERSION
  <1> QED
    BY <1>1, InitSchemaInv, NextSchemaInv, PTL DEF Spec

----------------------------------------------------------------------------
(* Which files init fails on.                                              *)

\* The version only grows; a launch that was never cut off finds a file of v4 with
\* the columns of the statements it has run itself, and no others.
KnownInv ==
    /\ release <= version
    /\ release = 4 /\ crashes = 0 /\ version = 4 =>
        /\ phase \in {"closed", "creating"} => wide = {}
        /\ phase = "migrating" =>
            \A i \in 1 .. 2 : i >= step => Migration(4)[i].table \notin wide
    /\ FailsOnlyWhereKnown

\* The two columns that the migration from v4 adds.
LEMMA ColumnsOfV4 ==
    /\ Len(Migration(4)) = 2
    /\ Migration(4)[1].table = "p2p_task_log" /\ Migration(4)[2].table = "daily_sync_log"
    /\ Migration(4)[1].kind = "alter" /\ Migration(4)[2].kind = "alter"
  BY MigrationValues, MigrationLengths DEF AddColumn

LEMMA InitKnownInv == ASSUME Init PROVE KnownInv
  <1>1. release <= version
    BY ConstAssumption DEF Init, SCHEMA_VERSION
  <1>2. release = 4 => wide = {}
    BY DEF Init, WideOf
  <1> QED
    BY <1>1, <1>2 DEF Init, KnownInv, FailsOnlyWhereKnown

LEMMA NextKnownInv == ASSUME SchemaInv, KnownInv, [Next]_vars PROVE KnownInv'
  <1>1. /\ release \in 0 .. 8 /\ crashes \in Nat /\ step \in Nat
        /\ version \in (0 .. 7) \union {release}
        /\ release <= version
    BY ConstAssumption DEF SchemaInv, TypeOK, KnownInv, SCHEMA_VERSION
  <1>2. CASE Open \/ Opened \/ Quit \/ UNCHANGED vars
    BY <1>2 DEF Open, Opened, Quit, vars, KnownInv, FailsOnlyWhereKnown, SchemaInv, ProgressInv, SCHEMA_VERSION
  <1>3. CASE Crash
    BY <1>1, <1>3 DEF Crash, KnownInv, FailsOnlyWhereKnown
  <1>4. CASE TooNew
    BY <1>1, <1>4 DEF TooNew, KnownInv, FailsOnlyWhereKnown, SCHEMA_VERSION
  <1>5. CASE CreateTable
    <2>1. UNCHANGED <<release, version, phase, crashes>> /\ phase = "creating"
      BY <1>5 DEF CreateTable
    <2>2. ASSUME version = 4 PROVE wide' = wide
      <3>1. Versioned \subseteq tables
        BY <2>2 DEF SchemaInv, VersionIsKept, TablesOf, BaseTables, Versioned
      <3> QED
        BY <1>5, <3>1 DEF CreateTable
    <2> QED
      BY <2>1, <2>2 DEF KnownInv, FailsOnlyWhereKnown
  <1>6. CASE ReadVersion
    BY <1>1, <1>6, ColumnsOfV4 DEF ReadVersion, KnownInv, FailsOnlyWhereKnown
  <1>7. CASE MigrateCreate
    <2>1. /\ UNCHANGED <<release, version, phase, crashes, wide>> /\ phase = "migrating"
          /\ step' = step + 1
      BY <1>7 DEF MigrateCreate, Runs
    <2> QED
      BY <1>1, <2>1 DEF KnownInv, FailsOnlyWhereKnown
  <1>8. CASE MigrateColumn
    <2>1. /\ UNCHANGED <<release, version, phase, crashes>> /\ phase = "migrating"
          /\ step' = step + 1 /\ wide' = wide \union {Migration(version)[step].table}
          /\ ~(step > Len(Migration(version))) /\ step >= 1
      BY <1>8 DEF MigrateColumn, Runs, StatementsDone, SchemaInv, ProgressInv
    <2>2. ASSUME release = 4, crashes = 0, version = 4, NEW i \in 1 .. 2, i >= step'
          PROVE  Migration(4)[i].table \notin wide'
      <3>1. step = 1 /\ i = 2
        BY <1>1, <2>1, <2>2
      <3> QED
        BY <2>1, <2>2, <3>1, ColumnsOfV4 DEF KnownInv
    <2> QED
      BY <2>1, <2>2 DEF KnownInv, FailsOnlyWhereKnown
  <1>9. CASE ColumnExists
    <2>1. /\ UNCHANGED <<release, tables, wide, version, step, crashes>>
          /\ phase = "migrating" /\ phase' = "failed" /\ version < SCHEMA_VERSION
          /\ ~(step > Len(Migration(version))) /\ step >= 1
          /\ Migration(version)[step].kind = "alter" /\ Migration(version)[step].table \in wide
      BY <1>9 DEF ColumnExists, Runs, StatementsDone, SchemaInv, ProgressInv
    <2>2. version \in 0 .. 6
      BY <1>1, <2>1 DEF SCHEMA_VERSION
    <2>3. step \in 1 .. Len(Migration(version))
      BY <1>1, <2>1, <2>2, MigrationShape
    <2>4. version = 4
      BY <2>1, <2>2, <2>3, MigrationShape
    <2>5. ~(release = 4 /\ crashes = 0)
      BY <1>1, <2>1, <2>3, <2>4, ColumnsOfV4 DEF KnownInv
    <2> QED
      BY <1>1, <2>1, <2>4, <2>5 DEF KnownInv, FailsOnlyWhereKnown
  <1>10. CASE SetVersion
    <2>1. /\ UNCHANGED <<release, crashes, wide>> /\ phase = "migrating" /\ phase' = phase
          /\ version' = version + 1
      BY <1>10 DEF SetVersion, NextVersion
    <2>2. release <= version'
      BY <1>1, <2>1
    <2>3. release = 4 => version' # 4
      BY <1>1, <2>1
    <2> QED
      BY <2>1, <2>2, <2>3 DEF KnownInv, FailsOnlyWhereKnown
  <1> QED
    BY <1>2, <1>3, <1>4, <1>5, <1>6, <1>7, <1>8, <1>9, <1>10 DEF Next, Proceed, Migrate

\* init fails on no other files than those it is known to fail on (apply_migrations).
THEOREM FailsOnlyOnKnown == Spec => []FailsOnlyWhereKnown
  <1>1. KnownInv => FailsOnlyWhereKnown
    BY DEF KnownInv
  <1> QED
    BY <1>1, InitSchemaInv, NextSchemaInv, InitKnownInv, NextKnownInv, PTL DEF Spec
=============================================================================
