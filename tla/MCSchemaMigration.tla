------------------------- MODULE MCSchemaMigration -------------------------
(* Small instances of ShareDb::init for TLC. *)
EXTENDS SchemaMigrationProps

AllReleases == 0 .. SCHEMA_VERSION + 1
NoFile == {0}
=============================================================================
