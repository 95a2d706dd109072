----------------------------- MODULE Migrations -----------------------------
(***************************************************************************)
(* RunMigrations of                                                        *)
(* src/src/internal/storage/postgresql/migrations/migrations.go: m.Up()    *)
(* brings the schema to the last version, one script at a time.            *)
(*                                                                         *)
(* golang-migrate is external and modelled as this code uses it.  For each *)
(* script it stores the version it is going to and marks it dirty, runs    *)
(* the script, which PostgreSQL does as one transaction, and clears the    *)
(* mark; it refuses to begin with a dirty schema.                          *)
(***************************************************************************)
EXTENDS Integers

CONSTANT LastVersion   \* the number of migrations in the directory: 2

ASSUME VersionAssumption == LastVersion \in Nat

VARIABLES
  schema,   \* in the database: version and dirty, which schema_migrations
            \* records, and the last script that is in effect
  migrate   \* where m.Up() is

migrateVars == <<schema, migrate>>

Schema == [version: 0..LastVersion, dirty: BOOLEAN, applied: 0..LastVersion]
MigratePCs == {"idle", "opening", "choosing", "running", "clearing", "done",
               "failed"}

\* What the database holds before the first start.
MigrateInit ==
  /\ schema = [version |-> 0, dirty |-> FALSE, applied |-> 0]
  /\ migrate = "idle"

\* sql.Open, postgres.WithInstance, NewWithDatabaseInstance, and the look at
\* the recorded version with which Up begins.
Opens ==
  /\ migrate = "opening"
  /\ migrate' = IF schema.dirty THEN "failed" ELSE "choosing"
  /\ UNCHANGED schema

\* The last version has been reached (ErrNoChange if it had been before).
NoChange ==
  /\ migrate = "choosing"
  /\ schema.version = LastVersion
  /\ migrate' = "done"
  /\ UNCHANGED schema

MarksDirty ==
  /\ migrate = "choosing"
  /\ schema.version < LastVersion
  /\ schema' = [schema EXCEPT !.version = schema.version + 1, !.dirty = TRUE]
  /\ migrate' = "running"

RunsScript ==
  /\ migrate = "running"
  /\ schema' = [schema EXCEPT !.applied = schema.version]
  /\ migrate' = "clearing"

ClearsDirty ==
  /\ migrate = "clearing"
  /\ schema' = [schema EXCEPT !.dirty = FALSE]
  /\ migrate' = "choosing"

\* Any of these fails.  When "clearing" does, the script is in effect.
MigrationFails ==
  /\ migrate \in {"opening", "choosing", "running", "clearing"}
  /\ migrate' = "failed"
  /\ UNCHANGED schema

MigrateStep ==
  \/ Opens \/ NoChange \/ MarksDirty \/ RunsScript \/ ClearsDirty
  \/ MigrationFails

\* What the recorded version says is what is there.
Migrated == schema = [version |-> LastVersion, dirty |-> FALSE,
                      applied |-> LastVersion]
=============================================================================
