-------------------------- MODULE StoreMigrations --------------------------
(***************************************************************************)
(* _init_db of storage.py: every SqliteEventStore that is constructed      *)
(* looks at the database, migrates it where it must and audits it.  Each   *)
(* SELECT is a transaction of its own; a migration and its row in          *)
(* schema_migrations are one, which BEGIN IMMEDIATE starts after the row   *)
(* was found missing.  Threads that open one database do so beside each    *)
(* other.  What the audit reads is in StartupAudit; here it passes.        *)
(***************************************************************************)
EXTENDS Naturals

CONSTANTS
  Threads,    \* threads of the server, each opening the store for a request
  NoThread

ASSUME MigrationAssumption == NoThread \notin Threads

VARIABLES
  db,         \* the database file
  writer,     \* who holds the transaction BEGIN IMMEDIATE opened
  opening     \* how far the _init_db of each thread is, and its error

store == <<db, writer, opening>>

(* _MIGRATION_DEFINITIONS: the base tables, the columns of V4, the runs,   *)
(* the unique index over project_event_seq.                                *)
Versions == 1..4
UniqueIndex == 4

(* history: the versions in schema_migrations, once it exists; schema: the *)
(* versions whose effect is there; duplicates: events of a project with    *)
(* one project_event_seq.                                                  *)
Database(ledger, history, schema, duplicates) ==
  [ledger |-> ledger, history |-> history, schema |-> schema,
   duplicates |-> duplicates, wal |-> ledger]

NewDatabase == Database(FALSE, {}, {}, FALSE)
(* Of the version before schema_migrations, and of a later version.        *)
LegacyDatabases == {Database(FALSE, {}, {1}, twins) : twins \in BOOLEAN}
LaterDatabase == Database(TRUE, 1..5, Versions, FALSE)

Closed == [step |-> "closed", version |-> 0]
At(o, step) == opening[o].step = step
Goto(o, step) == opening' = [opening EXCEPT ![o].step = step]
Version(o) == opening[o].version

MigrationError == "migration_error"
SqliteError == "sqlite_error"
Errors == {MigrationError, SqliteError}

-----------------------------------------------------------------------------
Open(o) ==
  /\ At(o, "closed")
  /\ opening' = [opening EXCEPT ![o] = [step |-> "connect", version |-> 1]]
  /\ UNCHANGED <<db, writer>>

(* PRAGMA journal_mode = WAL is nothing new to a database in that mode;    *)
(* the connection that changes the mode may lock others out that try to.   *)
Connecting == {p \in Threads : At(p, "connect")}

Connect(o) ==
  /\ At(o, "connect")
  /\ db' = [db EXCEPT !.wal = TRUE]
  /\ \E locked \in SUBSET (IF db.wal THEN {} ELSE Connecting \ {o}) :
       opening' = [p \in Threads |->
         IF p = o THEN [opening[p] EXCEPT !.step = "preflight"]
         ELSE IF p \in locked THEN [opening[p] EXCEPT !.step = SqliteError]
         ELSE opening[p]]
  /\ UNCHANGED writer

(* _preflight_project_event_sequences *)
Preflight(o) ==
  /\ At(o, "preflight")
  /\ Goto(o, IF 1 \in db.schema /\ db.duplicates THEN MigrationError ELSE "ledger")
  /\ UNCHANGED <<db, writer>>

(* _ensure_migration_table: CREATE TABLE IF NOT EXISTS by itself.          *)
EnsureLedger(o) ==
  /\ At(o, "ledger")
  /\ db.ledger \/ writer = NoThread
  /\ db' = [db EXCEPT !.ledger = TRUE]
  /\ Goto(o, "validate")
  /\ UNCHANGED writer

(* _validate_applied_migrations *)
KnownHistory == \E n \in 0..4 : db.history = 1..n
Validate(o) ==
  /\ At(o, "validate")
  /\ Goto(o, IF KnownHistory THEN "look" ELSE MigrationError)
  /\ UNCHANGED <<db, writer>>

(* The SELECT before each migration.                                       *)
Look(o) ==
  /\ At(o, "look")
  /\ IF Version(o) \notin Versions THEN Goto(o, "audit")
     ELSE IF Version(o) \in db.history
          THEN opening' = [opening EXCEPT ![o].version = @ + 1]
          ELSE Goto(o, "begin")
  /\ UNCHANGED <<db, writer>>

Begin(o) ==
  /\ At(o, "begin") /\ writer = NoThread
  /\ writer' = o
  /\ Goto(o, "migrate")
  /\ UNCHANGED db

(* Migrations 1 to 3 do nothing to what is there already, the index cannot *)
(* be created twice; then a row of the same version is in the way.         *)
Applies(v) ==
  /\ v = UniqueIndex => v \notin db.schema /\ ~db.duplicates
  /\ v \notin db.history

Applied(v) == [db EXCEPT !.schema = @ \cup {v}, !.history = @ \cup {v}]

(* A migration's statements commit before its row does.                    *)
MutRolledBack(v) == [db EXCEPT !.schema = @ \cup {v}]

(* A failed migration keeps its transaction.                               *)
MutReleased(o) == IF Applies(Version(o)) THEN NoThread ELSE o

(* What a rollback leaves of the migration.                                *)
RolledBack(v) == db
Released(o) == NoThread

Migrate(o) ==
  /\ At(o, "migrate")
  /\ writer' = Released(o)
  /\ IF Applies(Version(o))
     THEN /\ db' = Applied(Version(o))
          /\ opening' = [opening EXCEPT ![o] =
                           [step |-> "look", version |-> Version(o) + 1]]
     ELSE /\ db' = RolledBack(Version(o))
          /\ Goto(o, SqliteError)

Audit(o) ==
  /\ At(o, "audit")
  /\ Goto(o, "open")
  /\ UNCHANGED <<db, writer>>

(* busy_timeout runs out on a lock another connection holds.               *)
LockExpires(o) ==
  /\ writer # NoThread
  /\ (At(o, "ledger") /\ ~db.ledger) \/ At(o, "begin")
  /\ Goto(o, SqliteError)
  /\ UNCHANGED <<db, writer>>

OpeningStep(o) ==
  \/ Connect(o) \/ Preflight(o) \/ EnsureLedger(o) \/ Validate(o)
  \/ Look(o) \/ Begin(o) \/ Migrate(o) \/ Audit(o) \/ LockExpires(o)

(* The process ends: a transaction under way is rolled back.               *)
StopOpening ==
  /\ opening' = [o \in Threads |-> Closed]
  /\ writer' = NoThread
  /\ db' = IF writer = NoThread THEN db ELSE RolledBack(Version(writer))

StoreInit(databases) ==
  /\ db \in databases
  /\ writer = NoThread
  /\ opening = [o \in Threads |-> Closed]
=============================================================================
