----------------------------- MODULE Migrations -----------------------------
(***************************************************************************)
(* Opening the database: every process that opens it reads the recorded    *)
(* version once and then runs the migrations it believes are missing, each *)
(* in a transaction of its own that also records the version.              *)
(*                                                                         *)
(* What a migration has made of the schema is the set of migrations whose  *)
(* tables and columns are there.  A migration raises when it adds a column *)
(* that is there or reads one that is not.  Of the rows, db has those of   *)
(* tasks, of the table it is rebuilt into, and of executions, with the     *)
(* foreign key between them; events, messages and input requests go with   *)
(* their execution.  Init, Next and the rest are named after the module,   *)
(* for the proofs that extend it beside another component.                 *)
(***************************************************************************)
EXTENDS Naturals

CONSTANTS Procs,        \* server, CLI commands, stdio MCP servers
          TaskIds, ExecutionIds,
          NULL          \* there is no such execution

ASSUME NullAssumption == NULL \notin TaskIds

VARIABLES
  version,     \* settings.schema_version; 0 when there is none
  schema,      \* migrations whose effect on the schema is there
  db,          \* the rows: tasks, tasks_v3, and the task of each execution
  pc,          \* per process: closed, migrating, open
  todo,        \* the migration it runs next
  misled       \* history: two processes have been migrating at the same time,
               \*   or one could not read the version

migrationsVars == <<version, schema, db, pc, todo, misled>>

Latest == 5

(***************************************************************************)
(* The statements of each migration.  needs: whose columns it reads; once: *)
(* it adds a column, which raises when the column is there.  1 and 4 only  *)
(* create what does not exist.  3 reads tasks.execution_type, which it has *)
(* then dropped.                                                           *)
(***************************************************************************)
Up == << [needs |-> {},  once |-> FALSE],
         [needs |-> {1}, once |-> TRUE],   \* executions.thread_id
         [needs |-> {1}, once |-> TRUE],   \* execution_type becomes sandbox_type
         [needs |-> {},  once |-> FALSE],
         [needs |-> {2}, once |-> TRUE] >> \* tasks.target_thread_id

\* Mutation of Fits: the copy of migration 3 does not read the old column.
FitsTwice(n) == Up[n].needs \subseteq schema /\ (n # 3 /\ Up[n].once => n \notin schema)

Fits(n) == Up[n].needs \subseteq schema /\ (Up[n].once => n \notin schema)

(***************************************************************************)
(* The rows.  Foreign keys are on, so deleting tasks deletes the           *)
(* executions that refer to them, and DROP TABLE deletes every row first.  *)
(***************************************************************************)
DeleteTasks(d, gone) ==
  [d EXCEPT !.tasks = @ \ gone,
            !.taskOf = [e \in ExecutionIds |-> IF d.taskOf[e] \in gone THEN NULL ELSE d.taskOf[e]]]

CopyTasks(d) == [d EXCEPT !.tasks_v3 = d.tasks]
DropTasks(d) == DeleteTasks(d, d.tasks)
RenameCopy(d) == [d EXCEPT !.tasks = d.tasks_v3, !.tasks_v3 = {}]

\* Migration 3 builds the table anew.
Rebuilt(d) == RenameCopy(DropTasks(CopyTasks(d)))

Rows(n) == IF n = 3 THEN Rebuilt(db) ELSE db

Migrating == {p \in Procs : pc[p] = "migrating"}

\* Mutation of Open: the version is taken one too high.
OpenAhead(p) ==
  /\ pc[p] = "closed"
  /\ pc' = [pc EXCEPT ![p] = "migrating"]
  /\ todo' = [todo EXCEPT ![p] = version + 2]
  /\ misled' = (misled \/ Migrating # {})
  /\ UNCHANGED <<version, schema, db>>

Open(p) ==
  /\ pc[p] = "closed"
  /\ pc' = [pc EXCEPT ![p] = "migrating"]
  /\ todo' = [todo EXCEPT ![p] = version + 1]
  /\ misled' = (misled \/ Migrating # {})
  /\ UNCHANGED <<version, schema, db>>

\* currentVersion() takes every error for a new database.
OpenUnread(p) ==
  /\ pc[p] = "closed"
  /\ pc' = [pc EXCEPT ![p] = "migrating"]
  /\ todo' = [todo EXCEPT ![p] = 1]
  /\ misled' = (misled \/ Migrating # {} \/ version # 0)
  /\ UNCHANGED <<version, schema, db>>

\* Mutation of Migrate: the version is recorded, and the statements fail later.
MigrateUnrolled(p) ==
  /\ pc[p] = "migrating" /\ todo[p] <= Latest
  /\ Fits(todo[p])
  /\ version' = todo[p]
  /\ todo' = [todo EXCEPT ![p] = @ + 1]
  /\ \/ schema' = schema \cup {todo[p]} /\ db' = Rows(todo[p])
     \/ UNCHANGED <<schema, db>>
  /\ UNCHANGED <<pc, misled>>

Migrate(p) ==
  /\ pc[p] = "migrating" /\ todo[p] <= Latest
  /\ Fits(todo[p])
  /\ schema' = schema \cup {todo[p]} /\ db' = Rows(todo[p])
  /\ version' = todo[p]
  /\ todo' = [todo EXCEPT ![p] = @ + 1]
  /\ UNCHANGED <<pc, misled>>

\* The statements raise, or the database is busy: rolled back, and the
\* process ends.
MigrationRaises(p) ==
  /\ pc[p] = "migrating" /\ todo[p] <= Latest
  /\ ~Fits(todo[p]) \/ (\E q \in Procs \ {p} : pc[q] # "closed")
  /\ pc' = [pc EXCEPT ![p] = "closed"]
  /\ UNCHANGED <<version, schema, db, todo, misled>>

Opened(p) ==
  /\ pc[p] = "migrating" /\ todo[p] > Latest
  /\ pc' = [pc EXCEPT ![p] = "open"]
  /\ UNCHANGED <<version, schema, db, todo, misled>>

\* The end of a process, killed or not, at any point between transactions.
Exit(p) ==
  /\ pc[p] # "closed"
  /\ pc' = [pc EXCEPT ![p] = "closed"]
  /\ UNCHANGED <<version, schema, db, todo, misled>>

\* createTask, createExecution, deleteTask
Work(p) ==
  /\ pc[p] = "open"
  /\ \E t \in TaskIds :
       \/ db' = [db EXCEPT !.tasks = @ \cup {t}]
       \/ /\ t \in db.tasks
          /\ \E e \in ExecutionIds : /\ db.taskOf[e] = NULL
                                     /\ db' = [db EXCEPT !.taskOf[e] = t]
       \/ db' = DeleteTasks(db, {t})
  /\ UNCHANGED <<version, schema, pc, todo, misled>>

\* The rows an older release, or this one, may have left.
Databases == {d \in [tasks: SUBSET TaskIds, tasks_v3: {{}}, taskOf: [ExecutionIds -> TaskIds \cup {NULL}]] :
                \A e \in ExecutionIds : d.taskOf[e] \in d.tasks \cup {NULL}}

MigrationsInit ==  \* a new file, or one a release with an older list has left
  /\ version \in 0 .. Latest /\ schema = 1 .. version
  /\ db \in Databases /\ (version = 0 => db.tasks = {})
  /\ pc = [p \in Procs |-> "closed"]
  /\ todo = [p \in Procs |-> 0]
  /\ misled = FALSE

Starts(p) == Open(p) \/ OpenUnread(p) \/ Migrate(p) \/ MigrationRaises(p) \/ Opened(p)
MigrationsNext == \E p \in Procs : Starts(p) \/ Exit(p) \/ Work(p)

MigrationsSpec == MigrationsInit /\ [][MigrationsNext]_migrationsVars

-----------------------------------------------------------------------------
MigrationsTypeOK ==
  /\ version \in 0 .. Latest /\ schema \subseteq 1 .. Latest
  /\ db \in Databases
  /\ pc \in [Procs -> {"closed", "migrating", "open"}]
  /\ todo \in [Procs -> 0 .. Latest + 1]
  /\ misled \in BOOLEAN

\* A store that has been opened has the tables and columns its statements
\* name, whatever was killed or raised on the way there, and even when a
\* process could not read the version and took the database for a new one.
OpenIsCurrent == \A p \in Procs : pc[p] = "open" => schema = 1 .. Latest

\* migrations.ts:5-6 and 334-336: migrations "run once in order", and a
\* failure leaves no partial schema: what is recorded is what is there, so
\* that the next process can go on from it; unless two processes once migrated
\* an old database at the same time, or one could not read its version.
RecordedIsThere == ~misled => schema = 1 .. version

\* Migrations lose no task (migration-3.test.ts:57), and once the table of
\* tasks is rebuilt, no execution: a process that was overtaken, or could not
\* read the version, and rebuilds it again loses no row.  The rebuild itself
\* loses the executions of older databases.
UpgradesKeepRows ==
  [][UNCHANGED todo \/ (db'.tasks = db.tasks /\ (3 \in schema => db' = db))]_migrationsVars
=============================================================================
