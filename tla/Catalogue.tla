------------------------------ MODULE Catalogue ------------------------------
(***************************************************************************)
(* What users define and what is shown to them: tasks, projects, threads   *)
(* and the messages in them (store/src/sqlite-store.ts), written by the    *)
(* HTTP routes, the command line, the tools of a chat and the editor of    *)
(* the web page, and read by the cron scheduler and by the routing of      *)
(* outputs.  Several processes share the database: every action is one     *)
(* synchronous piece of one of them, and the routing of an output, which   *)
(* spans three statements, is three actions.                               *)
(*                                                                         *)
(* Names, prompts and titles are left out: a refused duplicate is a step   *)
(* that does nothing.  timeout is timeoutMs; maxRetries takes the same ways *)
(* and is clamped in the same places.  The numbers of agentConfig are left *)
(* out: those of a template are copied as they are.  cron is whether a     *)
(* schedule is set.                                                        *)
(***************************************************************************)
EXTENDS Naturals

CONSTANTS Tasks, Executions, Threads, Projects,
          MAIN_THREAD_ID,     \* the thread migration 5 seeds
          None,               \* NULL
          Free, Deleted,      \* an id not used yet, an id used and deleted
          MIN_TIMEOUT_MS, MAX_TIMEOUT_MS, DefaultTimeout,
          TimeoutInputs       \* numbers a caller may send

ASSUME LimitsAssumption ==
  /\ MIN_TIMEOUT_MS \in Nat /\ MAX_TIMEOUT_MS \in Nat /\ TimeoutInputs \subseteq Nat
  /\ DefaultTimeout \in MIN_TIMEOUT_MS..MAX_TIMEOUT_MS
ASSUME MainAssumption == MAIN_THREAD_ID \in Threads

VARIABLES
  tasks,      \* task -> row, Free or Deleted
  threads,    \* thread -> "free", "live" or "gone"
  projects,   \* project -> "free", "live" or "gone"
  executions, \* execution -> row, Free or Deleted
  notes,      \* the summaries in thread_messages: <<execution, thread>>
  routing,    \* execution -> where its output is being routed, or None
  up, jobs,   \* the server's scheduler: running, and the tasks with a cron job
  form        \* the open task editor of the web page, or None

vars == <<tasks, threads, projects, executions, notes, routing, up, jobs, form>>

TaskRows == [enabled: BOOLEAN, cron: BOOLEAN, timeout: Nat,
             project: Projects \cup {None}, thread: Threads \cup {None}]
ExecutionRows == [task: Tasks, by: {"tick", "submit"}, done: BOOLEAN,
                  thread: Threads \cup {None}]
Routings == [at: {"link", "append"}, to: Threads]

ASSUME MarksAssumption ==
  /\ Free # Deleted /\ None \notin Threads \cup Projects \cup Routings
  /\ \A mark \in {Free, Deleted} : mark \notin TaskRows \cup ExecutionRows

Stored(r) == r \notin {Free, Deleted}
LiveTasks == {t \in Tasks : Stored(tasks[t])}
LiveThreads == {h \in Threads : threads[h] = "live"}
LiveProjects == {p \in Projects : projects[p] = "live"}

Init ==
  /\ tasks = [t \in Tasks |-> Free]
  /\ threads = [h \in Threads |-> IF h = MAIN_THREAD_ID THEN "live" ELSE "free"]
  /\ projects = [p \in Projects |-> "free"]
  /\ executions = [e \in Executions |-> Free]
  /\ notes = {}
  /\ routing = [e \in Executions |-> None]
  /\ up = FALSE /\ jobs = {}
  /\ form = None

(* The foreign keys of a row of tasks. *)
References(r) == r.project \in LiveProjects \cup {None} /\ r.thread \in LiveThreads \cup {None}

(***************************************************************************)
(* Task manager: numbers are clamped, not refused.                         *)
(***************************************************************************)
\* Mutation of Clamp: the bounds are not both applied.
ClampLowOnly(n) == IF n < MIN_TIMEOUT_MS THEN MIN_TIMEOUT_MS ELSE n

Clamp(n) == IF n < MIN_TIMEOUT_MS THEN MIN_TIMEOUT_MS
            ELSE IF n > MAX_TIMEOUT_MS THEN MAX_TIMEOUT_MS ELSE n

StoreTask(t, r) ==
  /\ References(r)
  /\ tasks' = [tasks EXCEPT ![t] = r]

CreateTask(t) ==
  /\ tasks[t] = Free
  /\ \E n \in TimeoutInputs, c, on \in BOOLEAN, p \in Projects \cup {None}, h \in Threads \cup {None} :
       StoreTask(t, [enabled |-> on, cron |-> c, timeout |-> Clamp(n), project |-> p, thread |-> h])
  /\ UNCHANGED <<threads, projects, executions, notes, routing, up, jobs, form>>

(* `tasks create`: without --target-thread the output goes to Main.        *)
CreateTaskCommand(t) ==
  /\ tasks[t] = Free
  /\ \E n \in TimeoutInputs \cup {DefaultTimeout}, c \in BOOLEAN,
        p \in Projects \cup {None}, h \in Threads :
       StoreTask(t, [enabled |-> TRUE, cron |-> c, timeout |-> Clamp(n), project |-> p, thread |-> h])
  /\ UNCHANGED <<threads, projects, executions, notes, routing, up, jobs, form>>

(* What the schema of the tools lets through. *)
ToolTimeouts == {n \in TimeoutInputs : n \in MIN_TIMEOUT_MS .. MAX_TIMEOUT_MS}

(* The tool bypasses the task manager; its schema refuses numbers out of   *)
(* range.  Without a target the output goes to the thread of the chat, or  *)
(* to Main when the tool is not called from one.                           *)
CreateTaskTool(t) ==
  /\ tasks[t] = Free
  /\ \E n \in ToolTimeouts \cup {DefaultTimeout}, c \in BOOLEAN,
        p \in Projects \cup {None}, h \in Threads :
       StoreTask(t, [enabled |-> TRUE, cron |-> c, timeout |-> n, project |-> p, thread |-> h])
  /\ UNCHANGED <<threads, projects, executions, notes, routing, up, jobs, form>>

CreateTaskFromTemplate(t) ==
  /\ tasks[t] = Free
  /\ \E c \in BOOLEAN, p \in Projects \cup {None} :
       StoreTask(t, [enabled |-> TRUE, cron |-> c, timeout |-> DefaultTimeout, project |-> p, thread |-> None])
  /\ UNCHANGED <<threads, projects, executions, notes, routing, up, jobs, form>>

(* PUT /api/tasks/:id: any of the fields.                                  *)
UpdateTask(t) ==
  /\ t \in LiveTasks
  /\ \E n \in TimeoutInputs \cup {tasks[t].timeout}, c, on \in BOOLEAN,
        p \in Projects \cup {None}, h \in Threads \cup {None} :
       StoreTask(t, [enabled |-> on, cron |-> c, timeout |-> Clamp(n), project |-> p, thread |-> h])
  /\ UNCHANGED <<threads, projects, executions, notes, routing, up, jobs, form>>

(* `tasks update` changes the schedule and the numbers only.               *)
UpdateTaskCommand(t) ==
  /\ t \in LiveTasks
  /\ \E n \in TimeoutInputs, c \in BOOLEAN :
       StoreTask(t, [tasks[t] EXCEPT !.cron = c, !.timeout = Clamp(n)])
  /\ UNCHANGED <<threads, projects, executions, notes, routing, up, jobs, form>>

UpdateTaskTool(t) ==
  /\ t \in LiveTasks
  /\ \E n \in ToolTimeouts \cup {tasks[t].timeout},
        c, on \in BOOLEAN, p \in Projects \cup {None}, h \in Threads \cup {None} :
       StoreTask(t, [enabled |-> on, cron |-> c, timeout |-> n, project |-> p, thread |-> h])
  /\ UNCHANGED <<threads, projects, executions, notes, routing, up, jobs, form>>

EnableTask(t, on) ==
  /\ t \in LiveTasks
  /\ StoreTask(t, [tasks[t] EXCEPT !.enabled = on])
  /\ UNCHANGED <<threads, projects, executions, notes, routing, up, jobs, form>>

ToggleTask(t) ==
  /\ t \in LiveTasks
  /\ StoreTask(t, [tasks[t] EXCEPT !.enabled = ~@])
  /\ UNCHANGED <<threads, projects, executions, notes, routing, up, jobs, form>>

\* Mutation of DeleteTask: foreign keys are not enforced, the executions stay.
DeleteTaskAlone(t) ==
  /\ t \in LiveTasks
  /\ tasks' = [tasks EXCEPT ![t] = Deleted]
  /\ UNCHANGED <<threads, projects, executions, notes, routing, up, jobs, form>>

(* ON DELETE CASCADE takes the task's executions along; the messages they  *)
(* left in threads stay.                                                   *)
DeleteTask(t) ==
  /\ t \in LiveTasks
  /\ tasks' = [tasks EXCEPT ![t] = Deleted]
  /\ executions' = [e \in Executions |->
       IF Stored(executions[e]) /\ executions[e].task = t THEN Deleted ELSE executions[e]]
  /\ UNCHANGED <<threads, projects, notes, routing, up, jobs, form>>

(***************************************************************************)
(* Threads and projects.                                                   *)
(***************************************************************************)
CreateThread(h) ==
  /\ threads[h] = "free" /\ threads' = [threads EXCEPT ![h] = "live"]
  /\ UNCHANGED <<tasks, projects, executions, notes, routing, up, jobs, form>>

(* ON DELETE SET NULL in tasks and executions, CASCADE in thread_messages. *)
DeleteThread(h) ==
  /\ h # MAIN_THREAD_ID /\ threads[h] = "live"
  /\ threads' = [threads EXCEPT ![h] = "gone"]
  /\ tasks' = [t \in Tasks |->
       IF t \in LiveTasks /\ tasks[t].thread = h THEN [tasks[t] EXCEPT !.thread = None] ELSE tasks[t]]
  /\ executions' = [e \in Executions |->
       IF Stored(executions[e]) /\ executions[e].thread = h
       THEN [executions[e] EXCEPT !.thread = None] ELSE executions[e]]
  /\ notes' = {m \in notes : m[2] # h}
  /\ UNCHANGED <<projects, routing, up, jobs, form>>

CreateProject(p) ==
  /\ projects[p] = "free" /\ projects' = [projects EXCEPT ![p] = "live"]
  /\ UNCHANGED <<tasks, threads, executions, notes, routing, up, jobs, form>>

DeleteProject(p) ==
  /\ projects[p] = "live" /\ projects' = [projects EXCEPT ![p] = "gone"]
  /\ tasks' = [t \in Tasks |->
       IF t \in LiveTasks /\ tasks[t].project = p THEN [tasks[t] EXCEPT !.project = None] ELSE tasks[t]]
  /\ UNCHANGED <<threads, executions, notes, routing, up, jobs, form>>

(***************************************************************************)
(* Executions: made by a cron tick or on request.                          *)
(***************************************************************************)
Insert(e, t, by) ==
  /\ executions[e] = Free
  /\ executions' = [executions EXCEPT ![e] = [task |-> t, by |-> by, done |-> FALSE, thread |-> None]]
  /\ UNCHANGED <<tasks, threads, projects, notes, routing, up, jobs, form>>

SubmitTask(t, e) == t \in LiveTasks /\ Insert(e, t, "submit")

(* startAll registers what is enabled and scheduled at that moment; no     *)
(* other code registers or unregisters a job.                              *)
StartAll ==
  /\ ~up /\ up' = TRUE
  /\ jobs' = {t \in LiveTasks : tasks[t].enabled /\ tasks[t].cron}
  /\ UNCHANGED <<tasks, threads, projects, executions, notes, routing, form>>

Stop ==
  /\ up /\ up' = FALSE /\ jobs' = {}
  /\ UNCHANGED <<tasks, threads, projects, executions, notes, routing, form>>

(* A job outlives the row it was made from: the tick reads the row again.  *)
Tick(t, e) == up /\ t \in jobs /\ t \in LiveTasks /\ tasks[t].enabled /\ Insert(e, t, "tick")

(***************************************************************************)
(* Output routing of handleExecutionComplete, statement by statement.      *)
(***************************************************************************)
RouteThread(t) ==
  LET to == IF tasks[t].thread = None THEN MAIN_THREAD_ID ELSE tasks[t].thread
  IN  IF to \in LiveThreads THEN to ELSE MAIN_THREAD_ID

Complete(e) ==
  /\ Stored(executions[e]) /\ ~executions[e].done
  /\ executions' = [executions EXCEPT ![e].done = TRUE]
  /\ routing' = [routing EXCEPT ![e] = [at |-> "link", to |-> RouteThread(executions[e].task)]]
  /\ UNCHANGED <<tasks, threads, projects, notes, up, jobs, form>>

(* The execution or the thread may have been deleted since: the call       *)
(* throws, and routing is over.                                            *)
LinkExecutionToThread(e) ==
  /\ routing[e] # None /\ routing[e].at = "link"
  /\ IF Stored(executions[e]) /\ routing[e].to \in LiveThreads
     THEN /\ executions' = [executions EXCEPT ![e].thread = routing[e].to]
          /\ routing' = [routing EXCEPT ![e].at = "append"]
     ELSE routing' = [routing EXCEPT ![e] = None] /\ UNCHANGED executions
  /\ UNCHANGED <<tasks, threads, projects, notes, up, jobs, form>>

\* Mutation of AppendThreadMessage: the summary goes to the task's target, read again.
AppendToTarget(e) ==
  /\ routing[e] # None /\ routing[e].at = "append"
  /\ notes' = notes \cup
       (IF Stored(executions[e]) THEN {<<e, RouteThread(executions[e].task)>>} ELSE {})
  /\ routing' = [routing EXCEPT ![e] = None]
  /\ UNCHANGED <<tasks, threads, projects, executions, up, jobs, form>>

AppendThreadMessage(e) ==
  /\ routing[e] # None /\ routing[e].at = "append"
  /\ notes' = notes \cup {m \in {<<e, routing[e].to>>} : m[2] \in LiveThreads}
  /\ routing' = [routing EXCEPT ![e] = None]
  /\ UNCHANGED <<tasks, threads, projects, executions, up, jobs, form>>

(***************************************************************************)
(* The task editor of the web page: its fields are filled once, when it    *)
(* opens; a save sends the ones it shows.                                  *)
(***************************************************************************)
OpenEditor(t) ==
  /\ form = None /\ t \in LiveTasks
  /\ \E current \in LiveThreads \cup {None} :   \* the thread open in the chat
       form' = [task |-> t, enabled |-> tasks[t].enabled, timeout |-> tasks[t].timeout,
                thread |-> IF tasks[t].thread # None THEN tasks[t].thread
                           ELSE IF current # None THEN current ELSE MAIN_THREAD_ID]
  /\ UNCHANGED <<tasks, threads, projects, executions, notes, routing, up, jobs>>

Saved(c) ==
  [tasks[form.task] EXCEPT !.cron = c, !.timeout = Clamp(form.timeout),
     !.thread = IF form.thread = MAIN_THREAD_ID THEN None ELSE form.thread]

\* Mutation of HandleSave: the whole task the editor was opened with is sent.
SaveWhole ==
  /\ form # None /\ form.task \in LiveTasks
  /\ \E c \in BOOLEAN : StoreTask(form.task, [Saved(c) EXCEPT !.enabled = form.enabled])
  /\ form' = None
  /\ UNCHANGED <<threads, projects, executions, notes, routing, up, jobs>>

HandleSave ==
  /\ form # None /\ form.task \in LiveTasks
  /\ \E c \in BOOLEAN : StoreTask(form.task, Saved(c))
  /\ form' = None
  /\ UNCHANGED <<threads, projects, executions, notes, routing, up, jobs>>

CloseEditor ==
  /\ form # None /\ form' = None
  /\ UNCHANGED <<tasks, threads, projects, executions, notes, routing, up, jobs>>

Next ==
  \/ \E t \in Tasks :
       \/ CreateTask(t) \/ CreateTaskCommand(t) \/ CreateTaskTool(t) \/ CreateTaskFromTemplate(t)
       \/ UpdateTask(t) \/ UpdateTaskCommand(t) \/ UpdateTaskTool(t)
       \/ \E on \in BOOLEAN : EnableTask(t, on)
       \/ ToggleTask(t) \/ DeleteTask(t)
       \/ OpenEditor(t)
       \/ \E e \in Executions : SubmitTask(t, e) \/ Tick(t, e)
  \/ \E h \in Threads : CreateThread(h) \/ DeleteThread(h)
  \/ \E p \in Projects : CreateProject(p) \/ DeleteProject(p)
  \/ \E e \in Executions : Complete(e) \/ LinkExecutionToThread(e) \/ AppendThreadMessage(e)
  \/ StartAll \/ Stop \/ HandleSave \/ CloseEditor

Spec == Init /\ [][Next]_vars
=============================================================================
