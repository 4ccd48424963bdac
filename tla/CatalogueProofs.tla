---------------------------- MODULE CatalogueProofs ----------------------------
(***************************************************************************)
(* What holds of the store: of the catalogue, for any tasks, threads,      *)
(* projects and executions; and, at the end, of the opening of the         *)
(* database, for any number of processes.                                  *)
(***************************************************************************)
EXTENDS CatalogueProperties, Migrations, TLAPS

Told(e) == {h \in Threads : <<e, h>> \in notes}

(* Why ThreadTellsOfItsExecutions holds between the three statements: an   *)
(* execution tells of its thread before its summary does, and a thread     *)
(* that is deleted in between takes its half with it.                      *)
RoutingSound(e) ==
  /\ routing[e] # None => threads[routing[e].to] # "free"
  /\ executions[e] = Free => routing[e] = None /\ Told(e) = {}
  /\ Stored(executions[e]) /\ ~executions[e].done =>
       routing[e] = None /\ Told(e) = {} /\ executions[e].thread = None
  /\ Stored(executions[e]) /\ routing[e] # None =>
       /\ Told(e) = {}
       /\ routing[e].at = "link" => executions[e].thread = None
       /\ routing[e].at = "append" =>
            executions[e].thread = IF routing[e].to \in LiveThreads THEN routing[e].to ELSE None
  /\ Stored(executions[e]) /\ routing[e] = None =>
       IF executions[e].thread = None THEN Told(e) = {} ELSE Told(e) = {executions[e].thread}

Inv ==
  /\ TypeOK /\ ReferencesResolve /\ LimitsKept
  /\ \A e \in Executions : RoutingSound(e)
-----------------------------------------------------------------------------
store == <<threads, projects, executions, notes, routing>>

(* Row r is written for task t. *)
Edited(t, r) ==
  /\ r \in TaskRows /\ References(r) /\ r.timeout \in MIN_TIMEOUT_MS .. MAX_TIMEOUT_MS
  /\ tasks' = [tasks EXCEPT ![t] = r]
  /\ UNCHANGED store /\ up' \in BOOLEAN /\ jobs' \subseteq Tasks
  /\ form' \in {form, None}

\* Only what is neither Free nor Deleted is a row.
LEMMA RowsAreStored ==
  \A r \in TaskRows \cup ExecutionRows : Stored(r)
  BY MarksAssumption DEF Stored

\* Clamp keeps to the limits.
LEMMA ClampLimits ==
  ASSUME NEW n \in Nat PROVE Clamp(n) \in MIN_TIMEOUT_MS .. MAX_TIMEOUT_MS
  BY LimitsAssumption DEF Clamp

\* The limits are natural numbers.
LEMMA LimitsAreNat == MIN_TIMEOUT_MS .. MAX_TIMEOUT_MS \subseteq Nat
  BY LimitsAssumption

\* Whichever of the ways in writes a task, what holds of the catalogue still does.
LEMMA EditKeepsInv ==
  ASSUME Inv, NEW t \in Tasks, NEW r, Edited(t, r) PROVE Inv'
<1>1. Stored(r)
  BY RowsAreStored DEF Edited
<1>2. LiveTasks' = LiveTasks \cup {t}
  BY <1>1 DEF Inv, TypeOK, LiveTasks, Edited
<1>3. LiveThreads' = LiveThreads /\ LiveProjects' = LiveProjects
  BY DEF Edited, store, LiveThreads, LiveProjects
<1>4. TypeOK'
  BY DEF Inv, TypeOK, Edited, store
<1>5. \A u \in LiveTasks' : tasks'[u] = IF u = t THEN r ELSE tasks[u]
  BY DEF Edited, LiveTasks, Inv, TypeOK
<1>6. ReferencesResolve'
  <2>1. \A u \in LiveTasks' : References(tasks[u])'
    BY <1>2, <1>3, <1>5 DEF Edited, References, Inv, ReferencesResolve
  <2> QED
    BY <2>1, <1>2, <1>3 DEF Edited, store, Inv, ReferencesResolve, Stored
<1>7. LimitsKept'
  BY <1>2, <1>5 DEF Edited, Inv, LimitsKept
<1>8. \A e \in Executions : RoutingSound(e)'
  BY <1>3 DEF Edited, store, Inv, RoutingSound, Told, Stored
<1> QED
  BY <1>4, <1>6, <1>7, <1>8 DEF Inv

\* The steps that write a task.
EditStep ==
  \/ \E t \in Tasks :
       \/ CreateTask(t) \/ CreateTaskCommand(t) \/ CreateTaskTool(t) \/ CreateTaskFromTemplate(t)
       \/ UpdateTask(t) \/ UpdateTaskCommand(t) \/ UpdateTaskTool(t)
       \/ \E on \in BOOLEAN : EnableTask(t, on)
       \/ ToggleTask(t)
  \/ HandleSave

\* Each of the ways a task is written writes a row that refers to rows that
\* exist, with numbers inside the limits.
LEMMA EditStepKeepsInv ==
  ASSUME Inv, EditStep PROVE Inv'
<1> DEFINE Some(t) == \E r : Edited(t, r)
<1> SUFFICES \E t \in Tasks : Some(t)
  BY EditKeepsInv
<1>1. \A t \in LiveTasks :
        tasks[t] \in TaskRows /\ References(tasks[t]) /\ tasks[t].timeout \in MIN_TIMEOUT_MS .. MAX_TIMEOUT_MS
  BY DEF Inv, TypeOK, LiveTasks, Stored, Marks, ReferencesResolve, LimitsKept
<1>2. DefaultTimeout \in MIN_TIMEOUT_MS .. MAX_TIMEOUT_MS
  BY LimitsAssumption
<1>3. ToolTimeouts \subseteq MIN_TIMEOUT_MS .. MAX_TIMEOUT_MS /\ TimeoutInputs \subseteq Nat
  BY LimitsAssumption DEF ToolTimeouts
<1>4. up \in BOOLEAN /\ jobs \subseteq Tasks
  BY DEF Inv, TypeOK
<1>5. ASSUME NEW t \in Tasks, CreateTask(t) PROVE Some(t)
  <2>1. PICK n \in TimeoutInputs, c \in BOOLEAN, on \in BOOLEAN,
             p \in Projects \cup {None}, h \in Threads \cup {None} :
          StoreTask(t, [enabled |-> on, cron |-> c, timeout |-> Clamp(n), project |-> p, thread |-> h])
    BY <1>5 DEF CreateTask
  <2> DEFINE r == [enabled |-> on, cron |-> c, timeout |-> Clamp(n), project |-> p, thread |-> h]
  <2>2. Clamp(n) \in MIN_TIMEOUT_MS .. MAX_TIMEOUT_MS /\ Clamp(n) \in Nat
    BY ClampLimits, LimitsAreNat, <1>3
  <2>3. r \in TaskRows
    BY <2>2 DEF TaskRows
  <2>4. Edited(t, r)
    BY <1>4, <1>5, <2>1, <2>2, <2>3 DEF CreateTask, StoreTask, Edited, store
  <2> QED
    BY <2>4
<1>6. ASSUME NEW t \in Tasks, CreateTaskCommand(t) PROVE Some(t)
  <2>1. PICK n \in TimeoutInputs \cup {DefaultTimeout}, c \in BOOLEAN,
             p \in Projects \cup {None}, h \in Threads :
          StoreTask(t, [enabled |-> TRUE, cron |-> c, timeout |-> Clamp(n), project |-> p, thread |-> h])
    BY <1>6 DEF CreateTaskCommand
  <2> DEFINE r == [enabled |-> TRUE, cron |-> c, timeout |-> Clamp(n), project |-> p, thread |-> h]
  <2>2. Clamp(n) \in MIN_TIMEOUT_MS .. MAX_TIMEOUT_MS /\ Clamp(n) \in Nat
    BY ClampLimits, LimitsAreNat, <1>2, <1>3
  <2>3. r \in TaskRows
    BY <2>2 DEF TaskRows
  <2>4. Edited(t, r)
    BY <1>4, <1>6, <2>1, <2>2, <2>3 DEF CreateTaskCommand, StoreTask, Edited, store
  <2> QED
    BY <2>4
<1>7. ASSUME NEW t \in Tasks, CreateTaskTool(t) PROVE Some(t)
  <2>1. PICK n \in ToolTimeouts \cup {DefaultTimeout}, c \in BOOLEAN,
             p \in Projects \cup {None}, h \in Threads :
          StoreTask(t, [enabled |-> TRUE, cron |-> c, timeout |-> n, project |-> p, thread |-> h])
    BY <1>7 DEF CreateTaskTool
  <2> DEFINE r == [enabled |-> TRUE, cron |-> c, timeout |-> n, project |-> p, thread |-> h]
  <2>2. r \in TaskRows /\ n \in MIN_TIMEOUT_MS .. MAX_TIMEOUT_MS
    BY LimitsAreNat, <1>2, <1>3 DEF TaskRows
  <2>3. Edited(t, r)
    BY <1>4, <1>7, <2>1, <2>2 DEF CreateTaskTool, StoreTask, Edited, store
  <2> QED
    BY <2>3
<1>8. ASSUME NEW t \in Tasks, CreateTaskFromTemplate(t) PROVE Some(t)
  <2>1. PICK c \in BOOLEAN, p \in Projects \cup {None} :
          StoreTask(t, [enabled |-> TRUE, cron |-> c, timeout |-> DefaultTimeout, project |-> p, thread |-> None])
    BY <1>8 DEF CreateTaskFromTemplate
  <2> DEFINE r == [enabled |-> TRUE, cron |-> c, timeout |-> DefaultTimeout, project |-> p, thread |-> None]
  <2>2. r \in TaskRows
    BY LimitsAreNat, <1>2 DEF TaskRows
  <2>3. Edited(t, r)
    BY <1>2, <1>4, <1>8, <2>1, <2>2 DEF CreateTaskFromTemplate, StoreTask, Edited, store
  <2> QED
    BY <2>3
<1>9. ASSUME NEW t \in Tasks, UpdateTask(t) PROVE Some(t)
  <2>1. PICK n \in TimeoutInputs \cup {tasks[t].timeout}, c \in BOOLEAN, on \in BOOLEAN,
             p \in Projects \cup {None}, h \in Threads \cup {None} :
          StoreTask(t, [enabled |-> on, cron |-> c, timeout |-> Clamp(n), project |-> p, thread |-> h])
    BY <1>9 DEF UpdateTask
  <2> DEFINE r == [enabled |-> on, cron |-> c, timeout |-> Clamp(n), project |-> p, thread |-> h]
  <2>2. Clamp(n) \in MIN_TIMEOUT_MS .. MAX_TIMEOUT_MS /\ Clamp(n) \in Nat
    BY ClampLimits, LimitsAreNat, <1>1, <1>3, <1>9 DEF UpdateTask
  <2>3. r \in TaskRows
    BY <2>2 DEF TaskRows
  <2>4. Edited(t, r)
    BY <1>4, <1>9, <2>1, <2>2, <2>3 DEF UpdateTask, StoreTask, Edited, store
  <2> QED
    BY <2>4
<1>10. ASSUME NEW t \in Tasks, UpdateTaskCommand(t) PROVE Some(t)
  <2>1. PICK n \in TimeoutInputs, c \in BOOLEAN :
          StoreTask(t, [tasks[t] EXCEPT !.cron = c, !.timeout = Clamp(n)])
    BY <1>10 DEF UpdateTaskCommand
  <2> DEFINE r == [tasks[t] EXCEPT !.cron = c, !.timeout = Clamp(n)]
  <2>2. Clamp(n) \in MIN_TIMEOUT_MS .. MAX_TIMEOUT_MS /\ Clamp(n) \in Nat
    BY ClampLimits, LimitsAreNat, <1>3
  <2>3. r \in TaskRows /\ r.timeout = Clamp(n)
    BY <1>1, <1>10, <2>2 DEF TaskRows, UpdateTaskCommand
  <2>4. Edited(t, r)
    BY <1>4, <1>10, <2>1, <2>2, <2>3 DEF UpdateTaskCommand, StoreTask, Edited, store
  <2> QED
    BY <2>4
<1>11. ASSUME NEW t \in Tasks, UpdateTaskTool(t) PROVE Some(t)
  <2>1. PICK n \in ToolTimeouts \cup {tasks[t].timeout}, c \in BOOLEAN, on \in BOOLEAN,
             p \in Projects \cup {None}, h \in Threads \cup {None} :
          StoreTask(t, [enabled |-> on, cron |-> c, timeout |-> n, project |-> p, thread |-> h])
    BY <1>11 DEF UpdateTaskTool
  <2> DEFINE r == [enabled |-> on, cron |-> c, timeout |-> n, project |-> p, thread |-> h]
  <2>2. n \in MIN_TIMEOUT_MS .. MAX_TIMEOUT_MS
    BY <1>1, <1>3, <1>11 DEF UpdateTaskTool
  <2>3. r \in TaskRows
    BY LimitsAreNat, <2>2 DEF TaskRows
  <2>4. Edited(t, r)
    BY <1>4, <1>11, <2>1, <2>2, <2>3 DEF UpdateTaskTool, StoreTask, Edited, store
  <2> QED
    BY <2>4
<1>12. ASSUME NEW t \in Tasks, NEW on \in BOOLEAN,
              EnableTask(t, on) \/ ToggleTask(t)
       PROVE  Some(t)
  <2>1. PICK b \in BOOLEAN : StoreTask(t, [tasks[t] EXCEPT !.enabled = b])
    <3>1. tasks[t].enabled \in BOOLEAN
      BY <1>1, <1>12 DEF TaskRows, EnableTask, ToggleTask
    <3>2. CASE EnableTask(t, on)
      BY <3>2 DEF EnableTask
    <3>3. CASE ToggleTask(t)
      BY <3>3, <3>1 DEF ToggleTask
    <3> QED
      BY <1>12, <3>2, <3>3
  <2> DEFINE r == [tasks[t] EXCEPT !.enabled = b]
  <2>2. r \in TaskRows /\ r.timeout = tasks[t].timeout
    BY <1>1, <1>12 DEF TaskRows, EnableTask, ToggleTask
  <2>3. Edited(t, r)
    BY <1>1, <1>4, <1>12, <2>1, <2>2 DEF EnableTask, ToggleTask, StoreTask, Edited, store
  <2> QED
    BY <2>3
<1>13. ASSUME HandleSave PROVE \E t \in Tasks : Some(t)
  <2>1. PICK c \in BOOLEAN : StoreTask(form.task, Saved(c))
    BY <1>13 DEF HandleSave
  <2>2. /\ form.task \in LiveTasks /\ form.task \in Tasks
        /\ form.timeout \in Nat /\ form.thread \in Threads
    BY <1>13 DEF HandleSave, LiveTasks, Inv, TypeOK
  <2>3. Clamp(form.timeout) \in MIN_TIMEOUT_MS .. MAX_TIMEOUT_MS /\ Clamp(form.timeout) \in Nat
    BY ClampLimits, LimitsAreNat, <2>2
  <2>4. Saved(c) \in TaskRows /\ Saved(c).timeout = Clamp(form.timeout)
    BY <1>1, <2>2, <2>3 DEF Saved, TaskRows
  <2>5. Edited(form.task, Saved(c))
    BY <1>4, <1>13, <2>1, <2>3, <2>4 DEF HandleSave, StoreTask, Edited, store
  <2> QED
    BY <2>2, <2>5
<1> QED
  BY <1>5, <1>6, <1>7, <1>8, <1>9, <1>10, <1>11, <1>12, <1>13 DEF EditStep
-----------------------------------------------------------------------------
\* A task takes its executions along; what they left in threads stays.
LEMMA DeleteTaskKeepsInv ==
  ASSUME Inv, NEW t \in Tasks, DeleteTask(t) PROVE Inv'
<1>1. LiveTasks' = LiveTasks \ {t} /\ LiveThreads' = LiveThreads /\ LiveProjects' = LiveProjects
  BY DEF Inv, TypeOK, DeleteTask, LiveTasks, LiveThreads, LiveProjects, Stored
<1>2. \A u \in LiveTasks' : tasks'[u] = tasks[u]
  BY <1>1 DEF DeleteTask, Inv, TypeOK, LiveTasks
<1>3. \A e \in Executions :
        /\ executions'[e] \in {executions[e], Deleted}
        /\ executions[e] = Free => executions'[e] = Free
        /\ Stored(executions'[e]) => executions'[e] = executions[e] /\ executions[e].task # t
        /\ executions'[e] = Free => executions[e] = Free
  BY MarksAssumption DEF DeleteTask, Inv, TypeOK, Stored
<1>4. TypeOK'
  BY DEF Inv, TypeOK, DeleteTask, Marks
<1>5. ReferencesResolve'
  <2>1. \A u \in LiveTasks' : References(tasks[u])'
    BY <1>1, <1>2 DEF References, Inv, ReferencesResolve
  <2>2. \A e \in Executions : Stored(executions'[e]) =>
          executions'[e].task \in LiveTasks' /\ executions'[e].thread \in LiveThreads' \cup {None}
    BY <1>1, <1>3 DEF Inv, ReferencesResolve
  <2> QED
    BY <2>1, <2>2, <1>1 DEF DeleteTask, Inv, ReferencesResolve, Stored
<1>6. LimitsKept'
  BY <1>1, <1>2 DEF Inv, LimitsKept
<1>7. \A e \in Executions : RoutingSound(e)'
  <2> SUFFICES ASSUME NEW e \in Executions PROVE RoutingSound(e)'
    OBVIOUS
  <2>1. Told(e)' = Told(e) /\ routing'[e] = routing[e] /\ threads' = threads
    BY DEF DeleteTask, Told
  <2>2. RoutingSound(e)
    BY DEF Inv
  <2>3. CASE executions'[e] = executions[e]
    BY <1>1, <2>1, <2>2, <2>3 DEF RoutingSound, Stored
  <2>4. CASE executions'[e] = Deleted
    BY <2>1, <2>2, <2>4, MarksAssumption DEF RoutingSound, Stored
  <2> QED
    BY <1>3, <2>3, <2>4
<1> QED
  BY <1>4, <1>5, <1>6, <1>7 DEF Inv

\* A deleted thread is nobody's target, nobody's thread, and holds no summary.
LEMMA DeleteThreadKeepsInv ==
  ASSUME Inv, NEW h \in Threads, DeleteThread(h) PROVE Inv'
<1>1. LiveThreads' = LiveThreads \ {h} /\ LiveProjects' = LiveProjects /\ h # None
  BY MarksAssumption DEF Inv, TypeOK, DeleteThread, LiveThreads, LiveProjects
<1>2. \A t \in LiveTasks : tasks[t] \in TaskRows
  BY DEF Inv, TypeOK, LiveTasks, Stored, Marks
<1>3. \A t \in LiveTasks : [tasks[t] EXCEPT !.thread = None] \in TaskRows
  BY <1>2 DEF TaskRows
<1>4. /\ tasks' \in [Tasks -> TaskRows \cup Marks] /\ LiveTasks' = LiveTasks
      /\ \A t \in LiveTasks : tasks'[t] = IF tasks[t].thread = h
                                          THEN [tasks[t] EXCEPT !.thread = None] ELSE tasks[t]
  BY <1>3, RowsAreStored DEF Inv, TypeOK, DeleteThread, LiveTasks
<1>5. \A e \in Executions : Stored(executions[e]) => executions[e] \in ExecutionRows
  BY DEF Inv, TypeOK, Stored, Marks
<1>6. \A e \in Executions : Stored(executions[e]) =>
        [executions[e] EXCEPT !.thread = None] \in ExecutionRows
  BY <1>5 DEF ExecutionRows
<1>7. /\ executions' \in [Executions -> ExecutionRows \cup Marks]
      /\ \A e \in Executions :
           /\ Stored(executions'[e]) <=> Stored(executions[e])
           /\ executions'[e] = Free <=> executions[e] = Free
           /\ executions'[e] = IF Stored(executions[e]) /\ executions[e].thread = h
                               THEN [executions[e] EXCEPT !.thread = None] ELSE executions[e]
  BY <1>6, RowsAreStored DEF Inv, TypeOK, DeleteThread, Stored
<1>8. \A e \in Executions : Stored(executions[e]) =>
        /\ executions'[e].task = executions[e].task /\ executions'[e].done = executions[e].done
        /\ executions'[e].thread = IF executions[e].thread = h THEN None ELSE executions[e].thread
  BY <1>5, <1>7 DEF ExecutionRows
<1>9. \A t \in LiveTasks :
        /\ tasks'[t].project = tasks[t].project /\ tasks'[t].timeout = tasks[t].timeout
        /\ tasks'[t].thread = IF tasks[t].thread = h THEN None ELSE tasks[t].thread
  BY <1>2, <1>4 DEF TaskRows
<1>10. TypeOK'
  <2>1. threads' \in [Threads -> States] /\ notes' \subseteq Executions \X Threads
    BY DEF Inv, TypeOK, DeleteThread, States
  <2> QED
    BY <2>1, <1>4, <1>7 DEF Inv, TypeOK, DeleteThread
<1>11. ReferencesResolve'
  <2>1. \A t \in LiveTasks' : References(tasks[t])'
    BY <1>1, <1>4, <1>9 DEF References, Inv, ReferencesResolve
  <2>2. \A e \in Executions : Stored(executions'[e]) =>
          executions'[e].task \in LiveTasks' /\ executions'[e].thread \in LiveThreads' \cup {None}
    BY <1>1, <1>4, <1>7, <1>8 DEF Inv, ReferencesResolve
  <2>3. MAIN_THREAD_ID \in LiveThreads' /\ \A m \in notes' : m[2] \in LiveThreads'
    BY <1>1 DEF Inv, ReferencesResolve, DeleteThread
  <2> QED
    BY <2>1, <2>2, <2>3 DEF ReferencesResolve, Stored
<1>12. LimitsKept'
  BY <1>4, <1>9 DEF Inv, LimitsKept
<1>13. \A e \in Executions : RoutingSound(e)'
  <2> SUFFICES ASSUME NEW e \in Executions PROVE RoutingSound(e)'
    OBVIOUS
  <2>1. Told(e)' = Told(e) \ {h} /\ routing'[e] = routing[e]
    BY DEF DeleteThread, Told
  <2>2. RoutingSound(e)
    BY DEF Inv
  <2>3. \A g \in Threads : threads[g] # "free" => threads'[g] # "free"
    BY DEF DeleteThread, Inv, TypeOK
  <2>4. routing[e] # None => routing[e].to \in Threads
    BY DEF Inv, TypeOK, Routings
  <2>5. CASE ~Stored(executions[e])
    BY <2>1, <2>2, <2>3, <2>4, <2>5, <1>7 DEF RoutingSound, Stored
  <2>6. CASE Stored(executions[e])
    BY <2>1, <2>2, <2>3, <2>4, <2>6, <1>1, <1>7, <1>8 DEF RoutingSound, Stored
  <2> QED
    BY <2>5, <2>6
<1> QED
  BY <1>10, <1>11, <1>12, <1>13 DEF Inv

\* ON DELETE SET NULL.
LEMMA DeleteProjectKeepsInv ==
  ASSUME Inv, NEW p \in Projects, DeleteProject(p) PROVE Inv'
<1>1. LiveThreads' = LiveThreads /\ LiveProjects' = LiveProjects \ {p}
  BY DEF Inv, TypeOK, DeleteProject, LiveThreads, LiveProjects
<1>2. \A t \in LiveTasks : tasks[t] \in TaskRows
  BY DEF Inv, TypeOK, LiveTasks, Stored, Marks
<1>3. \A t \in LiveTasks : [tasks[t] EXCEPT !.project = None] \in TaskRows
  BY <1>2 DEF TaskRows
<1>4. /\ tasks' \in [Tasks -> TaskRows \cup Marks] /\ LiveTasks' = LiveTasks
      /\ \A t \in LiveTasks : tasks'[t] = IF tasks[t].project = p
                                          THEN [tasks[t] EXCEPT !.project = None] ELSE tasks[t]
  BY <1>3, RowsAreStored DEF Inv, TypeOK, DeleteProject, LiveTasks
<1>5. \A t \in LiveTasks :
        /\ tasks'[t].thread = tasks[t].thread /\ tasks'[t].timeout = tasks[t].timeout
        /\ tasks'[t].project = IF tasks[t].project = p THEN None ELSE tasks[t].project
  BY <1>2, <1>4 DEF TaskRows
<1>6. TypeOK'
  <2>1. projects' \in [Projects -> States]
    BY DEF Inv, TypeOK, DeleteProject, States
  <2> QED
    BY <2>1, <1>4 DEF Inv, TypeOK, DeleteProject
<1>7. ReferencesResolve'
  <2>1. \A t \in LiveTasks' : References(tasks[t])'
    BY <1>1, <1>4, <1>5 DEF References, Inv, ReferencesResolve
  <2> QED
    BY <2>1, <1>1, <1>4 DEF DeleteProject, Inv, ReferencesResolve, Stored
<1>8. LimitsKept'
  BY <1>4, <1>5 DEF Inv, LimitsKept
<1>9. \A e \in Executions : RoutingSound(e)'
  BY <1>1 DEF DeleteProject, Inv, RoutingSound, Told, Stored
<1> QED
  BY <1>6, <1>7, <1>8, <1>9 DEF Inv

\* A new thread or project: nothing refers to it yet.
LEMMA CreationKeepsInv ==
  ASSUME Inv, (\E h \in Threads : CreateThread(h)) \/ (\E p \in Projects : CreateProject(p))
  PROVE  Inv'
<1>1. /\ LiveThreads \subseteq LiveThreads' /\ LiveProjects \subseteq LiveProjects'
      /\ UNCHANGED <<tasks, executions, notes, routing, up, jobs, form>> /\ LiveTasks' = LiveTasks
      /\ threads' \in [Threads -> States] /\ projects' \in [Projects -> States]
      /\ \A h \in LiveThreads' \ LiveThreads : threads[h] = "free"
  BY DEF Inv, TypeOK, CreateThread, CreateProject, LiveThreads, LiveProjects, LiveTasks, States
<1>2. TypeOK' /\ LimitsKept'
  BY <1>1 DEF Inv, TypeOK, LimitsKept
<1>3. ReferencesResolve'
  BY <1>1 DEF Inv, ReferencesResolve, References, Stored
<1>4. ASSUME NEW e \in Executions PROVE RoutingSound(e)'
  <2>1. /\ Told(e)' = Told(e) /\ routing' = routing /\ executions' = executions
        /\ \A h \in Threads : threads[h] # "free" => threads'[h] = threads[h]
    BY <1>1 DEF Told, Inv, TypeOK, CreateThread, CreateProject
  <2>2. routing[e] # None => routing[e].to \in Threads
    BY DEF Inv, TypeOK, Routings
  <2>3. routing[e] # None => (routing[e].to \in LiveThreads' <=> routing[e].to \in LiveThreads)
    BY <2>1, <2>2 DEF LiveThreads, Inv, RoutingSound
  <2>4. RoutingSound(e)
    BY DEF Inv
  <2> QED
    BY <2>1, <2>2, <2>3, <2>4 DEF RoutingSound, Stored
<1> QED
  BY <1>2, <1>3, <1>4 DEF Inv
-----------------------------------------------------------------------------
\* A new row of executions tells of no thread.
LEMMA InsertKeepsInv ==
  ASSUME Inv, NEW e \in Executions, NEW t \in LiveTasks, NEW by \in {"tick", "submit"},
         Insert(e, t, by)
  PROVE  Inv'
<1> DEFINE x == [task |-> t, by |-> by, done |-> FALSE, thread |-> None]
<1>1. x \in ExecutionRows /\ Stored(x)
  <2>1. x \in ExecutionRows
    BY DEF ExecutionRows, LiveTasks
  <2> QED
    BY <2>1, RowsAreStored
<1>2. \A f \in Executions : executions'[f] = IF f = e THEN x ELSE executions[f]
  BY DEF Insert, Inv, TypeOK
<1>3. LiveTasks' = LiveTasks /\ LiveThreads' = LiveThreads /\ LiveProjects' = LiveProjects
  BY DEF Insert, LiveTasks, LiveThreads, LiveProjects
<1>4. TypeOK' /\ LimitsKept'
  BY <1>1, <1>3 DEF Insert, Inv, TypeOK, LimitsKept
<1>5. ReferencesResolve'
  <2>1. \A f \in Executions : Stored(executions'[f]) =>
          executions'[f].task \in LiveTasks' /\ executions'[f].thread \in LiveThreads' \cup {None}
    BY <1>2, <1>3 DEF Inv, ReferencesResolve
  <2> QED
    BY <2>1, <1>3 DEF Insert, Inv, ReferencesResolve, References, Stored
<1>6. ASSUME NEW f \in Executions PROVE RoutingSound(f)'
  <2>1. Told(f)' = Told(f) /\ routing' = routing /\ threads' = threads
    BY DEF Insert, Told
  <2>2. CASE f = e
    <3>1. routing[e] = None /\ Told(e) = {}
      BY DEF Insert, Inv, RoutingSound
    <3>2. executions'[e] # Free
      BY <1>1, <1>2 DEF Stored
    <3> QED
      BY <2>1, <2>2, <3>1, <3>2, <1>2 DEF RoutingSound
  <2>3. CASE f # e
    BY <2>1, <2>3, <1>2, <1>3 DEF Inv, RoutingSound, Stored
  <2> QED
    BY <2>2, <2>3
<1> QED
  BY <1>4, <1>5, <1>6 DEF Inv

\* An output is routed to a thread that exists.
LEMMA RouteExists ==
  ASSUME Inv, NEW t \in LiveTasks PROVE RouteThread(t) \in LiveThreads
BY DEF RouteThread, Inv, ReferencesResolve, References

\* From the completion on, the execution has a route and tells of no thread yet.
LEMMA CompleteKeepsInv ==
  ASSUME Inv, NEW e \in Executions, Complete(e) PROVE Inv'
<1> DEFINE to == RouteThread(executions[e].task)
           x  == [executions[e] EXCEPT !.done = TRUE]
<1>1. to \in LiveThreads /\ to \in Threads
  BY RouteExists DEF Complete, Inv, ReferencesResolve, LiveThreads
<1>2. executions[e] \in ExecutionRows
  BY DEF Complete, Inv, TypeOK, Stored, Marks
<1>3. /\ x \in ExecutionRows /\ Stored(x)
      /\ x.task = executions[e].task /\ x.thread = executions[e].thread /\ x.done = TRUE
  <2>1. x \in ExecutionRows /\ x.task = executions[e].task
          /\ x.thread = executions[e].thread /\ x.done = TRUE
    BY <1>2 DEF ExecutionRows
  <2> QED
    BY <2>1, RowsAreStored
<1>4. \A f \in Executions : /\ executions'[f] = IF f = e THEN x ELSE executions[f]
                            /\ routing'[f] = IF f = e THEN [at |-> "link", to |-> to] ELSE routing[f]
  BY DEF Complete, Inv, TypeOK
<1>5. LiveTasks' = LiveTasks /\ LiveThreads' = LiveThreads /\ LiveProjects' = LiveProjects
  BY DEF Complete, LiveTasks, LiveThreads, LiveProjects
<1>6. TypeOK' /\ LimitsKept'
  <2>1. [at |-> "link", to |-> to] \in Routings
    BY <1>1 DEF Routings
  <2> QED
    BY <2>1, <1>3, <1>5 DEF Complete, Inv, TypeOK, LimitsKept
<1>7. ReferencesResolve'
  <2>1. \A f \in Executions : Stored(executions'[f]) =>
          executions'[f].task \in LiveTasks' /\ executions'[f].thread \in LiveThreads' \cup {None}
    BY <1>3, <1>4, <1>5 DEF Inv, ReferencesResolve, Complete
  <2> QED
    BY <2>1, <1>5 DEF Complete, Inv, ReferencesResolve, References, Stored
<1>8. ASSUME NEW f \in Executions PROVE RoutingSound(f)'
  <2>1. Told(f)' = Told(f) /\ threads' = threads
    BY DEF Complete, Told
  <2>2. CASE f = e
    <3>1. Told(e) = {} /\ executions[e].thread = None
      BY DEF Complete, Inv, RoutingSound
    <3>2. threads[to] # "free" /\ executions'[e] # Free
      BY <1>1, <1>3, <1>4 DEF LiveThreads, Stored
    <3> DEFINE y == [at |-> "link", to |-> to]
    <3>3. y # None /\ y.at = "link" /\ y.to = to
      BY <1>1, MarksAssumption DEF Routings
    <3>4. executions'[e] = x /\ routing'[e] = y
      BY <1>4
    <3>5. x.done = TRUE /\ x.thread = None
      BY <3>1, <1>3
    <3> HIDE DEF x, y, to
    <3>6. /\ executions'[e].done = TRUE /\ executions'[e].thread = None
          /\ routing'[e] # None /\ routing'[e].at = "link" /\ routing'[e].to = to
      BY <3>3, <3>4, <3>5
    <3>7. threads'[routing'[e].to] # "free" /\ Told(e)' = {} /\ executions'[e] # Free
      BY <2>1, <2>2, <3>1, <3>2, <3>6
    <3>8. RoutingSound(e)'
      BY <3>6, <3>7 DEF RoutingSound
    <3> QED
      BY <2>2, <3>8
  <2>3. CASE f # e
    BY <2>1, <2>3, <1>4, <1>5 DEF Inv, RoutingSound, Stored
  <2> QED
    BY <2>2, <2>3
<1> QED
  BY <1>6, <1>7, <1>8 DEF Inv

\* The execution belongs to the thread, or the call throws and there is no route.
LEMMA LinkKeepsInv ==
  ASSUME Inv, NEW e \in Executions, LinkExecutionToThread(e) PROVE Inv'
<1>1. /\ routing[e] \in Routings /\ RoutingSound(e)
      /\ routing[e].at = "link" /\ routing[e].to \in Threads
  BY DEF LinkExecutionToThread, Inv, TypeOK, Routings
<1>2. LiveTasks' = LiveTasks /\ LiveThreads' = LiveThreads /\ LiveProjects' = LiveProjects
  BY DEF LinkExecutionToThread, LiveTasks, LiveThreads, LiveProjects
<1>3. \A f \in Executions : Told(f)' = Told(f) /\ threads' = threads
  BY DEF LinkExecutionToThread, Told
<1>4. CASE Stored(executions[e]) /\ routing[e].to \in LiveThreads
  <2> DEFINE x == [executions[e] EXCEPT !.thread = routing[e].to]
             y == [routing[e] EXCEPT !.at = "append"]
  <2>1. executions[e] \in ExecutionRows
    BY <1>4 DEF Inv, TypeOK, Stored, Marks
  <2>2. /\ x \in ExecutionRows /\ x.task = executions[e].task
        /\ x.done = executions[e].done /\ x.thread = routing[e].to
    BY <2>1, <1>1 DEF ExecutionRows
  <2>3. Stored(x)
    BY <2>2, RowsAreStored
  <2>4. y \in Routings /\ y.at = "append" /\ y.to = routing[e].to /\ y # None
    BY <1>1, MarksAssumption DEF Routings
  <2>5. \A f \in Executions : /\ executions'[f] = IF f = e THEN x ELSE executions[f]
                              /\ routing'[f] = IF f = e THEN y ELSE routing[f]
    BY <1>4 DEF LinkExecutionToThread, Inv, TypeOK
  <2>6. TypeOK' /\ LimitsKept'
    BY <1>2, <1>4, <2>2, <2>4 DEF LinkExecutionToThread, Inv, TypeOK, LimitsKept
  <2>7. ReferencesResolve'
    <3>1. \A f \in Executions : Stored(executions'[f]) =>
            executions'[f].task \in LiveTasks' /\ executions'[f].thread \in LiveThreads' \cup {None}
      BY <1>2, <1>4, <2>2, <2>5 DEF Inv, ReferencesResolve
    <3> QED
      BY <3>1, <1>2 DEF LinkExecutionToThread, Inv, ReferencesResolve, References, Stored
  <2>8. ASSUME NEW f \in Executions PROVE RoutingSound(f)'
    <3>1. CASE f = e
      <4>1. executions'[e] # Free /\ executions[e].done /\ Told(e) = {} /\ routing[e] # None
        BY <1>1, <1>4, <2>3, <2>5 DEF RoutingSound, Stored, LinkExecutionToThread
      <4>2. threads[y.to] # "free"
        BY <1>1, <2>4, <4>1 DEF RoutingSound
      <4> QED
        BY <1>2, <1>3, <1>4, <2>2, <2>4, <2>5, <3>1, <4>1, <4>2 DEF RoutingSound
    <3>2. CASE f # e
      BY <1>2, <1>3, <2>5, <3>2 DEF Inv, RoutingSound, Stored
    <3> QED
      BY <3>1, <3>2
  <2> QED
    BY <2>6, <2>7, <2>8 DEF Inv
<1>5. CASE ~(Stored(executions[e]) /\ routing[e].to \in LiveThreads)
  <2>1. /\ executions' = executions
        /\ \A f \in Executions : routing'[f] = IF f = e THEN None ELSE routing[f]
    BY <1>5 DEF LinkExecutionToThread, Inv, TypeOK
  <2>2. TypeOK' /\ LimitsKept'
    BY <1>2, <1>5 DEF LinkExecutionToThread, Inv, TypeOK, LimitsKept
  <2>3. ReferencesResolve'
    BY <1>2, <2>1 DEF LinkExecutionToThread, Inv, ReferencesResolve, References, Stored
  <2>4. ASSUME NEW f \in Executions PROVE RoutingSound(f)'
    <3>1. CASE f = e
      <4>1. routing[e] # None
        BY DEF LinkExecutionToThread
      <4> QED
        BY <1>1, <1>3, <2>1, <3>1, <4>1 DEF RoutingSound, Stored
    <3>2. CASE f # e
      BY <1>2, <1>3, <2>1, <3>2 DEF Inv, RoutingSound, Stored
    <3> QED
      BY <3>1, <3>2
  <2> QED
    BY <2>2, <2>3, <2>4 DEF Inv
<1> QED
  BY <1>4, <1>5

\* The summary arrives in the thread the execution belongs to, or in none with it.
LEMMA AppendKeepsInv ==
  ASSUME Inv, NEW e \in Executions, AppendThreadMessage(e) PROVE Inv'
<1>1. /\ routing[e] \in Routings /\ routing[e] # None /\ RoutingSound(e)
      /\ routing[e].at = "append" /\ routing[e].to \in Threads
  BY DEF AppendThreadMessage, Inv, TypeOK, Routings
<1>2. LiveTasks' = LiveTasks /\ LiveThreads' = LiveThreads /\ LiveProjects' = LiveProjects
  BY DEF AppendThreadMessage, LiveTasks, LiveThreads, LiveProjects
<1>3. /\ executions' = executions /\ threads' = threads
      /\ \A f \in Executions : routing'[f] = IF f = e THEN None ELSE routing[f]
  BY DEF AppendThreadMessage, Inv, TypeOK
<1>4. notes' = notes \cup (IF routing[e].to \in LiveThreads THEN {<<e, routing[e].to>>} ELSE {})
  BY DEF AppendThreadMessage
<1>5. \A f \in Executions : Told(f)' =
        IF f = e /\ routing[e].to \in LiveThreads THEN Told(f) \cup {routing[e].to} ELSE Told(f)
  BY <1>1, <1>4 DEF Told
<1>6. TypeOK' /\ LimitsKept'
  BY <1>1, <1>2, <1>4 DEF AppendThreadMessage, Inv, TypeOK, LimitsKept
<1>7. ReferencesResolve'
  <2>1. \A m \in notes' : m[2] \in LiveThreads'
    BY <1>2, <1>4 DEF Inv, ReferencesResolve
  <2> QED
    BY <2>1, <1>2 DEF AppendThreadMessage, Inv, ReferencesResolve, References, Stored
<1>8. ASSUME NEW f \in Executions PROVE RoutingSound(f)'
  <2>1. CASE f = e
    <3>1. routing'[e] = None
      BY <1>3
    <3>2. executions[e] # Free
      BY <1>1 DEF RoutingSound
    <3>3. CASE Stored(executions[e])
      <4>1. Told(e) = {} /\ executions[e].done
        BY <1>1, <3>3 DEF RoutingSound
      <4>2. executions[e].thread = IF routing[e].to \in LiveThreads THEN routing[e].to ELSE None
        BY <1>1, <3>3 DEF RoutingSound
      <4>3. routing[e].to # None
        BY <1>1, MarksAssumption
      <4> QED
        BY <1>3, <1>5, <2>1, <3>1, <3>2, <4>1, <4>2, <4>3 DEF RoutingSound
    <3>4. CASE ~Stored(executions[e])
      BY <1>3, <2>1, <3>1, <3>2, <3>4 DEF RoutingSound, Stored
    <3> QED
      BY <3>3, <3>4
  <2>2. CASE f # e
    BY <1>2, <1>3, <1>5, <2>2 DEF Inv, RoutingSound, Stored
  <2> QED
    BY <2>1, <2>2
<1> QED
  BY <1>6, <1>7, <1>8 DEF Inv

\* The scheduler's jobs and the open editor: no row changes.
LEMMA QuietKeepsInv ==
  ASSUME Inv, StartAll \/ Stop \/ CloseEditor \/ \E t \in Tasks : OpenEditor(t)
  PROVE  Inv'
<1>1. UNCHANGED <<tasks, threads, projects, executions, notes, routing>>
  BY DEF StartAll, Stop, CloseEditor, OpenEditor
<1>2. up' \in BOOLEAN /\ jobs' \subseteq Tasks
  BY DEF StartAll, Stop, CloseEditor, OpenEditor, Inv, TypeOK, LiveTasks
<1>3. form' \in [task: Tasks, enabled: BOOLEAN, timeout: Nat, thread: Threads] \cup {None}
  <2>1. CASE StartAll \/ Stop \/ CloseEditor
    BY <2>1 DEF StartAll, Stop, CloseEditor, Inv, TypeOK
  <2>2. ASSUME NEW t \in Tasks, OpenEditor(t) PROVE form' \in [task: Tasks, enabled: BOOLEAN, timeout: Nat, thread: Threads]
    <3>1. tasks[t] \in TaskRows
      BY <2>2 DEF OpenEditor, Inv, TypeOK, LiveTasks, Stored, Marks
    <3>2. PICK current \in LiveThreads \cup {None} :
            form' = [task |-> t, enabled |-> tasks[t].enabled, timeout |-> tasks[t].timeout,
                     thread |-> IF tasks[t].thread # None THEN tasks[t].thread
                                ELSE IF current # None THEN current ELSE MAIN_THREAD_ID]
      BY <2>2 DEF OpenEditor
    <3>3. /\ tasks[t].enabled \in BOOLEAN /\ tasks[t].timeout \in Nat
          /\ tasks[t].thread \in Threads \cup {None} /\ current \in Threads \cup {None}
      BY <3>1 DEF TaskRows, LiveThreads
    <3> QED
      BY <3>2, <3>3, MainAssumption
  <2> QED
    BY <2>1, <2>2
<1>4. TypeOK'
  BY <1>1, <1>2, <1>3 DEF Inv, TypeOK
<1>5. LiveTasks' = LiveTasks /\ LiveThreads' = LiveThreads /\ LiveProjects' = LiveProjects
  BY <1>1 DEF LiveTasks, LiveThreads, LiveProjects
<1> QED
  BY <1>1, <1>4, <1>5 DEF Inv, ReferencesResolve, References, LimitsKept, RoutingSound, Told, Stored
-----------------------------------------------------------------------------
\* At first there is the Main thread, and nothing to tell.
LEMMA InitHasInv == ASSUME Init PROVE Inv
<1>1. LiveTasks = {} /\ LiveThreads = {MAIN_THREAD_ID}
  BY MainAssumption DEF Init, LiveTasks, LiveThreads, Stored
<1>2. TypeOK
  BY DEF Init, TypeOK, Marks, States
<1>3. \A e \in Executions : ~Stored(executions[e]) /\ Told(e) = {} /\ routing[e] = None
  BY DEF Init, Stored, Told
<1>4. ReferencesResolve /\ LimitsKept
  BY <1>1, <1>3 DEF Init, ReferencesResolve, LimitsKept
<1> QED
  BY <1>2, <1>3, <1>4 DEF Inv, RoutingSound

\* No step of any of the processes breaks it.
LEMMA StepKeepsInv == ASSUME Inv, [Next]_vars PROVE Inv'
<1>1. CASE UNCHANGED vars
  BY <1>1 DEF vars, Inv, TypeOK, ReferencesResolve, References, LimitsKept, RoutingSound, Told,
              LiveTasks, LiveThreads, LiveProjects, Stored
<1>2. CASE EditStep
  BY <1>2, EditStepKeepsInv
<1>3. CASE \E t \in Tasks : DeleteTask(t)
  BY <1>3, DeleteTaskKeepsInv
<1>4. CASE \E t \in Tasks, e \in Executions : SubmitTask(t, e) \/ Tick(t, e)
  BY <1>4, InsertKeepsInv DEF SubmitTask, Tick
<1>5. CASE \E h \in Threads : DeleteThread(h)
  BY <1>5, DeleteThreadKeepsInv
<1>6. CASE (\E h \in Threads : CreateThread(h)) \/ (\E p \in Projects : CreateProject(p))
  BY <1>6, CreationKeepsInv
<1>7. CASE \E p \in Projects : DeleteProject(p)
  BY <1>7, DeleteProjectKeepsInv
<1>8. CASE \E e \in Executions : Complete(e) \/ LinkExecutionToThread(e) \/ AppendThreadMessage(e)
  BY <1>8, CompleteKeepsInv, LinkKeepsInv, AppendKeepsInv
<1>9. CASE StartAll \/ Stop \/ CloseEditor \/ \E t \in Tasks : OpenEditor(t)
  BY <1>9, QuietKeepsInv
<1> QED
  BY <1>1, <1>2, <1>3, <1>4, <1>5, <1>6, <1>7, <1>8, <1>9 DEF Next, EditStep

\* Whatever the users, the scheduler and the routing of outputs do, and in whatever
\* order, the catalogue stays sound.
THEOREM CatalogueInv == Spec => []Inv
<1>1. Init => Inv
  BY InitHasInv
<1>2. Inv /\ [Next]_vars => Inv'
  BY StepKeepsInv
<1> QED
  BY <1>1, <1>2, PTL DEF Spec

\* The rows, jobs and forms are of their types.
THEOREM CatalogueTypes == Spec => []TypeOK
<1>1. Inv => TypeOK
  BY DEF Inv
<1> QED
  BY <1>1, CatalogueInv, PTL

\* No reference dangles, however many tasks, threads, projects and executions there
\* are and in whatever order they are deleted.
THEOREM NothingDangles == Spec => []ReferencesResolve
<1>1. Inv => ReferencesResolve
  BY DEF Inv
<1> QED
  BY <1>1, CatalogueInv, PTL

\* The limits hold of every stored task, for every number a caller may send.
THEOREM NumbersStayInLimits == Spec => []LimitsKept
<1>1. Inv => LimitsKept
  BY DEF Inv
<1> QED
  BY <1>1, CatalogueInv, PTL

\* A thread tells of exactly the executions that are routed to it.
THEOREM ThreadsAndExecutionsAgree == Spec => []ThreadTellsOfItsExecutions
<1>1. Inv => ThreadTellsOfItsExecutions
  <2> SUFFICES ASSUME Inv, NEW e \in Executions, NEW h \in Threads,
                      Stored(executions[e]), routing[e] = None
               PROVE  executions[e].thread = h <=> <<e, h>> \in notes
    BY DEF ThreadTellsOfItsExecutions
  <2>1. IF executions[e].thread = None THEN Told(e) = {} ELSE Told(e) = {executions[e].thread}
    BY DEF Inv, RoutingSound
  <2>2. h # None
    BY MarksAssumption
  <2> QED
    BY <2>1, <2>2 DEF Told
<1> QED
  BY <1>1, CatalogueInv, PTL

\* A save never turns a task on or off.
THEOREM SavesLeaveSwitches == Spec => SaveLeavesSwitchAlone
<1> DEFINE Alone == form # None /\ form' = None =>
                      \A t \in LiveTasks : tasks'[t].enabled = tasks[t].enabled
<1>1. Inv /\ [Next]_vars => Alone
  <2> SUFFICES ASSUME Inv, [Next]_vars, form # None, form' = None, NEW t \in LiveTasks
               PROVE  tasks'[t].enabled = tasks[t].enabled
    OBVIOUS
  <2>1. HandleSave \/ UNCHANGED tasks
    BY DEF Next, vars, CreateTask, CreateTaskCommand, CreateTaskTool, CreateTaskFromTemplate,
           UpdateTask, UpdateTaskCommand, UpdateTaskTool, EnableTask, ToggleTask, DeleteTask,
           OpenEditor, SubmitTask, Tick, Insert, CreateThread, DeleteThread, CreateProject,
           DeleteProject, Complete, LinkExecutionToThread, AppendThreadMessage, StartAll, Stop,
           CloseEditor
  <2>2. CASE HandleSave
    <3>1. PICK c \in BOOLEAN : tasks' = [tasks EXCEPT ![form.task] = Saved(c)]
      BY <2>2 DEF HandleSave, StoreTask
    <3>2. tasks[form.task] \in TaskRows
      BY <2>2 DEF HandleSave, Inv, TypeOK, LiveTasks, Stored, Marks
    <3>3. Saved(c).enabled = tasks[form.task].enabled
      BY <3>2 DEF Saved, TaskRows
    <3>4. tasks'[t] = IF t = form.task THEN Saved(c) ELSE tasks[t]
      BY <3>1 DEF Inv, TypeOK, LiveTasks
    <3> QED
      BY <3>3, <3>4
  <2>3. CASE UNCHANGED tasks
    BY <2>3
  <2> QED
    BY <2>1, <2>2, <2>3
<1> QED
  BY <1>1, CatalogueInv, PTL DEF Spec, SaveLeavesSwitchAlone
-------------------------------------------------------------------------------
(***************************************************************************)
(* What opening the database guarantees, for any number of processes, tasks *)
(* and executions.                                                         *)
(***************************************************************************)
\* What is recorded, and what a process has behind it, is in the schema.
Behind ==
  /\ 1 .. version \subseteq schema
  /\ \A p \in Procs : pc[p] = "migrating" => todo[p] > 0 /\ 1 .. (todo[p] - 1) \subseteq schema
  /\ OpenIsCurrent

Columns ==
  /\ version \in 0 .. 5 /\ schema \subseteq 1 .. 5
  /\ pc \in [Procs -> {"closed", "migrating", "open"}]
  /\ todo \in [Procs -> 0 .. 6]

OpeningInv == Columns /\ Behind

\* While one process has migrated at a time, it goes on from what is recorded.
Alone == ~misled =>
  /\ schema = 1 .. version
  /\ \A p, q \in Procs : pc[p] = "migrating" /\ pc[q] = "migrating" => p = q
  /\ \A p \in Procs : pc[p] = "migrating" => todo[p] = version + 1

\* A new database: nothing recorded, nothing there.
LEMMA OpeningInit == MigrationsInit => OpeningInv
  BY SMT DEF MigrationsInit, OpeningInv, Columns, Behind, OpenIsCurrent, Latest

\* Every process adds the migrations it believes are missing, none takes one away.
LEMMA OpeningNext == OpeningInv /\ [MigrationsNext]_migrationsVars => OpeningInv'
<1> SUFFICES ASSUME OpeningInv, [MigrationsNext]_migrationsVars PROVE OpeningInv'  OBVIOUS
<1> USE DEF OpeningInv, Columns, Behind, OpenIsCurrent, Latest
<1>1. ASSUME NEW p \in Procs, Open(p) \/ OpenUnread(p) PROVE OpeningInv'
  <2>1. PICK n \in {version + 1, 1} :
          /\ pc' = [pc EXCEPT ![p] = "migrating"] /\ todo' = [todo EXCEPT ![p] = n]
          /\ UNCHANGED <<version, schema>>
    BY <1>1, Zenon DEF Open, OpenUnread
  <2>2. n \in 1 .. 6 /\ 1 .. (n - 1) \subseteq schema  BY SMT
  <2>3. QED  BY <2>1, <2>2, SMT
<1>2. ASSUME NEW p \in Procs, Migrate(p) PROVE OpeningInv'
  <2>1. /\ schema' = schema \cup {todo[p]} /\ version' = todo[p]
        /\ todo' = [todo EXCEPT ![p] = @ + 1] /\ pc' = pc
    BY <1>2, Zenon DEF Migrate
  <2>2. pc[p] = "migrating" /\ todo[p] \in 1 .. 5  BY <1>2, SMT DEF Migrate
  <2>3. Columns'
    <3>0. schema \subseteq 1 .. 5  OBVIOUS
    <3>1. schema' \subseteq 1 .. 5  BY <2>1, <2>2, <3>0, Zenon
    <3>2. todo' \in [Procs -> 0 .. 6]  BY <2>1, <2>2, SMT
    <3>3. QED  BY <2>1, <2>2, <3>1, <3>2
  <2>4. 1 .. version' \subseteq schema'
    BY <2>1, <2>2, SMT
  <2>5. \A q \in Procs : pc'[q] = "migrating" =>
          todo'[q] > 0 /\ 1 .. (todo'[q] - 1) \subseteq schema'
    BY <2>1, <2>2, SMT
  <2>6. OpenIsCurrent'
    <3> SUFFICES ASSUME NEW q \in Procs, pc[q] = "open" PROVE schema' = 1 .. 5
      BY <2>1
    <3>1. schema = 1 .. 5  OBVIOUS
    <3>2. QED  BY <2>1, <2>2, <3>1, SMT
  <2>7. QED  BY <2>3, <2>4, <2>5, <2>6
<1>3. ASSUME NEW p \in Procs, MigrationRaises(p) PROVE OpeningInv'
  BY <1>3, SMT DEF MigrationRaises
<1>4. ASSUME NEW p \in Procs, Opened(p) PROVE OpeningInv'
  <2>1. /\ UNCHANGED <<version, schema, todo>> /\ pc[p] = "migrating"
        /\ pc' = [pc EXCEPT ![p] = "open"] /\ todo[p] = 6
    BY <1>4, SMT DEF Opened
  <2>2. Columns'  BY <2>1
  <2>3. schema = 1 .. 5
    <3>1. schema \subseteq 1 .. 5 /\ 1 .. (todo[p] - 1) \subseteq schema  BY <2>1
    <3>2. 1 .. (todo[p] - 1) = 1 .. 5  BY <2>1
    <3>3. QED  BY <3>1, <3>2, Zenon
  <2>4. Behind'  BY <2>1, <2>3
  <2>5. QED  BY <2>2, <2>4
<1>5. ASSUME NEW p \in Procs, Exit(p) PROVE OpeningInv'
  BY <1>5, SMT DEF Exit
<1>6. ASSUME NEW p \in Procs, Work(p) PROVE OpeningInv'
  BY <1>6, SMT DEF Work
<1>7. ASSUME UNCHANGED migrationsVars PROVE OpeningInv'
  BY <1>7, SMT DEF migrationsVars
<1>8. QED  BY <1>1, <1>2, <1>3, <1>4, <1>5, <1>6, <1>7 DEF MigrationsNext, Starts

\* Rows of executions refer to rows of tasks; deleting tasks keeps it so.
LEMMA DeletingTasks ==
  ASSUME NEW d \in [tasks: SUBSET TaskIds, tasks_v3: SUBSET TaskIds, taskOf: [ExecutionIds -> TaskIds \cup {NULL}]],
         NEW gone \in SUBSET TaskIds,
         \A e \in ExecutionIds : d.taskOf[e] \in d.tasks \cup {NULL}
  PROVE  /\ DeleteTasks(d, gone) \in [tasks: SUBSET TaskIds, tasks_v3: SUBSET TaskIds,
                                      taskOf: [ExecutionIds -> TaskIds \cup {NULL}]]
         /\ DeleteTasks(d, gone).tasks = d.tasks \ gone /\ DeleteTasks(d, gone).tasks_v3 = d.tasks_v3
         /\ \A e \in ExecutionIds : DeleteTasks(d, gone).taskOf[e] \in (d.tasks \ gone) \cup {NULL}
<1> DEFINE r == [e \in ExecutionIds |-> IF d.taskOf[e] \in gone THEN NULL ELSE d.taskOf[e]]
<1>1. r \in [ExecutionIds -> TaskIds \cup {NULL}] /\ \A e \in ExecutionIds : r[e] \in (d.tasks \ gone) \cup {NULL}
  OBVIOUS
<1>2. DeleteTasks(d, gone) = [d EXCEPT !.tasks = d.tasks \ gone, !.taskOf = r]
  BY DEF DeleteTasks
<1> HIDE DEF r
<1>3. DeleteTasks(d, gone) = [tasks |-> d.tasks \ gone, tasks_v3 |-> d.tasks_v3, taskOf |-> r]
  BY <1>2
<1>4. d.tasks \ gone \in SUBSET TaskIds /\ d.tasks_v3 \in SUBSET TaskIds
  OBVIOUS
<1> QED
  BY <1>1, <1>3, <1>4

\* A migration keeps every task, and the foreign key.
LEMMA Migrated ==
  ASSUME db \in Databases, NEW n
  PROVE  Rows(n) \in Databases /\ Rows(n).tasks = db.tasks /\ (n # 3 => Rows(n) = db)
<1> DEFINE Shape == [tasks: SUBSET TaskIds, tasks_v3: SUBSET TaskIds, taskOf: [ExecutionIds -> TaskIds \cup {NULL}]]
           c == CopyTasks(db)
           d == DropTasks(c)
<1>1. db \in Shape /\ \A e \in ExecutionIds : db.taskOf[e] \in db.tasks \cup {NULL}
  BY DEF Databases
<1>2. /\ c \in Shape /\ c.tasks = db.tasks /\ c.tasks_v3 = db.tasks
      /\ \A e \in ExecutionIds : c.taskOf[e] \in c.tasks \cup {NULL}
  BY <1>1 DEF CopyTasks
<1> HIDE DEF c
<1>3. d \in Shape /\ d.tasks_v3 = db.tasks /\ \A e \in ExecutionIds : d.taskOf[e] = NULL
  <2>1. c.tasks \in SUBSET TaskIds /\ c.tasks \ c.tasks = {}
    BY <1>2
  <2> QED
    BY <1>2, <2>1, DeletingTasks DEF DropTasks
<1> HIDE DEF d
<1>4. RenameCopy(d) \in Databases /\ RenameCopy(d).tasks = db.tasks
  BY <1>1, <1>3 DEF RenameCopy, Databases
<1>5. CASE n = 3
  BY <1>4, <1>5 DEF Rows, Rebuilt, c, d
<1>6. CASE n # 3
  BY <1>6 DEF Rows
<1> QED
  BY <1>5, <1>6

\* The rows keep their types and their foreign key.
RowsKnown == db \in Databases /\ misled \in BOOLEAN

\* At first ...
LEMMA RowsKnownInit == MigrationsInit => RowsKnown
  BY Zenon DEF MigrationsInit, RowsKnown

\* ... and always, whoever migrates or works.
LEMMA RowsKnownNext == RowsKnown /\ [MigrationsNext]_migrationsVars => RowsKnown'
<1> SUFFICES ASSUME RowsKnown, [MigrationsNext]_migrationsVars PROVE RowsKnown'  OBVIOUS
<1>1. ASSUME NEW p \in Procs, Migrate(p) PROVE RowsKnown'
  <2>1. db' = Rows(todo[p]) /\ misled' = misled  BY <1>1, Zenon DEF Migrate
  <2>2. db' \in Databases  BY <2>1, Migrated, Zenon DEF RowsKnown
  <2>3. QED  BY <2>1, <2>2, Zenon DEF RowsKnown
<1>2. ASSUME NEW p \in Procs, Work(p) PROVE RowsKnown'
  <2>1. db \in Databases /\ misled' = misled /\ misled \in BOOLEAN  BY <1>2, Zenon DEF Work, RowsKnown
  <2>2. PICK t \in TaskIds :
          \/ db' = [db EXCEPT !.tasks = @ \cup {t}]
          \/ /\ t \in db.tasks
             /\ \E e \in ExecutionIds : db.taskOf[e] = NULL /\ db' = [db EXCEPT !.taskOf[e] = t]
          \/ db' = DeleteTasks(db, {t})
    BY <1>2, Zenon DEF Work
  <2>3. CASE db' = [db EXCEPT !.tasks = @ \cup {t}]
    <3>1. db' \in Databases  BY <2>1, <2>3 DEF Databases
    <3>2. QED  BY <2>1, <3>1, Zenon DEF RowsKnown
  <2>4. ASSUME t \in db.tasks, NEW e \in ExecutionIds, db' = [db EXCEPT !.taskOf[e] = t] PROVE RowsKnown'
    <3>1. db' \in Databases  BY <2>1, <2>4 DEF Databases
    <3>2. QED  BY <2>1, <3>1, Zenon DEF RowsKnown
  <2>5. CASE db' = DeleteTasks(db, {t})
    <3>1. db' \in Databases  BY <2>1, <2>5, DeletingTasks DEF Databases
    <3>2. QED  BY <2>1, <3>1, Zenon DEF RowsKnown
  <2>6. QED  BY <2>2, <2>3, <2>4, <2>5
<1>3. ASSUME NEW p \in Procs, Open(p) \/ OpenUnread(p) PROVE RowsKnown'
  BY <1>3, Zenon DEF Open, OpenUnread, RowsKnown
<1>4. QED
  BY <1>1, <1>2, <1>3, Zenon DEF MigrationsNext, Starts, MigrationRaises, Opened, Exit,
     migrationsVars, RowsKnown

\* The type invariant: in particular every execution there is refers to a task.
THEOREM MigrationsTypes == MigrationsSpec => []MigrationsTypeOK
<1>1. OpeningInv /\ RowsKnown => MigrationsTypeOK
  <2> SUFFICES ASSUME OpeningInv, RowsKnown PROVE MigrationsTypeOK  OBVIOUS
  <2>1. Columns  BY DEF OpeningInv
  <2>2. /\ version \in 0 .. Latest /\ schema \subseteq 1 .. Latest
        /\ pc \in [Procs -> {"closed", "migrating", "open"}] /\ todo \in [Procs -> 0 .. Latest + 1]
    BY <2>1, SMT DEF Columns, Latest
  <2>3. QED  BY <2>2, Zenon DEF RowsKnown, MigrationsTypeOK
<1>2. QED  BY OpeningInit, OpeningNext, RowsKnownInit, RowsKnownNext, <1>1, PTL DEF MigrationsSpec

\* A process that has the store open finds every table and column it names,
\* even when another process migrates, is killed or raises at the same time.
THEOREM StoreIsCurrent == MigrationsSpec => []OpenIsCurrent
<1>1. OpeningInv => OpenIsCurrent  BY DEF OpeningInv, Behind
<1>2. QED  BY OpeningInit, OpeningNext, <1>1, PTL DEF MigrationsSpec

\* One process at a time: what it does next is what is recorded plus one.
LEMMA AloneNext ==
  ASSUME OpeningInv, Alone, [MigrationsNext]_migrationsVars
  PROVE  Alone'
<1> USE DEF OpeningInv, Columns, Behind, Alone, Latest
<1>1. ASSUME NEW p \in Procs, Open(p) PROVE Alone'
  <2> SUFFICES ASSUME ~misled' PROVE Alone'  BY Zenon
  <2>1. ~misled /\ Migrating = {}  BY <1>1, Zenon DEF Open
  <2>2. \A q \in Procs : pc[q] # "migrating"  BY <2>1, Zenon DEF Migrating
  <2>3. schema = 1 .. version  BY <2>1, Zenon
  <2>4. /\ UNCHANGED <<version, schema>> /\ pc' = [pc EXCEPT ![p] = "migrating"]
        /\ todo' = [todo EXCEPT ![p] = version + 1]
    BY <1>1, Zenon DEF Open
  <2>5. /\ \A q \in Procs : pc'[q] = "migrating" => q = p
        /\ todo'[p] = version' + 1
    BY <2>2, <2>4, SMT
  <2>6. QED  BY <2>3, <2>4, <2>5, Zenon
<1>2. ASSUME NEW p \in Procs, Migrate(p) PROVE Alone'
  BY <1>2, SMT DEF Migrate
<1>3. ASSUME NEW p \in Procs, MigrationRaises(p) PROVE Alone'
  BY <1>3, SMT DEF MigrationRaises
<1>4. ASSUME NEW p \in Procs, Opened(p) PROVE Alone'
  BY <1>4, SMT DEF Opened
<1>5. ASSUME NEW p \in Procs, Exit(p) PROVE Alone'
  BY <1>5, SMT DEF Exit
<1>6. ASSUME NEW p \in Procs, Work(p) PROVE Alone'
  BY <1>6, SMT DEF Work
<1>7. ASSUME UNCHANGED migrationsVars PROVE Alone'
  BY <1>7, SMT DEF migrationsVars
<1>8. ASSUME NEW p \in Procs, OpenUnread(p) PROVE Alone'
  <2> SUFFICES ASSUME ~misled' PROVE Alone'  BY Zenon
  <2>1. ~misled /\ Migrating = {} /\ version = 0  BY <1>8, Zenon DEF OpenUnread
  <2>2. \A q \in Procs : pc[q] # "migrating"  BY <2>1, Zenon DEF Migrating
  <2>3. schema = 1 .. version  BY <2>1, Zenon
  <2>4. /\ UNCHANGED <<version, schema>> /\ pc' = [pc EXCEPT ![p] = "migrating"]
        /\ todo' = [todo EXCEPT ![p] = 1]
    BY <1>8, Zenon DEF OpenUnread
  <2>5. /\ \A q \in Procs : pc'[q] = "migrating" => q = p
        /\ todo'[p] = version' + 1
    BY <2>1, <2>2, <2>4, SMT
  <2>6. QED  BY <2>3, <2>4, <2>5, Zenon
<1>9. QED  BY <1>1, <1>2, <1>3, <1>4, <1>5, <1>6, <1>7, <1>8 DEF MigrationsNext, Starts

\* Until two processes migrate at the same time, or one of them cannot read
\* the version of an old database, the recorded version is
\* the schema's, whatever is killed or raises: each process can go on from it.
THEOREM RecordIsTrue == MigrationsSpec => []RecordedIsThere
<1>1. MigrationsInit => Alone
  BY SMT DEF MigrationsInit, Alone
<1>2. OpeningInv /\ Alone /\ [MigrationsNext]_migrationsVars => Alone'
  BY AloneNext
<1>3. Alone => RecordedIsThere  BY DEF Alone, RecordedIsThere
<1>4. QED  BY OpeningInit, OpeningNext, <1>1, <1>2, <1>3, PTL DEF MigrationsSpec

\* No migration loses a task, and none an execution once tasks is rebuilt, not
\* even the rebuild itself, run again by a process that was overtaken: the
\* column it reads is gone.
THEOREM RowsAreKept == MigrationsSpec => UpgradesKeepRows
<1>1. OpeningInv /\ RowsKnown /\ [MigrationsNext]_migrationsVars
        => [UNCHANGED todo \/ (db'.tasks = db.tasks /\ (3 \in schema => db' = db))]_migrationsVars
  <2> SUFFICES ASSUME OpeningInv, RowsKnown, [MigrationsNext]_migrationsVars
               PROVE  UNCHANGED todo \/ (db'.tasks = db.tasks /\ (3 \in schema => db' = db))
    OBVIOUS
  <2>1. ASSUME NEW p \in Procs, Migrate(p) PROVE db'.tasks = db.tasks /\ (3 \in schema => db' = db)
    <3>1. db' = Rows(todo[p]) /\ Fits(todo[p])  BY <2>1, Zenon DEF Migrate
    <3>2. db \in Databases  BY DEF RowsKnown
    <3>3. db'.tasks = db.tasks /\ (todo[p] # 3 => db' = db)  BY <3>1, <3>2, Migrated
    <3>4. todo[p] = 3 => 3 \notin schema
      <4>1. Up[3].once  BY DEF Up
      <4>2. QED  BY <3>1, <4>1, Zenon DEF Fits
    <3>5. QED  BY <3>3, <3>4
  <2>2. ASSUME NEW p \in Procs, Open(p) \/ OpenUnread(p) PROVE db' = db
    BY <2>2, Zenon DEF Open, OpenUnread
  <2>3. QED  BY <2>1, <2>2 DEF MigrationsNext, Starts, MigrationRaises, Opened, Exit, Work, migrationsVars
<1>2. QED  BY OpeningInit, OpeningNext, RowsKnownInit, RowsKnownNext, <1>1, PTL DEF MigrationsSpec, UpgradesKeepRows
=============================================================================
