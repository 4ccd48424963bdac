-------------------------- MODULE CatalogueProperties --------------------------
(***************************************************************************)
(* What the users of the catalogue rely on.                                *)
(***************************************************************************)
EXTENDS Catalogue

Marks == {Free, Deleted}
States == {"free", "live", "gone"}

\* The rows of sqlite-store.ts, the jobs of scheduler.ts, the fields of TaskEditor.tsx.
TypeOK ==
  /\ tasks \in [Tasks -> TaskRows \cup Marks]
  /\ executions \in [Executions -> ExecutionRows \cup Marks]
  /\ threads \in [Threads -> States] /\ projects \in [Projects -> States]
  /\ notes \subseteq Executions \X Threads
  /\ routing \in [Executions -> Routings \cup {None}]
  /\ up \in BOOLEAN /\ jobs \subseteq Tasks
  /\ form \in [task: Tasks, enabled: BOOLEAN, timeout: Nat, thread: Threads] \cup {None}

\* Whatever is deleted by whom, while others create, update and route: every
\* row refers to rows that exist, and the Main thread exists.
ReferencesResolve ==
  /\ MAIN_THREAD_ID \in LiveThreads
  /\ \A t \in LiveTasks : References(tasks[t])
  /\ \A e \in Executions : Stored(executions[e]) =>
       executions[e].task \in LiveTasks /\ executions[e].thread \in LiveThreads \cup {None}
  /\ \A m \in notes : m[2] \in LiveThreads

\* A task is stored with a timeout inside the limits, whichever of the five ways
\* in wrote it last (two of them bypass sanitizeInput).  It says nothing of the budget
\* and the turns of agentConfig, which a template sets without any limit.
LimitsKept == \A t \in LiveTasks : tasks[t].timeout \in MIN_TIMEOUT_MS .. MAX_TIMEOUT_MS

\* Once its output is routed, an execution belongs to a thread exactly when its
\* summary is in that thread, although tasks are retargeted and threads deleted
\* between the three statements of the routing.
ThreadTellsOfItsExecutions ==
  \A e \in Executions, h \in Threads :
    Stored(executions[e]) /\ routing[e] = None =>
      (executions[e].thread = h <=> <<e, h>> \in notes)

\* Saving an editor that was opened before somebody else disabled the task does
\* not enable it again.
SaveLeavesSwitchAlone ==
  [][form # None /\ form' = None =>
       \A t \in LiveTasks : tasks'[t].enabled = tasks[t].enabled]_vars

=============================================================================
