----------------------------- MODULE Orchestrator -----------------------------
(***************************************************************************)
(* The orchestrator inside the server process (`baara start`): the         *)
(* executions table of the SQLite store, the retry timers, the agent loop, *)
(* direct runs, HTTP routes and MCP tools that share one                   *)
(* OrchestratorService.                                                    *)
(*                                                                         *)
(* Every OrchestratorService method runs to completion without an interior *)
(* await and the store is synchronous, so inside the process one method    *)
(* call is one step.  A method that dies half-way, because the process is  *)
(* killed or because a statement raises, is the corresponding ...Cut       *)
(* action.  This module is about a server that is the only process to      *)
(* write executions; CLI and stdio MCP processes that open the same file   *)
(* come between two statements of a method, and that is the subject of     *)
(* ExecutionWrites.                                                        *)
(***************************************************************************)
EXTENDS Integers, FiniteSets, ExecutionStatus

CONSTANTS
  Execs,         \* ids of execution rows (random UUIDs: only identity matters)
  NoExec,        \* no execution
  Tasks,         \* ids of task rows
  NoTask,        \* task of an id that names no row
  MaxRetries,    \* tasks.max_retries
  Polled,        \* tasks whose target queue is in queue_info, where any name may be put
  Rank,          \* place of a task in the poll: its queue, then its priority
  LocalAgents,   \* AgentService loops on a DevTransport (start.ts makes one)
  RemoteAgents,  \* agents that poll through HttpTransport
  Direct,        \* calls of runDirect in flight
  MaxRoots,      \* bound: executions created other than by a retry timer
  MaxAsks,       \* bound: unanswered input requests of one execution
  MaxFaults      \* bound: crashes, kills and failing statements

Agents  == LocalAgents \cup RemoteAgents
Runners == Agents \cup Direct

ASSUME ConstantsAssumption ==
  /\ NoExec \notin Execs
  /\ NoTask \notin Tasks
  /\ MaxRetries \in [Tasks -> Int]
  /\ Polled \subseteq Tasks
  /\ Rank \in [Tasks -> Nat]
  /\ Agents \cap Direct = {} /\ LocalAgents \cap RemoteAgents = {}
  /\ MaxRoots \in Nat /\ MaxAsks \in Nat /\ MaxFaults \in Nat

VARIABLES
  tasks,    \* the task rows that exist
  status,   \* executions.status; "none" before the insert, "gone" after the delete
  task,     \* executions.task_id
  attempt,  \* executions.attempt
  parent,   \* history: the execution whose automatic retry created the row
  origin,   \* history: the first of the attempts the row belongs to
  pending,  \* number of input_requests rows of the execution still 'pending'
  timers,   \* QueueManager.timerHandles
  pc,       \* what a runner is doing
  job,      \* the execution a runner works on
  faults    \* history: faults so far

rowVars == <<status, task, attempt, parent, origin>>
vars    == <<tasks, status, task, attempt, parent, origin, pending, timers, pc, job, faults>>

TypeOK ==
  /\ tasks \in SUBSET Tasks
  /\ status \in [Execs -> Status \cup {"none", "gone"}]
  /\ task \in [Execs -> Tasks \cup {NoTask}]
  /\ attempt \in [Execs -> Nat]
  /\ parent \in [Execs -> Execs \cup {NoExec}]
  /\ origin \in [Execs -> Execs \cup {NoExec}]
  /\ pending \in [Execs -> Nat]
  /\ timers \in SUBSET Execs
  /\ pc \in [Runners -> {"idle", "fetched", "working", "waiting", "failing"}]
  /\ job \in [Runners -> Execs \cup {NoExec}]
  /\ faults \in 0..MaxFaults
  /\ \A e \in Execs :
       /\ status[e] \in Status => task[e] \in tasks /\ attempt[e] >= 1
       /\ status[e] = "none" => parent[e] = NoExec
  /\ \A r \in Runners : pc[r] = "idle" <=> job[r] = NoExec

Init ==
  /\ tasks = Tasks
  /\ status = [e \in Execs |-> "none"]
  /\ task = [e \in Execs |-> NoTask]
  /\ attempt = [e \in Execs |-> 0]
  /\ parent = [e \in Execs |-> NoExec]
  /\ origin = [e \in Execs |-> NoExec]
  /\ pending = [e \in Execs |-> 0]
  /\ timers = {}
  /\ pc = [r \in Runners |-> "idle"]
  /\ job = [r \in Runners |-> NoExec]
  /\ faults = 0

-------------------------------------------------------------------------------
(* Rows *)

Exists(e) == status[e] \in Status
Fresh     == {e \in Execs : status[e] = "none"}
Roots     == {e \in Execs : status[e] # "none" /\ parent[e] = NoExec}

\* store.createExecution(n, ...), then updateExecutionStatus up to status s.
Insert(n, t, att, p, s) ==
  /\ status' = [status EXCEPT ![n] = s]
  /\ task' = [task EXCEPT ![n] = t]
  /\ attempt' = [attempt EXCEPT ![n] = att]
  /\ parent' = [parent EXCEPT ![n] = p]
  /\ origin' = [origin EXCEPT ![n] = IF p = NoExec THEN n ELSE origin[p]]

SetStatus(e, s) ==
  /\ status' = [status EXCEPT ![e] = s]
  /\ UNCHANGED <<task, attempt, parent, origin>>

\* A row no retry timer created, within the bound on such rows.
InsertRoot(n, t, att, s) ==
  /\ n \in Fresh
  /\ Cardinality(Roots) < MaxRoots
  /\ Insert(n, t, att, NoExec, s)

Become(r, state, e) ==
  /\ pc' = [pc EXCEPT ![r] = state]
  /\ job' = [job EXCEPT ![r] = e]

Release(r) == Become(r, "idle", NoExec)

Fault == faults < MaxFaults /\ faults' = faults + 1

-------------------------------------------------------------------------------
(* Creating executions *)

\* submitTask(), and a tick of the Scheduler.
SubmitTask(t) ==
  /\ t \in tasks
  /\ \E n \in Execs : InsertRoot(n, t, 1, "queued")
  /\ UNCHANGED <<tasks, pending, timers, pc, job, faults>>

\* runDirect(): created -> queued -> assigned -> running without an await.
RunDirect(d, t) ==
  /\ t \in tasks
  /\ pc[d] = "idle"
  /\ \E n \in Execs : InsertRoot(n, t, 1, "running") /\ Become(d, "working", n)
  /\ UNCHANGED <<tasks, pending, timers, faults>>

Retryable == {"failed", "timed_out", "dead_lettered"}

\* retryExecution(): a new row beside the old one, which keeps its status.
RetryExecution(e) ==
  /\ status[e] \in Retryable
  /\ \E n \in Execs : InsertRoot(n, task[e], attempt[e] + 1, "queued")
  /\ UNCHANGED <<tasks, pending, timers, pc, job, faults>>

-------------------------------------------------------------------------------
(* Polling and starting *)

\* Mutation of Queued: an assigned row can be dequeued again.
QueuedOrAssigned == {e \in Execs : status[e] \in {"queued", "assigned"} /\ task[e] \in Polled}

\* What waits in a queue that matchTask() goes through: those of listQueues()
\* but visibility and dlq.  A target queue of another name is accepted and
\* never polled.
Queued == {e \in Execs : status[e] = "queued" /\ task[e] \in Polled}

\* What matchTask() may dequeue: ties in queue and priority are broken by a
\* created_at of one-second resolution, so any of them may come first.
Heads == {e \in Queued : \A f \in Queued : Rank[task[e]] <= Rank[task[f]]}

\* POST /internal/poll answers with the assignment itself, HttpTransport.pollTask
\* reads body.assignment: a remote agent sees undefined and backs off.
PollTask(a, e) ==
  IF a \in LocalAgents THEN Become(a, "fetched", e) ELSE UNCHANGED <<pc, job>>

\* A poll that finds work; the row of a remote agent stays assigned.
MatchTask(a) ==
  /\ pc[a] = "idle"
  /\ \E e \in Heads : SetStatus(e, "assigned") /\ PollTask(a, e)
  /\ UNCHANGED <<tasks, pending, timers, faults>>

\* startExecution(): throws unless the row is assigned.
StartExecution(a) ==
  /\ pc[a] = "fetched"
  /\ IF status[job[a]] = "assigned"
       THEN SetStatus(job[a], "running") /\ Become(a, "working", job[a])
       ELSE UNCHANGED rowVars /\ Become(a, "failing", job[a])
  /\ UNCHANGED <<tasks, pending, timers, faults>>

-------------------------------------------------------------------------------
(* Completion, retry and dead-lettering *)

\* Mutation of ShouldRetry: the first attempt counts as a retry of none.
ShouldRetryOnceMore(e) == MaxRetries[task[e]] > 0 /\ attempt[e] <= MaxRetries[task[e]] + 1

\* shouldRetry(): attempts count from 1.
ShouldRetry(e) == MaxRetries[task[e]] > 0 /\ attempt[e] <= MaxRetries[task[e]]

\* Mutation of Outcome: the failure out of attempts is not dead-lettered.
OutcomeWithoutDlq(e, r) ==
  IF r \in {"completed", "cancelled"} THEN r
  ELSE IF ShouldRetry(e) THEN "retry_scheduled" ELSE r

\* Where a running execution ends up when result r is reported: failures go on
\* through failed / timed_out to retry_scheduled or dead_lettered at once.
Outcome(e, r) ==
  IF r \in {"completed", "cancelled"} THEN r
  ELSE IF ShouldRetry(e) THEN "retry_scheduled" ELSE "dead_lettered"

\* scheduleRetry() arms a timer for it.
ArmTimer(e, r) ==
  timers' = IF Outcome(e, r) = "retry_scheduled" THEN timers \cup {e} ELSE timers

\* Mutation of Accepts: the late-report guard is missing.
AcceptsAny(e) == Exists(e)

\* handleExecutionComplete() accepts a report for an execution it read as running.
Accepts(e) == status[e] = "running"

\* It refuses any other; one read as waiting_for_input was forced to running
\* first, but the test that follows still uses the status read before.
Refuse(e) ==
  IF status[e] = "waiting_for_input" THEN SetStatus(e, "running") ELSE UNCHANGED rowVars

Results == {"completed", "failed", "timed_out", "cancelled"}

\* Runner d reports result r.  An agent whose report is refused goes on to
\* report a failure (runLoop's catch); a direct run just throws to its caller.
Complete(d, r) ==
  /\ pc[d] = "working"
  /\ LET e == job[d] IN
       IF Accepts(e)
         THEN SetStatus(e, Outcome(e, r)) /\ ArmTimer(e, r) /\ Release(d)
         ELSE /\ Refuse(e)
              /\ UNCHANGED timers
              /\ IF d \in Agents THEN Become(d, "failing", e) ELSE Release(d)
  /\ UNCHANGED <<tasks, pending, faults>>

\* runLoop's catch: report "failed"; whatever happens to that report, move on.
ReportFailure(a) ==
  /\ pc[a] = "failing"
  /\ LET e == job[a] IN
       IF Accepts(e)
         THEN SetStatus(e, Outcome(e, "failed")) /\ ArmTimer(e, "failed")
         ELSE Refuse(e) /\ UNCHANGED timers
  /\ Release(a)
  /\ UNCHANGED <<tasks, pending, faults>>

\* Mutation of FireTimer: the handle stays in the map and fires again.
FireTimerRepeatedly(e) ==
  /\ e \in timers
  /\ IF status[e] = "retry_scheduled"
       THEN \E n \in Fresh : Insert(n, task[e], attempt[e] + 1, e, "queued")
       ELSE UNCHANGED rowVars
  /\ UNCHANGED <<tasks, pending, timers, pc, job, faults>>

\* QueueManager._fireTimer(): the old row stays retry_scheduled, the retry is
\* a new row.
FireTimer(e) ==
  /\ e \in timers
  /\ timers' = timers \ {e}
  /\ IF status[e] = "retry_scheduled"
       THEN \E n \in Fresh : Insert(n, task[e], attempt[e] + 1, e, "queued")
       ELSE UNCHANGED rowVars
  /\ UNCHANGED <<tasks, pending, pc, job, faults>>

-------------------------------------------------------------------------------
(* Health monitor *)

\* check() found e running past its timeout and recoverExecution() runs: out of
\* attempts it dead-letters e (through failed), else it asks for the transition
\* running -> retry_scheduled and, were that valid, would create the next attempt.
Recover(e) ==
  /\ status[e] = "running"
  /\ IF attempt[e] + 1 > MaxRetries[task[e]] + 1
       THEN SetStatus(e, "dead_lettered")
       ELSE IF Valid("running", "retry_scheduled")
         THEN \E n \in Fresh :
                /\ status' = [status EXCEPT ![e] = "retry_scheduled", ![n] = "queued"]
                /\ task' = [task EXCEPT ![n] = task[e]]
                /\ attempt' = [attempt EXCEPT ![n] = attempt[e] + 1]
                /\ parent' = [parent EXCEPT ![n] = e]
                /\ origin' = [origin EXCEPT ![n] = origin[e]]
         ELSE UNCHANGED rowVars
  /\ UNCHANGED <<tasks, pending, timers, pc, job, faults>>

-------------------------------------------------------------------------------
(* Operators *)

\* Mutation of CancelExecution: it clears every timer.
CancelClearsAll(e) ==
  /\ Exists(e) /\ status[e] \notin TERMINAL_STATUSES
  /\ timers' = {}
  /\ IF Valid(status[e], "cancelled") THEN SetStatus(e, "cancelled") ELSE UNCHANGED rowVars
  /\ UNCHANGED <<tasks, pending, pc, job, faults>>

\* cancelExecution().  Neither the runner nor a waiter is told.
CancelExecution(e) ==
  /\ Exists(e) /\ status[e] \notin TERMINAL_STATUSES
  /\ timers' = timers \ {e}
  /\ IF Valid(status[e], "cancelled") THEN SetStatus(e, "cancelled") ELSE UNCHANGED rowVars
  /\ UNCHANGED <<tasks, pending, pc, job, faults>>

\* Mutation of DeleteTask: nothing cascades.
DeleteWithoutCascade(t) ==
  /\ t \in tasks
  /\ tasks' = tasks \ {t}
  /\ UNCHANGED <<rowVars, pending, timers, pc, job, faults>>

\* deleteTask(): the foreign keys cascade to executions and input requests.
DeleteTask(t) ==
  /\ t \in tasks
  /\ tasks' = tasks \ {t}
  /\ LET Rows == {e \in Execs : task[e] = t} IN
       /\ status' = [e \in Execs |-> IF e \in Rows THEN "gone" ELSE status[e]]
       /\ pending' = [e \in Execs |-> IF e \in Rows THEN 0 ELSE pending[e]]
  /\ UNCHANGED <<task, attempt, parent, origin, timers, pc, job, faults>>

-------------------------------------------------------------------------------
(* Human in the loop *)

\* The runtime of a local agent asks: requestInput() inserts the request before
\* it tries the transition, so a refused one leaves a pending row behind.  A
\* runtime may let the exception through (failing) or handle it (working).
RequestInput(a) ==
  /\ pc[a] = "working"
  /\ LET e == job[a] IN
       /\ IF Exists(e)
            THEN pending[e] < MaxAsks /\ pending' = [pending EXCEPT ![e] = @ + 1]
            ELSE UNCHANGED pending
       /\ IF Exists(e) /\ Valid(status[e], "waiting_for_input")
            THEN SetStatus(e, "waiting_for_input") /\ Become(a, "waiting", e)
            ELSE /\ UNCHANGED rowVars
                 /\ \E state \in {"working", "failing"} : Become(a, state, e)
  /\ UNCHANGED <<tasks, timers, faults>>

\* Mutation of Answer: the execution is left waiting.
AnswerOnly(e) ==
  /\ Exists(e) /\ pending[e] > 0
  /\ pending' = [pending EXCEPT ![e] = @ - 1]
  /\ UNCHANGED rowVars

\* provideInput(): the request is answered before the transition is tried.
Answer(e) ==
  /\ Exists(e) /\ pending[e] > 0
  /\ pending' = [pending EXCEPT ![e] = @ - 1]
  /\ IF Valid(status[e], "running") THEN SetStatus(e, "running") ELSE UNCHANGED rowVars

\* POST /api/executions/:id/input also resolves the waiter of DevTransport,
\* unless provideInput() threw.
ProvideInput(e) ==
  /\ Answer(e)
  /\ pc' = [r \in Runners |->
              IF pc[r] = "waiting" /\ job[r] = e /\ Valid(status[e], "running")
                THEN "working" ELSE pc[r]]
  /\ UNCHANGED <<tasks, timers, job, faults>>

\* The provide_input tool of the server's MCP endpoint stops at provideInput().
ProvideInputTool(e) ==
  /\ Answer(e)
  /\ UNCHANGED <<tasks, timers, pc, job, faults>>

\* DevTransport's five minutes are over: the promise rejects, the store is not
\* told.
InputTimeout(a) ==
  /\ pc[a] = "waiting"
  /\ \E state \in {"working", "failing"} : Become(a, state, job[a])
  /\ UNCHANGED <<tasks, rowVars, pending, timers, faults>>

-------------------------------------------------------------------------------
(* Handlers that end half-way: their process is killed after the statement   *)
(* named here, or the next statement raises (no busy_timeout is set, so a    *)
(* write of another process is enough).  A kill is the cut followed by       *)
(* RestartServer.                                                            *)

\* submitTask, a cron tick: the row is inserted, not queued.
SubmitCut(t) ==
  /\ Fault
  /\ t \in tasks
  /\ \E n \in Execs : InsertRoot(n, t, 1, "created")
  /\ UNCHANGED <<tasks, pending, timers, pc, job>>

\* runDirect: the chain of transitions stops, and with it the run.
RunDirectCut(t) ==
  /\ Fault
  /\ t \in tasks
  /\ \E n \in Execs, s \in {"created", "queued", "assigned", "running"} : InsertRoot(n, t, 1, s)
  /\ UNCHANGED <<tasks, pending, timers, pc, job>>

\* retryExecution: as in submitTask.
RetryCut(e) ==
  /\ Fault
  /\ status[e] \in Retryable
  /\ \E n \in Execs : InsertRoot(n, task[e], attempt[e] + 1, "created")
  /\ UNCHANGED <<tasks, pending, timers, pc, job>>

\* matchTask: dequeued, but the agent never gets the assignment.
MatchCut(a) ==
  /\ Fault
  /\ pc[a] = "idle"
  /\ \E e \in Heads : SetStatus(e, "assigned")
  /\ UNCHANGED <<tasks, pending, timers, pc, job>>

\* startExecution: running, but the agent sees an exception.
StartCut(a) ==
  /\ Fault
  /\ pc[a] = "fetched" /\ status[job[a]] = "assigned"
  /\ SetStatus(job[a], "running") /\ Become(a, "failing", job[a])
  /\ UNCHANGED <<tasks, pending, timers>>

\* handleExecutionComplete: the reported status is written, a failure is neither
\* retried nor dead-lettered; an agent still has its failure report to make.
CompleteCut(d, r) ==
  /\ Fault
  /\ pc[d] = "working" /\ Accepts(job[d])
  /\ SetStatus(job[d], r)
  /\ IF d \in Agents THEN Become(d, "failing", job[d]) ELSE Release(d)
  /\ UNCHANGED <<tasks, pending, timers>>

\* The same in the report of runLoop's catch, after which the agent moves on.
ReportCut(a) ==
  /\ Fault
  /\ pc[a] = "failing" /\ Accepts(job[a])
  /\ SetStatus(job[a], "failed") /\ Release(a)
  /\ UNCHANGED <<tasks, pending, timers>>

\* _fireTimer: the retry is inserted, not queued.
FireCut(e) ==
  /\ Fault
  /\ e \in timers /\ status[e] = "retry_scheduled"
  /\ timers' = timers \ {e}
  /\ \E n \in Fresh : Insert(n, task[e], attempt[e] + 1, e, "created")
  /\ UNCHANGED <<tasks, pending, pc, job>>

\* recoverExecution: failed, not dead-lettered.
RecoverCut(e) ==
  /\ Fault
  /\ status[e] = "running" /\ attempt[e] + 1 > MaxRetries[task[e]] + 1
  /\ SetStatus(e, "failed")
  /\ UNCHANGED <<tasks, pending, timers, pc, job>>

\* cancelExecution: the timer is cleared, the status not written.
CancelCut(e) ==
  /\ Fault
  /\ e \in timers /\ status[e] = "retry_scheduled"
  /\ timers' = timers \ {e}
  /\ UNCHANGED <<tasks, rowVars, pending, pc, job>>

\* requestInput: the request is inserted, the status not written.
RequestCut(a) ==
  /\ Fault
  /\ pc[a] = "working" /\ Exists(job[a]) /\ pending[job[a]] < MaxAsks
  /\ pending' = [pending EXCEPT ![job[a]] = @ + 1]
  /\ \E state \in {"working", "failing"} : Become(a, state, job[a])
  /\ UNCHANGED <<tasks, rowVars, timers>>

\* provideInput: the request is answered, the status not written.
AnswerCut(e) ==
  /\ Fault
  /\ Exists(e) /\ pending[e] > 0
  /\ pending' = [pending EXCEPT ![e] = @ - 1]
  /\ UNCHANGED <<tasks, rowVars, timers, pc, job>>

-------------------------------------------------------------------------------
(* The process ends *)

\* The server is killed and started again: start() restores nothing.
RestartServer ==
  /\ Fault
  /\ timers' = {}
  /\ pc' = [r \in Runners |-> "idle"]
  /\ job' = [r \in Runners |-> NoExec]
  /\ UNCHANGED <<tasks, rowVars, pending>>

-------------------------------------------------------------------------------

Handlers ==
  \/ \E t \in Tasks : SubmitTask(t) \/ DeleteTask(t)
  \/ \E d \in Direct, t \in Tasks : RunDirect(d, t)
  \/ \E a \in Agents : MatchTask(a) \/ StartExecution(a) \/ ReportFailure(a)
  \/ \E a \in LocalAgents : RequestInput(a) \/ InputTimeout(a)
  \/ \E d \in Runners, r \in Results : Complete(d, r)
  \/ \E e \in Execs :
       \/ RetryExecution(e) \/ FireTimer(e) \/ Recover(e)
       \/ CancelExecution(e)
       \/ ProvideInput(e) \/ ProvideInputTool(e)

Faults ==
  \/ RestartServer
  \/ \E t \in Tasks : SubmitCut(t) \/ RunDirectCut(t)
  \/ \E a \in Agents : MatchCut(a) \/ StartCut(a) \/ ReportCut(a)
  \/ \E a \in LocalAgents : RequestCut(a)
  \/ \E d \in Runners, r \in Results : CompleteCut(d, r)
  \/ \E e \in Execs :
       RetryCut(e) \/ FireCut(e) \/ RecoverCut(e) \/ CancelCut(e) \/ AnswerCut(e)

Next == Handlers \/ Faults

Spec == Init /\ [][Next]_vars

(* Fairness.  A polling loop polls again and does what follows a poll, a     *)
(* reported failure is handled, an armed timer fires.  Nothing is assumed of *)
(* operators, clients, faults, and of the runtimes: whether a run ends is up *)
(* to them.                                                                  *)
Fairness ==
  /\ \A a \in Agents : WF_vars(MatchTask(a)) /\ WF_vars(StartExecution(a))
                        /\ WF_vars(ReportFailure(a))
  /\ \A e \in Execs : WF_vars(FireTimer(e))

FairSpec == Spec /\ Fairness

=============================================================================
