# baara-next in TLA+

baara-next runs tasks (prompts for an agent, shell commands, wasm modules) as
*executions*: rows of a SQLite table that several processes drive through a
state machine, with retries, crash recovery and human input, in front of a chat
and a web page. This directory models that machinery, checks it with TLC and
proves what matters most with TLAPS. Paths below are relative to `packages/`
unless they start with `docs/`.

## 1. The system

| component | state it keeps | operations | talks to |
|---|---|---|---|
| Store (`store/src`) | SQLite tables: tasks, executions, events, input_requests, threads, thread_messages, projects, templates, task_messages, queue_info, settings | one method per statement or small group; `dequeueExecution` is a transaction; every status write is validated against the transition table; five migrations | used directly by every process; WAL mode, foreign keys on, no busy timeout |
| Orchestrator service (`orchestrator/src/orchestrator-service.ts`) | none of its own; owns QueueManager, HealthMonitor, Scheduler | submitTask, runDirect, matchTask, startExecution, handleExecutionComplete, cancelExecution, retryExecution, recoverExecution, requestInput, provideInput, heartbeat | store, timers; called by agents, HTTP routes, MCP tools, CLI |
| Retry and timer queue (`retry.ts`, `queue-manager.ts`) | `timerHandles`, visibility buffer (memory) | scheduleRetry, enqueueTimer, cancelTimer, _fireTimer | store |
| Health monitor (`health-monitor.ts`) | executions.health_status | check every 10 s; calls recoverExecution on an overdue execution | store, orchestrator |
| Scheduler, task manager (`scheduler.ts`, `task-manager.ts`) | cron jobs (memory) | startAll, stop, ticks; CRUD with clamped numbers | store, orchestrator |
| Agent loop (`agent/src`) | current task | poll, start, run, report, heartbeat, ask | orchestrator through a transport |
| Transports (`transport/src`) | DevTransport: a map of waiters for input | pollTask, startExecution, completeExecution, requestInput, provideInput | orchestrator in process, or `/internal/*` over HTTP |
| Sandboxes and runtimes (`executor/src`) | processes, abort controllers, event queues | start, execute, sendCommand, cancel, stop, `events` | message bus, agent SDK, docker, shell |
| Message bus, checkpoints (`executor/src/message-bus.ts`) | task_messages rows | sendCommand, readPendingCommands, acknowledge, writeCheckpoint | store |
| HTTP server (`server/src`) | rate-limit buckets, WebSocket clients, pending permissions | REST routes, chat stream, permission answers | orchestrator, store, agent SDK |
| MCP server (`mcp/src`), CLI (`cli/src`) | `baara chat`: thread and session of the conversation | tools and commands; each process opens the store with an OrchestratorService of its own | store |
| Web UI (`web/src`) | stores of the chat and the executions, editor, sidebar | sendMessage, loadThread, respondToPermission, polling, cancel, retry, save | HTTP, SSE |

### What is hard here

* **One table, several processes.** The server, `baara tasks run`, the CLI's
  operator commands and stdio MCP servers share the rows but not the memory:
  retry timers, input waiters, cron jobs and agent loops belong to one of them.
* **Late parties.** Runners are not told of cancellations, dead-lettering or
  deletion and report later; timers fire after the row has changed; waiters give
  up while the row still waits; readers come after the events; a page handles
  answers to requests it has meanwhile overtaken.
* **Half-done handlers.** No handler is a transaction. A crash, or a statement
  that raises (SQLITE_BUSY: there is no busy timeout), stops it between two
  writes.
* **Retries are new rows.** The old row stays `retry_scheduled`, so that an
  attempt is retried once, within the budget and never while it still runs is
  the work of several guards in several files.
* **The same thing built twice.** A reply is assembled by the route and by the
  page; the badge, the list and the editor are copies of rows that others change.

What must hold, per component:

* lifecycle: inside a server an execution has one runner, settled is final, retries
  are single, consecutive, bounded and never overlap; what is scheduled happens;
* store, between processes: the log of a row is a sequence; a poll takes only what is
  queued; what is settled stays so once nobody is about to write what it looked up
  before; what is recorded of the schema is true and upgrades keep the rows; nothing
  refers to what is gone;
* health monitor: nothing overdue is missed, nothing punctual is ended;
* sandboxes: events are one stream that ends; no command is lost and the latest word
  holds; a pause ends; what a settled run leaves behind is known;
* human input: an answer reaches one ask, made before it; every ask ends;
* chat: nothing runs unasked; what was shown is what was stored; spinners stop;
* page: what it reports was true, what it shows becomes true.

## 2. The modules

| module | what it stands for |
|---|---|
| `ExecutionStatus` | the statuses and the transition table of `core/src/state-machine.ts` |
| `Orchestrator` | every state-changing method of `OrchestratorService` in one server, the retry timers, `runLoop`, DevTransport's waiters, remote polling, direct runs, crashes: rows, timers and runners composed |
| `OrchestratorProperties`, `OrchestratorProofs` | its properties; its inductive invariant and proof |
| `TaskRun`, `OrchestratorRefinement` | the abstract life of one run of a task; the mapping from `Orchestrator` |
| `ExecutionWrites`, `ExecutionWritesProofs` | the same methods on one row, statement by statement, in several processes: servers, operator commands, `baara tasks run`, stdio MCP servers |
| `HealthMonitor`, `HealthMonitorProofs` | `health-monitor.ts` and what moves the columns it reads, against time |
| `HumanInput`, `HumanInputProofs` | requests for input with their identity: both transports, both kinds of answerer |
| `Sandbox`, `SandboxProperties`, `SandboxProofs` | one execution inside a sandbox or runtime: `execute`, timer, cancel, commands, checkpoints, event queue |
| `EventStream` | the abstract stream of events which `Sandbox` implements |
| `Migrations` | opening the database: schema, version and the rows of the tables a migration rebuilds; proved in `CatalogueProofs` |
| `Catalogue`, `CatalogueProperties`, `CatalogueProofs` | tasks, projects, threads, their references, the scheduler, output routing, the task editor |
| `Chat`, `ChatProofs` | sessions, permissions and threads: server, wire and store of the page |
| `Transcript` | the reply as the page builds it and as the route stores it; proved in `PageProofs` |
| `Threads` | titles, the sidebar's badge, the conversation of `baara chat`; proved in `ChatProofs` |
| `Console`, `PageProofs` | the page that watches executions: polled list, cancel and retry; its proofs and those of `Transcript` |
| `MC...` | values of constants and symmetry for TLC |

Each module that models code has a comment `Mutation of X` before some
definitions: a plausible bug of `X`. No specification uses them; they are there
to show that a property can fail. The source lines of every definition are in
`map` in `PROJECT.json`. `Migrations`, `Threads` and `Console` name their initial state, next-state
relation and specification after the module (`ThreadsSpec`), because a proof module
extends each of them beside another component: the catalogue and the database it lives in, the
two views of the chat, the two pages.

### Orchestrator

*Scope.* One server that is the only process to write executions. What other processes
do between two statements of its methods is the subject of `ExecutionWrites`, where each
statement is a step; section 6 says what can then happen that cannot happen here.

*State.* A row of `executions` is an element of `Execs` with `status`, `task`
and `attempt`; `status = "none"` is an id not drawn yet, `"gone"` a deleted
row. `pending` counts the unanswered `input_requests` of a row. `timers` is
`QueueManager.timerHandles`. A runner is an agent loop (local,
over DevTransport, or remote, over HTTP) or a call of `runDirect`; `pc` and `job` are
where it is and with which row. `Polled` are the tasks whose target queue is in the queue
table: `targetQueue` is not validated, and `matchTask` goes through the queues of that table only.
Two history variables: `parent` is the row whose timer created this one, `origin` the first of
the attempts it belongs to. The code keeps neither; `origin` is what the mapping to
`TaskRun` is defined by.

*Steps.* The methods of `OrchestratorService` are `async` but contain no
`await` before their last write, and the store is synchronous, so in one process
a call is one step and interleaving happens between calls. A handler that stops
in the middle is a `...Cut` action: the statement named there was executed, the
next one raised or the process was killed (the kill is the cut followed by
`RestartServer`). `sqlite-store.ts:50-55` sets no `busy_timeout`, so a
write of any other process is enough to make a statement raise.

*Correspondences worth knowing.* `runDirect` goes from `created` to `running` in
one step, because within the server nothing can run in between; another process can see
the states in between, as `ExecutionWrites` has it. The retry creates a new row and leaves the
old one `retry_scheduled` (`queue-manager.ts:183-208`). `handleExecutionComplete` of a row
that waits for input first forces it to `running` and then refuses it, because it
tests the status it read before (`orchestrator-service.ts:488-497`). Recovery by
the health monitor can happen to any running row at any time; when it really
does is the subject of `HealthMonitor`. A cron tick, `startAll` and the HTTP and MCP
entry points are the method they call. A graceful shutdown is a special case of
`RestartServer`.

### ExecutionWrites

One row, its event log, the timers of its retry and several processes. `todo` is what the method
a process is in still has to execute; `read` is what a read left for the write that follows
it, in another statement: a validated status, or the number of an event. `updateExecutionStatus` validates the status it has
read and then writes by id alone (`sqlite-store.ts:224-228` and 245); `_fireTimer` looks at the row and then inserts the retry
(`queue-manager.ts:177-186`); `runDirect` writes `created`, `queued`, `assigned` and `running`
one after the other. Anything of another process may fall between two statements. `dequeueExecution` is a
transaction: it fails if the database has changed since its snapshot, which `current` records. The number of
attempts is not modelled, so a failure may be retried or dead-lettered, and a retry is a row of its own, whose insertion is
all that is seen here.

### HealthMonitor

`now` is time in units; `Timeout` and `Interval` are `timeout_ms` and the check
interval. A check reads all running rows; `CheckCut` is a check that raises after
some of them. `watched` and `recoveries` are history variables: since when the
monitor could see a row running, and for which it called `onCrashDetected`.
Whether recovery succeeds follows the transition table, as in `Orchestrator`.

### HumanInput

One execution. `requests[i]` is 0 while row `i` of `input_requests` is pending, else
the number of its answer. `waiting` are the calls of `requestInput` that have not
returned, `slot` is the entry of DevTransport's `pendingInputs`, which has one place
per execution and which a later call takes over. Answering takes three steps: the oldest
pending row is read, written by id, the execution is resumed; between them
another process can do the same. Over HTTP a call polls its own row. `since` is a
history variable.

### Sandbox and EventStream

`kind` chooses the implementation: native, wasm (a native instance behind an engine
or plugin), docker, `cloud_code`, shell. `phase` is where `execute()` is between its
awaits; everything between two awaits is one step. Events are numbered in
the order of their push; `queue`, `waiting`, `got` and `view` are the two lists of
`native.ts:128-165` and their readers; `Emit(k, close, late)` is what one callback
does: pushes, perhaps the close, perhaps pushes after it. A cancel may come
at any moment, `execute` not yet called included.

Docker can fail in three ways: writing the environment file raises outside the `try`, so that
`execute()` rejects and the stream stays open (`DockerRejects`); the spawn raises
(`DockerRaises`); or, after the spawn, writing the prompt or reading the output raises, the
catch reports and `docker run` goes on (`DockerLosesOutput`).

Commands are rows of `task_messages`, read by the poll every 2 seconds if a bus was injected.
The poll acts on all pending rows and then acknowledges those it has read (`PollCommands`);
if the acknowledgement raises, it has acted and the rows are pending still (`PollRaises`). That exception
leaves a timer callback, and `start.ts:198-201` answers it with a shutdown, during which
the poll may come again. `acted` is a history variable. The prompt of a `command` goes to `_pendingPrompts`, which nothing
reads; only `pause` and `resume` have an effect.

### Migrations

`schema` is the set of migrations whose tables and columns are there, `version` the
recorded number. A migration raises when it adds a column that is there or reads one that
is not. `db` has the rows of `tasks`, of `tasks_v3`, the table it is rebuilt into, and of
`executions` with their reference to a task; with `foreign_keys = ON` deleting tasks, and
`DROP TABLE tasks`, which deletes every row first, takes the executions along. `Rebuilt` is migration 3:
copy, drop, rename. A process reads the version once, then runs one transaction per migration;
it may be killed or find the database busy before each. `currentVersion()` takes every error
for a database without a version (`OpenUnread`). `misled` remembers that two
processes have migrated at once or that one could not read the version: see section 6 for what
happens then.

### Catalogue

Rows of tasks, threads, projects and executions, with what SQLite does to references when a
row goes. Five ways lead to a row of `tasks`: route, command, tool, template, editor;
two of them bypass `sanitizeInput`. `timeout` is `timeoutMs`; `maxRetries` takes the same ways and
is clamped in the same places; the numbers of `agentConfig` are not modelled. Output routing
(`orchestrator-service.ts:512-560`) is three statements and three actions; between them
anything may be deleted. `jobs` is the scheduler's map; `form` the open editor.

### Chat, Transcript, Threads

In `Chat` a stream is a call of `POST /api/chat`; a call is an invocation of a tool handler
together with its request id. `state[c] = "asked"` is an entry in
`pendingPermissions`. The wire holds what was written to a stream and not yet
read: the handshake (and the second one, when the SDK reports another session id),
permission requests and the end. `posts` are answers under way. `reading` is the set of
streams whose `for await` loop is alive, which `loadThread` and `clearChat` do not
stop.

`Transcript` is about what these streams carry: text announced by deltas and repeated
whole, tool calls, results that name only their tool. `handler` is the route's account of
a reply, `stored` the rows it appends, `transcript` the page's messages; a fetch of a
thread, which remembers the places of its rows in `stored`, replaces the latter by the former. A
loop over a stream ends with `done`, in its catch (`Break`), or because the server closed the stream
without a `done` (`Close`): then neither the `done` case nor the catch runs, and the message is left as it is
(`web/src/lib/api.ts:222-223`, `chat-store.ts:253-257`). `closed` remembers of which messages
that was so. A stream may also be left behind.

`Threads` has the stored messages as a sequence of (thread, role), titles as the number of
the message they come from or 0 for the placeholder, the badge's three variables with the requests that set them, and
the terminal, whose session is the set of threads its turns were taken in. A title update may raise and the message
be stored all the same (`chat.ts:241-246`), a thread may be created and its message not stored, and a
first message or a new title may read like the placeholder. `passed` are the messages that gave their thread no name
although it had none. One process names threads. The SDK is external in all three.

### Console

A row has its status and, as history, the statuses it had: any process may have validated a change
against one of them and write it now. Such a write, of a status the table would not allow from the present one, is late
(`sqlite-store.ts:224-228` and 245), and `late` lists the rows it happened to. A request of the page is served and its answer
handled at two moments; two requests under way are answered in any order, or lost. The
rate limiter is a refusal that may meet any cancel or retry: its window and
counts are left out.

## 3. Runs

Run `tlc -config <cfg> <module>`. `CHECK_DEADLOCK FALSE` is in every
configuration because the bounds make the system stop, or because a finished
run, stream or page has nothing left to do.

| run | configuration | what it shows |
|---|---|---|
| `core_faults` | `OrchestratorFaults`: 4 rows, 1 task with a retry, 2 local agents, 1 remote, 1 direct run, 2 submissions, 2 requests, 1 fault | in one server: an execution has one runner, attempts neither overlap nor multiply nor exceed the budget, what waits can be answered, settled is final; all of it implements `TaskRun` |
| `core_live` | `OrchestratorLive`: one agent and a direct run; a task with a retry, one without, one in a queue nobody polls; no faults, no requests | a scheduled retry has its timer; if no run goes on for ever, every execution of a polled queue ends or is retried |
| `writes` | `Writes`: 2 servers, 1 CLI, 1 busy write | a row is dequeued by one agent and only while it is queued; the event log is a sequence; what is settled, and was looked at by nobody who is about to write, is neither moved nor retried |
| `health` | `Health`: 2 rows (one out of attempts), timeout 3, interval 2, 9 units, 1 fault | nothing overdue escapes a check, nothing punctual is ended |
| `human_input` | `HumanInput`: 4 asks, 4 answers, both transports | no answer reaches two asks or an ask made after it; every ask ends |
| `sandbox` | `Sandbox`: all five kinds, 2 readers, 3 events, 2 commands, 2 turns with a checkpoint every 2 | the events implement `EventStream`; no command is lost and the latest word holds, acknowledgements that raise included; a pause ends; readers are told the end unless `execute()` rejects; a settled run leaves no timer, no poll and, unless docker lost its output, no process |
| `migrations` | `Migrations`: 3 processes, 2 tasks, 1 execution | an open store is current; no migration loses a task, nor, once the table of tasks has been rebuilt, an execution; unless two migrate at once or one cannot read the version, the record is true |
| `catalogue` | `Catalogue`: 1 task, 2 executions, Main and a thread, 1 project | no reference dangles, timeouts stay in their limits, threads tell of their executions, a stale editor does not flip the switch |
| `chat` | `Chat`: 2 streams, 1 thread beside those they create, 2 calls of 1 tool | no tool runs without consent, requests are settled once, the history shown is the thread's |
| `transcript` | `Transcript`: 2 messages, 3 steps in the first reply, 1 change of thread | live and stored replies agree, complete messages do not change, spinners stop but for those of a stream closed without `done` |
| `threads` | `Threads`: Main and a thread that may be renamed, 2 messages, 2 requests under way | a title comes from the first message that could give one, a terminal's session stays in one thread, the badge converges |
| `console` | `Console`: 2 rows, 1 late write, 2 requests under way | what is shown after an accepted cancel was cancelled, and says so unless a write came late; the list converges |

The type invariant of every module is its `TypeOK` (`MigrationsTypeOK`, `ThreadsTypeOK`, `ConsoleTypeOK`
in the three with names of their own). It is part of `core_faults`, and proved as a theorem for
`Orchestrator`, `Chat`, `Migrations` and `Catalogue`, as a part of the inductive invariant for
`ExecutionWrites`, `HealthMonitor` and `HumanInput`; the proofs about `Sandbox`, `Threads`, `Console` and
`Transcript` have typing conjuncts of their own. It holds on all instances above (add it as an
`INVARIANT` to the configuration).

### Why the bounds are enough

*Orchestrator.* Rows are independent except for the poll's order and the parent
relation. Two submissions with a retry each need four rows: this covers a retry beside
another execution, two timers at once, a retried row whose parent is acted upon, and an
operator's retry beside an automatic one. Two local agents and a direct run are
the smallest number for which two runners could share a row while a third party
acts. One fault already yields every half-done state; what a second one could do
is covered for the properties proved in section 5, which hold for any number.
Submissions are bounded by `MaxRoots`, so that a row which others of higher priority overtake for ever is
not among the behaviours; `core_live` says nothing of starvation.
*ExecutionWrites*: two writers are enough to interleave any two statements; the third
can change the row between the two. *HealthMonitor*: time runs to three times the
timeout, so that an execution can be overdue, wait, and be overdue again, across
four checks. *HumanInput*: four asks are an ask that times out, one that is refused while
the first still waits, one that takes over its entry, and one after; four answers give
every ask one, or one ask two at once. *Sandbox*: two readers are one that waits while
the other takes; three events suffice to leave some queued when both wait or the
stream closes; two turns reach a checkpoint; two commands can be swapped. *Migrations*: each of
three processes can leave the schema half-way once more; two tasks and an execution are enough for
a row to be lost, kept, or to lose what it refers to. *Chat*: two streams with two calls give
two parallel requests in one stream, requests of two streams for the one slot, and an
answer under the session of the other. *Catalogue*: two executions of one task so that one of them is
routed while the other is not; the theorems hold for any number of everything. *Transcript*:
three steps are two parallel calls with one result, or a call between two texts; the
second, empty, reply is the stream another one interferes with. *Threads* and *Console*: two requests
under way are what can be reordered; two rows are what can swap places; one of two threads is renamed, since
both take the same steps; one late write already undoes a cancel, and its row can go on from there.

### Fairness

* `Orchestrator`: a polling loop polls again and does what follows a poll, a reported failure is handled, an
  armed timer fires. Nothing is assumed of operators, clients, faults or runtimes. In particular a run is not assumed to end by its timeout: what the
  sandboxes pass to the agent SDK is `abortSignal` (`native.ts:223`, `cloud-code.ts:48`), where the chat route passes the SDK's
  option `abortController` (`chat.ts:353`), and nothing else ends the loop. That no run goes on for ever is the premise of
  `EveryExecutionEnds`. `core_live` has no requests for input because
  an execution whose waiter has timed out may wait for ever (section 6), and no
  remote agent, which keeps its row for ever; the promise is about tasks of polled queues.
* `Sandbox`: the timer fires, the loop of a pause looks at the abort again, readers read. Nothing
  is assumed of the SDK, of docker or of a script.
* `HumanInput`: every call's timer (or deadline) and the server's running on.
* `Transcript`: a request is handled or breaks, a reply ends (budget and turns are
  bounded), what is read arrives or breaks.
* `Threads`, `Console`: the intervals of the page, a server that serves; strongly, that the
  network does not lose every poll.
* `ExecutionWrites`, `HealthMonitor`, `Migrations`, `Catalogue` and `Chat` state safety only.
  `OverdueIsFound` is a bounded form of liveness: the clock of `HealthMonitor` cannot pass
  a check that is due.

## 4. The abstract specifications

`TaskRun` has one state per run (a submission with its automatic retries):
ready, active, backing off, over, gone. `OrchestratorRefinement` names a run by
its first row and takes its state from its latest attempt. The step that creates
the retry must map to `TryAgain`, a late report to nothing, a cancellation to the
end. `core_faults` checks this for every fault: a crash or a half-done handler may
stop a run, not make it go wrong.

`EventStream` promises that events are handed out in the order of their push, each to one
reader, that the stream closes once, and that a reader is told so when everything pushed
before has been handed out. `SandboxProperties` maps the two lists of the sandboxes
to it; the difficulty is the readers that already wait when something is pushed or the
stream closes, and what is pushed after the close.

## 5. What is proved

Every safety property that a run checks, invariant, action property or refinement, is also a
theorem, for every value of the constants that satisfies the modules' assumptions (types, ids
of different kinds differ, bounds are numbers, the defaults are inside the limits). Bounds such as
`MaxSends` are constants like the others: the theorems hold for all of them. `tlapm X.tla`
checks the proofs of module `X`:

| module | about | theorems |
|---|---|---|
| `OrchestratorProofs` | `Orchestrator` | `TypeCorrect`, `OneRunner`, `NoOverlap`, `OneRetry`, `BudgetKept`, `AttemptsInOrder`, `TimersPending`, `SettledForGood`, `Refinement`, `WaitingCanBeAnswered`, `ScheduledRetryIsArmed` |
| `ExecutionWritesProofs` | `ExecutionWrites` | `EventsAreSequence`, `OneAgent`, `DequeueIsAtomic`, `SettledForGood` |
| `HealthMonitorProofs` | `HealthMonitor` | `FoundInTime`, `LeftAlone` |
| `HumanInputProofs` | `HumanInput` | `OneAnswer`, `FreshAnswers` |
| `SandboxProofs` | `Sandbox`, `EventStream` | `NothingIsLeft`, `CommandsAreNotLost`, `StreamRefinement` |
| `CatalogueProofs` | `Catalogue`, `Migrations` | `CatalogueTypes`, `NothingDangles`, `NumbersStayInLimits`, `ThreadsAndExecutionsAgree`, `SavesLeaveSwitches`, `MigrationsTypes`, `StoreIsCurrent`, `RecordIsTrue`, `RowsAreKept` |
| `ChatProofs` | `Chat`, `Threads` | `ChatTypes`, `ToolsRunWithConsent`, `RequestsAreSettledOnce`, `HistoryFollowsThread`, `TitlesAreFirstMessages`, `SessionsStay` |
| `PageProofs` | `Transcript`, `Console` | `LiveRepliesAreStored`, `CompleteMessagesStay`, `CancelsAreTrue` |

**Orchestrator.** `Inv` is the conjunction of the type invariant, the properties
and three statements that make them inductive:

* `HeldIsTaken`: what a runner holds is not queued and not waiting for a retry.
  Without it a poll could hand out a row that has a runner.
* `RetriedWasScheduled`: a row with an automatic retry is retry_scheduled,
  cancelled or gone. With the table, this keeps it from running again, and so
  from being retried again or held.
* `ScheduledIsWithinBudget`: what is retry_scheduled has attempts left; the timer
  looks at nothing else.

From `Inv` follow `OneRunner`, `AttemptsInOrder`, `TimersPending` and the action
property `SettledForGood`. Steps are sorted by what they do to
the rows: nothing (`Quiet`), a new row (`NewRow`), an automatic retry
(`NewRetry`), or one row moved along the table (`Moved`). Each of these lemmas shows
that such a step keeps `Inv`, and `HandlersKeepInv` and `FaultsKeepInv` assign every
action to one of them.

**The refinement of `TaskRun`** is proved for every fault. `RunInv` adds to `Inv` that every row
belongs to the run of its `origin` and to the same task, and that the rows of a run
end in exactly one without a retry (`RunsEndInOneRow`): the latest attempt, from which
the mapping takes the state of the run. Then each way a step can change the rows
(`RowEffect`) is a step of one run: a new row is `Begin`, an automatic retry
`TryAgain`, a status that moves is `Activate`, `BackOff`, `End` or nothing, according to the phases
it moves between, a deleted task is `Vanish` of all its runs.

**What holds as long as nothing fails.** `WaitingHasRequest` and `ScheduledRetryHasTimer` are
inductive with `Inv` (`NothingForgotten`). Both say themselves that no fault has happened: timers live in memory and a crash
forgets them. The theorems are `WaitingCanBeAnswered` and `ScheduledRetryIsArmed`.

**ExecutionWrites.** A number read for the next event is never beyond the next one
(`NumbersAreNext`), so that an insert adds the next number or is refused by the unique key. That
one agent has the row rests on its being queued once: only one statement in all calls still puts
it in the queue (`QueuedOnce`), none does when it is queued or taken (`NeverQueuedAgain`), and
a transaction whose snapshot is still current has seen it queued (`SnapshotsShowQueued`). That a settled row stays
settled rests on the order of the statements: in every method the insertion of a retry comes first or after a write of the
status (`RetryFollowsStatus`), so that, once nothing validated is under way, whatever is still to come begins with a look at
a terminal row, which refuses it, or with an event (`SettledStep`). The
lemmas are about what a statement, the beginning of a call and its failure do to `todo`.

**HealthMonitor.** While no check has raised and the server has not restarted: what is marked
unresponsive was recovered (`Marked`; a check skips marked rows, so a wrong mark would hide an
execution for ever), and the next check is at most one interval after a running execution came
into sight (`Unnoticed`).

**HumanInput.** An answer is in one row at most and newer than the ask of that row
(`OneRowPerAnswer`); over HTTP what a call returned is in the row of its ask and no other
(`GivenFromItsRow`); in the server's process an answer that is written and not yet handed on is newer
than every ask and has been given to nobody (`NotYetGiven`). The two transports never mix.

**Sandbox.** `RunInv` says in which phase a timer, a poll and a process may exist, and with which outcome one is left;
`CommandInv` adds types to `CommandsTakeEffect`: acting upon all that is not acknowledged, some of it again, leaves
the word of the latest row (`LastWord`). `StreamInv` says that the queue holds the last events in order, that nobody waits
while it holds any, that who waits has not been told the end and waits once, and that nobody waits after
the close. From it each push, take, wait and close is shown to be a
step of `EventStream`.

**Chat.** `Consent` adds to `NothingRunsUnasked` that every answer under way was
given by the user, that a stream approves only what was allowed for the task in
that stream, and that a call belongs to a stream that was opened (so its mode is
fixed). Theorems: `ChatTypes`, `ToolsRunWithConsent`, `RequestsAreSettledOnce`,
`HistoryFollowsThread`.

**Threads.** That a title comes from the first message of its thread that could give one (`Candidates`: those not in `passed`) is inductive once the page only
talks in threads that exist (`IdsAreKnown`); the proof is about what is first when a message is appended, or passed. That a session
of the terminal has turns of one thread at most is inductive with its type (`SInv`).

**Transcript.** The two accounts of a reply, the page's and the route's, are made at different
times. `InTransit` relates them through the events on the wire: when these have been
applied in turn, the message agrees with what the route has put together (`Agrees`), and it is
complete only after the result. Agreement is looser than equality, since the page takes outputs for
granted when a text or another call comes: all but the latest call are then filled
in, so that a result, which names only its tool, goes to the same call on both sides or finds it filled
(`ResultsAgree`). Everything the route does is one kind of step, `ReplyStep`, which puts one event on
the wire and keeps that true (`ReplyGoesOn`). `LiveRepliesAreStored` follows because the row is
stored with the result; `CompleteMessagesStay` because after the result only `error` and `done` are on the wire.

**Console.** What a request of the page has learned stays true while its answer is under way
(`Honest`): that the row has been cancelled stays true whoever writes, and a write that takes the status away from a
cancelled row is late, because the table allows none (`Kept`).

**Migrations.** `StoreIsCurrent` and `RowsAreKept` hold for any number of processes even
if they migrate at once or cannot read the version. `RowsAreKept` rests on the statements of migration 3: it copies the table and can
run only while the column it reads is there (`Fits`), so never twice; every reference to a task being to one that is there
(`RowsKnown`) is what makes the cascade of its `DROP TABLE` the only loss. The invariant behind `RecordIsTrue` is that, until two have migrated at once or one could not
read the version, the one process that migrates is about to run the migration after the recorded one.

**Catalogue.** `ReferencesResolve` and `LimitsKept` are inductive with the types. For
`ThreadTellsOfItsExecutions` the invariant `RoutingSound` says what holds in between the
three statements of the routing: an execution that is not done has no route and tells of
nothing; once it is linked it tells of the thread unless the thread has gone; and a
thread that was once the target is never unused, so that a deleted one cannot come back.
The lemmas follow the actions; the six ways of writing a task share `EditKeepsInv`.
Theorems: `NothingDangles`, `NumbersStayInLimits`, `ThreadsAndExecutionsAgree`,
`SavesLeaveSwitches`.

Only model-checked is liveness, which is out of the prover's reach: `EveryExecutionEnds`,
`PauseEnds`, `ReadersSeeTheEnd`, `AsksEnd`, `ListConverges`, `BadgeConverges` and `SpinnersStop`. `TaskRun` and
`EventStream` state safety only, so that their refinements are proved in full.

## 6. What the code does that its documents do not say

Seen while modelling. The models behave as the code does; where a property above would read more strongly
if the code did otherwise, that is said here.

*Executions*

* Orphaned running executions are not recovered: `recoverExecution` asks for
  running → retry_scheduled, which is not in the table (`docs/durability.md:111-133`).
  `start()` arms no timer for rows left `retry_scheduled` (`README.md:11-12`).
* Terminal states can be left: validation and UPDATE are separate statements, and
  another process may write in between (`docs/architecture.md:60-63`). So `SettledIsFinal` and `TaskRun` are about a server that
  writes alone, and between processes `SettledStays` says when it is over: once nobody is about to write what it validated, or
  to insert a retry of a row it looked up, before.
* A retry is created although its execution was cancelled, if another process cancels between `_fireTimer`'s look at the row
  and its insert (`queue-manager.ts:177-186`). A failed attempt may get two automatic retries if another process has a timer or a
  recovery for it too.
* The row of a direct run is queued for a moment and can be polled
  (`cli/src/commands/tasks.ts:366`: "bypasses queue"); an agent that takes it shares it with the run that made it, whose own
  UPDATEs name the row by its id. `OneAgentHoldsRow` is therefore about agents. Its transition to running has no
  event (`docs/architecture.md:71-72`).
* `targetQueue` is not validated: a task sent to a queue that is not in the queue table is accepted, and its executions stay
  queued for ever (`orchestrator-service.ts:413-416`).
* A timeout aborts nothing the agent SDK is known to look at: the sandboxes pass `abortSignal`, the chat route `abortController`.
* A retried row stays `retry_scheduled`; the comment at `queue-manager.ts:92-95`
  says it goes back to queued. `shouldRetry` allows `attempt <= maxRetries`, one more than
  `docs/architecture.md:48` describes.
* `/internal/poll` answers the bare assignment while `HttpTransport` reads `body.assignment`: a
  remote agent never learns of the row that was assigned to it.
* `docs/durability.md:113` speaks of executions with no heartbeat; the monitor
  looks at the time since the start, and heartbeats only clear the flag that
  prevents a second recovery. Time spent waiting for input counts as running time.
* `maxConcurrency` is stored and shown and never read by `dequeueExecution`; `listQueues`
  counts `waiting_for_input` as active, `getQueueInfo` does not.

*Human input*

* The `provide_input` tool, and any answer from another process, returns the row to
  running and does not wake the waiter of DevTransport (`docs/mcp-integration.md:233`).
* After a timeout the row of the request stays pending and the execution
  `waiting_for_input`; later asks are refused, and answers go to the oldest pending
  row. `provideInput` without a pending request throws a plain `Error`: the route answers 500,
  not the 409 of `docs/api-reference.md:319`. No shipped runtime asks.

*Sandboxes*

* No sandbox of the shipped program has a message bus (`withMessageBus` has no caller), so
  commands and checkpoints are off; a run never reads the checkpoint of the attempt before
  it, which `docs/durability.md:111-143` describes. Turns restart at 0 after a recovery.
  `_pendingPrompts` is filled and never consumed, so a `command` has no effect.
* An acknowledgement that raises (`native.ts:195`) raises out of a timer callback: the server shuts down
  (`start.ts:198-201`). If the poll comes again before, the commands are acted upon again, older ones after newer ones.
* Docker: when writing the prompt or reading the output raises, the run is reported as failed while the container goes on, and
  its name is forgotten (`docker.ts:226-249`, 322-340). When the environment file cannot be written, `execute()` rejects and the stream is
  never closed (`docker.ts:201-206`), against `core/src/interfaces/sandbox.ts:105`; the same goes for a wasm plugin that cannot be created.
* A cancelled native run may end `completed` or `timed_out`
  (`core/src/interfaces/sandbox.ts:110-113`); a cancel of a wasm run before its inner
  instance exists is lost, and a reader of its `events` from before is told the end at once.
* The log of a failure is pushed after the stream was closed; whoever reads late gets it
  before the end. A container created after its stop was requested goes on running. A
  script's descendant that keeps its output open blocks the run after its timer is cleared.
* Nothing reads `events`, no request is upgraded to a WebSocket, and nothing constructs a
  `LogWriter`, so the logs shown are empty.

*Migrations*

* Two processes that migrate an old database at the same time both read its version
  first; the slower one runs migration 1 again and records 1, and every later start
  raises at migration 2. So does a process that could not read the version: `currentVersion()` takes every error
  for a new database (`migrations.ts:315-318`).
* Migration 3 deletes all executions with the table it replaces: its `DROP TABLE` deletes the rows first, which cascades with
  `foreign_keys = ON`. Its comment (`migrations.ts:171`) speaks of SQLite's recommended 12-step procedure, whose first step
  is to turn foreign keys off.

*Catalogue*

* Jobs are registered at startup only. The task editor sends a copy up to ten seconds old;
  for a task without a thread it shows the thread open in the chat (`TaskEditor.tsx:59-61`,
  against `docs/ux-test-workflows.md:86`), so that saving moves the task's output.
* A PUT with the name of another task answers 500.
* A template's `agentConfig` is copied as it is, with whatever budget and turns it has
  (`mcp/src/tools/templates.ts:62`); `LimitsKept` is about the timeout.

*Chat*

* The permission gate wraps the tools of this repository's own MCP server. The SDK runs with `bypassPermissions`
  (`chat.ts:345-348`), so that tools it brings along do not pass the gate, and `NothingRunsUnasked` does not speak of them.
* A loop over a stream the user has left goes on: its late `system` event sets
  the session id, after `clearChat` also the thread, of another conversation; its
  result adds cost and calls to the counters of the new one; its end clears `streaming` under
  another stream. A fetch of history wipes a message sent meanwhile.
* "Allow for task" is forgotten with the request (`docs/ux-test-workflows.md:162`). The store
  has one slot for a permission request; a second one replaces the first, which then can
  only time out. The buttons appear only in developer mode, and only when the name the SDK
  reports equals the tool's own.
* A stream that is closed without `done` leaves its message streaming: an open call spins until the thread is loaded again,
  and `SpinnersStop` excepts it. A reply cut by a limit is
  stored with the text of its deltas.
* `baara chat` creates a thread and stores no message in it; `/history` prints what is in memory.
* The badge counts every agent message of Main, replies included, although
  `ThreadList.tsx` speaks of the orchestrator's; after a page load all of them are unread.
* A thread whose first message is the placeholder "New Thread", whose title could not be saved, or which is renamed to the placeholder, is
  named after a later message (`chat.ts:229-246`). Another process that names threads could give one another name.

*Page*

* After an accepted cancel the page may show the execution as completed, if another process had validated its own write
  before; `CancelTellsTheTruth` says that this is the only way.
* Buttons stay enabled while their request is under way: a double click on Retry starts two
  attempts. Between two polls a row may be listed twice, and a timeline may be that of the
  execution opened before.

## 7. What is not modelled, and the plan

Not modelled: the visibility buffer (nothing reads what it releases), `waitForTask`,
`TurnManager`, `createTemplate`, registration of single cron jobs (no caller); the rate
limiter's window and eviction; the lengths of backoff delays; the process of a sandbox
dying; deleted tasks met by `matchTask` (`orchestrator-service.ts:423-434`:
the foreign key makes them impossible); the branch for a missing runtime (the default
registry always has one); arbitrary callers of `/internal/start` and `/internal/complete`;
changing `maxRetries` while a task runs (`MaxRetries` is a constant); inside
`Orchestrator`, the other processes that may open the store file (their writes are in
`ExecutionWrites` and `Console`); the order of messages
stored within one second; the docker daemon, wasm plugins and the agent SDK, which
are external; log files, discovery of plugins, system prompts, listing and
formatting, layout; and the pages under `web/src/pages`, which are not mounted.

Hazards that no property covers are in `PROJECT.json` with the reason, or above in section 6: most are places
where the code has no guard and no document promises one.

Next, in this order: recovery from checkpoints (`executor/src/recovery.ts`) once a bus is injected, composed with
`Orchestrator`; the rate limiter's window as counters at their limits; `calculateDelay` as a
function. To prove next: the abstract specifications a reader of
`HumanInput` and `Console` would want (an ask as a call that returns once; a list as a copy of
some past state of the store), and lemmas on the order in which liveness is reached, such as that a
run of `Sandbox` in a given phase has the timer or the process that will end it.
