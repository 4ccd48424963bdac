---------------------------- MODULE ExecutionWrites ----------------------------
(***************************************************************************)
(* One execution row and its event log under several processes, statement  *)
(* by statement.  Inside a process the methods of OrchestratorService are  *)
(* atomic; between processes only single statements and transactions are.  *)
(* updateExecutionStatus() reads and validates in one statement and writes *)
(* in the next; an event takes its number in one statement and is inserted *)
(* in the next; a retry timer looks at the row in one statement and inserts *)
(* its retry in the next; dequeueExecution() is a transaction.             *)
(***************************************************************************)
EXTENDS Integers, Sequences, FiniteSets, ExecutionStatus

CONSTANTS
  Servers,  \* processes with routes, an agent loop and a health monitor
  Clis,     \* processes that execute CLI commands, one at a time
  Results,  \* bound: the results runners report
  MaxBusy   \* bound: writes that raise SQLITE_BUSY

Procs == Servers \cup Clis

ASSUME WritersAssumption ==
  /\ Servers \cap Clis = {}
  /\ "failed" \in Results
  /\ Results \subseteq {"completed", "failed", "timed_out", "cancelled"}
  /\ MaxBusy \in Nat

VARIABLES
  status,   \* executions.status, "none" before the insert
  rows,     \* how many events the log has
  numbers,  \* the event_seq values among them
  call,     \* the method a process is in, "none" between calls
  todo,     \* the statements of that method still to come
  read,     \* what the last statement of a process left to the next: 0 nothing, 1 a
            \* validated status, or the number for an event
  current,  \* processes in a transaction whose snapshot is the latest state
  timers,   \* servers with a timer for the retry of the row
  runner,   \* what the agent loop or the direct run of a process is doing
  busy      \* history: writes that raised

vars == <<status, rows, numbers, call, todo, read, current, timers, runner, busy>>

S(s) == [kind |-> "status", arg |-> s]   \* store.updateExecutionStatus(id, s)
E(s) == [kind |-> "event", arg |-> s]    \* the emit... function for s
RETRY == [kind |-> "insert", arg |-> "created"]  \* store.createExecution() for a retry

Statements == [kind : {"status", "event", "insert"}, arg : Status]

TypeOK ==
  /\ status \in Status \cup {"none"}
  /\ rows \in Nat /\ numbers \subseteq Nat \ {0}
  /\ call \in [Procs -> {"none", "submit", "direct", "dequeue", "start",
                         "report", "lastReport", "cancel", "recover", "fire"}]
  /\ todo \in [Procs -> Seq(Statements)]
  /\ read \in [Procs -> Nat]
  /\ current \subseteq Procs
  /\ timers \subseteq Servers
  /\ runner \in [Procs -> {"idle", "holding", "working", "failing"}]
  /\ busy \in 0..MaxBusy
  /\ \A p \in Procs :
       /\ call[p] = "none" <=> todo[p] = << >>
       /\ read[p] # 0 => call[p] # "none"
       /\ p \in current => call[p] = "dequeue"

Init ==
  /\ status = "none"
  /\ rows = 0 /\ numbers = {}
  /\ call = [p \in Procs |-> "none"]
  /\ todo = [p \in Procs |-> << >>]
  /\ read = [p \in Procs |-> 0]
  /\ current = {}
  /\ timers = {}
  /\ runner = [p \in Procs |-> "idle"]
  /\ busy = 0

-------------------------------------------------------------------------------
(* Calls *)

\* Process p enters method c, which will execute these statements.
Enter(p, c, statements) ==
  /\ call[p] = "none"
  /\ call' = [call EXCEPT ![p] = c]
  /\ todo' = [todo EXCEPT ![p] = statements]
  /\ UNCHANGED <<rows, numbers, read, runner, busy>>

\* Where the runner of p is after its method returned ...
After(p) ==
  CASE call[p] = "dequeue"                     -> "holding"
    [] call[p] \in {"start", "direct"}         -> "working"
    [] call[p] \in {"report", "lastReport"}    -> "idle"
    [] OTHER                                   -> runner[p]

\* ... or threw: runLoop reports a failure once, a direct run gives up, a poll
\* that throws is a poll that found nothing.
AfterThrow(p) ==
  CASE call[p] = "start"                                   -> "failing"
    [] call[p] = "report" /\ p \in Servers                 -> "failing"
    [] call[p] \in {"submit", "cancel", "recover", "fire"} -> runner[p]
    [] OTHER                                               -> "idle"

Throw(p) ==
  /\ call' = [call EXCEPT ![p] = "none"]
  /\ todo' = [todo EXCEPT ![p] = << >>]
  /\ read' = [read EXCEPT ![p] = 0]
  /\ runner' = [runner EXCEPT ![p] = AfterThrow(p)]
  /\ UNCHANGED timers

\* The statement is done; after the last one the method returns.  The event is the
\* last of scheduleRetry() in the store; a command line exits with its timer.
Advance(p) ==
  /\ todo' = [todo EXCEPT ![p] = Tail(@)]
  /\ read' = [read EXCEPT ![p] = 0]
  /\ call' = [call EXCEPT ![p] = IF Len(todo[p]) = 1 THEN "none" ELSE @]
  /\ runner' = [runner EXCEPT ![p] = IF Len(todo[p]) = 1 THEN After(p) ELSE @]
  /\ timers' = timers \cup {q \in {p} \cap Servers : Head(todo[p]) = E("retry_scheduled")}

-------------------------------------------------------------------------------
(* The methods *)

\* A statement writes the status; every open snapshot is now out of date.
WriteStatus(s) ==
  /\ status' = s
  /\ current' = {}

unwritten == <<status, rows, numbers, current>>

\* The first statement of submitTask() and runDirect() inserts the row.
SubmitTask(p) ==
  /\ status = "none"
  /\ WriteStatus("created")
  /\ Enter(p, "submit", <<S("queued"), E("created"), E("queued")>>)
  /\ UNCHANGED timers

RunDirect(p) ==
  /\ status = "none"
  /\ WriteStatus("created")
  /\ Enter(p, "direct", <<E("created"), S("queued"), E("queued"),
                          S("assigned"), E("assigned"), S("running")>>)
  /\ UNCHANGED timers

\* dequeueExecution() begins: its SELECT takes a snapshot and finds the row.
Dequeue(p) ==
  /\ runner[p] = "idle" /\ status = "queued"
  /\ Enter(p, "dequeue", <<S("assigned"), E("assigned")>>)
  /\ current' = current \cup {p}
  /\ UNCHANGED <<status, timers>>

\* A method that throws at its first look at the row.
Refused(p, state) ==
  /\ call[p] = "none"
  /\ runner' = [runner EXCEPT ![p] = state]
  /\ UNCHANGED <<rows, numbers, call, todo, read, busy>>

StartExecution(p) ==
  /\ runner[p] = "holding"
  /\ IF status = "assigned"
       THEN Enter(p, "start", <<S("running"), E("running")>>)
       ELSE Refused(p, "failing")
  /\ UNCHANGED <<status, current, timers>>

\* What a report of result r executes; whether attempts are left is not modelled.
Reports(r) ==
  IF r \in {"completed", "cancelled"} THEN {<<S(r), E(r)>>}
  ELSE {<<S(r), E(r), S(s), E(s)>> : s \in {"retry_scheduled", "dead_lettered"}}

\* handleExecutionComplete(), called with a result or from runLoop's catch.
Complete(p, r) ==
  /\ runner[p] = "working" \/ (runner[p] = "failing" /\ r = "failed")
  /\ IF status = "running"
       THEN \E statements \in Reports(r) :
              Enter(p, IF runner[p] = "failing" THEN "lastReport" ELSE "report", statements)
       ELSE Refused(p, IF runner[p] = "working" /\ p \in Servers THEN "failing" ELSE "idle")
  /\ UNCHANGED <<status, current, timers>>

\* cancelExecution() disarms the timer of its own process only.
CancelExecution(p) ==
  /\ status \in Status \ TERMINAL_STATUSES
  /\ timers' = timers \ {p}
  /\ Enter(p, "cancel", <<S("cancelled"), E("cancelled")>>)
  /\ UNCHANGED <<status, current>>

\* recoverExecution() of an overdue execution, with or without attempts left.
Recover(p) ==
  /\ status \in {"running", "assigned"}
  /\ \E statements \in {<<S("retry_scheduled"), RETRY>>,
                        <<S("failed"), S("dead_lettered"), E("dead_lettered")>>} :
       Enter(p, "recover", statements)
  /\ UNCHANGED <<status, current, timers>>

\* Mutation of FireTimer: no look at the row.
FireTimerUnchecked(p) ==
  /\ p \in timers
  /\ timers' = timers \ {p}
  /\ Enter(p, "fire", <<RETRY>>)
  /\ UNCHANGED <<status, current>>

\* _fireTimer() looks at the row before it inserts the retry.
FireTimer(p) ==
  /\ p \in timers /\ call[p] = "none"
  /\ timers' = timers \ {p}
  /\ IF status = "retry_scheduled"
       THEN Enter(p, "fire", <<RETRY>>)
       ELSE UNCHANGED <<rows, numbers, call, todo, read, runner, busy>>
  /\ UNCHANGED <<status, current>>

-------------------------------------------------------------------------------
(* The statements *)

NextIs(p, kind) == todo[p] # << >> /\ Head(todo[p]).kind = kind

InTransaction(p) == call[p] = "dequeue" /\ NextIs(p, "status")

\* updateExecutionStatus(): read and validate ...
Validate(p) ==
  /\ NextIs(p, "status") /\ ~InTransaction(p) /\ read[p] = 0
  /\ IF Valid(status, Head(todo[p]).arg)
       THEN read' = [read EXCEPT ![p] = 1] /\ UNCHANGED <<call, todo, timers, runner>>
       ELSE Throw(p)
  /\ UNCHANGED <<unwritten, busy>>

\* ... then UPDATE ... WHERE id = ?.
Write(p) ==
  /\ NextIs(p, "status") /\ read[p] = 1
  /\ WriteStatus(Head(todo[p]).arg)
  /\ Advance(p)
  /\ UNCHANGED <<rows, numbers, busy>>

\* Mutation of CommitDequeue: the UPDATE does not belong to the transaction.
CommitStale(p) ==
  /\ InTransaction(p)
  /\ WriteStatus("assigned")
  /\ Advance(p)
  /\ UNCHANGED <<rows, numbers, busy>>

\* The UPDATE of dequeueExecution(): SQLite refuses to turn a read transaction
\* into a write transaction if the database has changed since its snapshot.
CommitDequeue(p) ==
  /\ InTransaction(p)
  /\ IF p \in current
       THEN WriteStatus("assigned") /\ Advance(p)
       ELSE Throw(p) /\ UNCHANGED <<status, current>>
  /\ UNCHANGED <<rows, numbers, busy>>

\* nextSeq(): the highest number so far, plus one ...
Number(p) ==
  /\ NextIs(p, "event") /\ read[p] = 0
  /\ \E n \in {0} \cup numbers :
       /\ \A m \in numbers : m <= n
       /\ read' = [read EXCEPT ![p] = n + 1]
  /\ UNCHANGED <<unwritten, call, todo, timers, runner, busy>>

\* Mutation of InsertEvent: no UNIQUE(execution_id, event_seq).
InsertEventAlways(p) ==
  /\ NextIs(p, "event") /\ read[p] # 0
  /\ rows' = rows + 1
  /\ numbers' = numbers \cup {read[p]}
  /\ current' = {}
  /\ Advance(p)
  /\ UNCHANGED <<status, busy>>

\* ... then the insert, which UNIQUE(execution_id, event_seq) may refuse.
InsertEvent(p) ==
  /\ NextIs(p, "event") /\ read[p] # 0
  /\ IF read[p] \in numbers
       THEN Throw(p) /\ UNCHANGED <<rows, numbers, current>>
       ELSE /\ rows' = rows + 1
            /\ numbers' = numbers \cup {read[p]}
            /\ current' = {}
            /\ Advance(p)
  /\ UNCHANGED <<status, busy>>

\* createExecution() for a retry: another row, another log.
InsertRetry(p) ==
  /\ NextIs(p, "insert")
  /\ current' = {}
  /\ Advance(p)
  /\ UNCHANGED <<status, rows, numbers, busy>>

\* A write finds the database locked by another process.
Busy(p) ==
  /\ busy < MaxBusy
  /\ todo[p] # << >> /\ (read[p] # 0 \/ InTransaction(p) \/ NextIs(p, "insert"))
  /\ Throw(p)
  /\ busy' = busy + 1
  /\ current' = current \ {p}
  /\ UNCHANGED <<status, rows, numbers>>

Next ==
  \/ \E p \in Clis : RunDirect(p)
  \/ \E p \in Servers : Dequeue(p) \/ StartExecution(p) \/ Recover(p) \/ FireTimer(p)
  \/ \E p \in Procs, r \in Results : Complete(p, r)
  \/ \E p \in Procs :
       \/ SubmitTask(p) \/ CancelExecution(p)
       \/ Validate(p) \/ Write(p) \/ CommitDequeue(p) \/ Number(p) \/ InsertEvent(p)
       \/ InsertRetry(p) \/ Busy(p)

Spec == Init /\ [][Next]_vars

-------------------------------------------------------------------------------
(* Properties *)

(* Whatever processes write at the same time, the log is one sequence: no   *)
(* number is given twice, none is missing (nextSeq, events' UNIQUE).        *)
LogIsSequence == numbers = 1..rows

(* A row is dequeued by one agent, even if several servers poll the same    *)
(* database: what is read in the transaction cannot change before the write *)
(* (dequeueExecution).  A direct run of a command line is not excluded: its *)
(* own unconditional UPDATE may follow an agent's.                          *)
OneAgentHoldsRow ==
  \A p, q \in Servers :
    runner[p] \in {"holding", "working"} /\ runner[q] \in {"holding", "working"} => p = q

(* A poll never takes a row that is no longer queued: the transaction       *)
(* "prevents silently transitioning executions that are in a non-queued     *)
(* state (e.g. cancelled)" (sqlite-store.ts:273-275).                       *)
OnlyQueuedIsDequeued ==
  [][\A p \in Servers : InTransaction(p) /\ NextIs(p, "event")' => status = "queued"]_vars

\* The row has a terminal status and nothing is under way that looked at it before:
\* no validated UPDATE and no insertion of a retry.
Settled ==
  /\ status \in TERMINAL_STATUSES
  /\ \A p \in Procs : ~(NextIs(p, "status") /\ read[p] = 1) /\ ~NextIs(p, "insert")

(* Settled is for good: late reports, polls, cancellations, timers and      *)
(* health checks of any process neither move the row again nor begin to     *)
(* insert a retry of it.                                                    *)
(* What looked at the row before it became terminal may still do both       *)
(* (updateExecutionStatus, _fireTimer, recoverExecution).                   *)
SettledStays ==
  [][Settled => Settled' /\ status' = status]_vars

=============================================================================
