------------------------ MODULE OrchestratorProperties ------------------------
(***************************************************************************)
(* What the orchestrator must guarantee, whatever the interleaving.        *)
(***************************************************************************)
EXTENDS Orchestrator

Retries(e) == {n \in Execs : parent[n] = e}

(* An execution is handed to one runner of the server: two polls never get  *)
(* the same row, whatever becomes of the first (it is lost, waits, reports  *)
(* late), and no poll gets the row of a direct run (dequeueExecution,       *)
(* runDirect, recoverExecution).                                            *)
OneRunnerPerExecution ==
  \A r1, r2 \in Runners : job[r1] = job[r2] /\ r1 # r2 => job[r1] = NoExec

(* Attempts of a task run do not overlap: as long as a runner has not       *)
(* finished with an attempt (it works, waits for input, or still has a      *)
(* failure to report), no automatic retry of that attempt exists.           *)
NoOverlappingAttempts ==
  \A r \in Runners : job[r] # NoExec => Retries(job[r]) = {}

(* A failed attempt is retried at most once automatically: the old row      *)
(* stays retry_scheduled, so nothing but the timer's single shot prevents a *)
(* second retry (QueueManager._fireTimer).                                  *)
AtMostOneRetry ==
  \A e \in Execs : \A n1, n2 \in Retries(e) : n1 = n2

(* Automatic retries stay within the task's budget and count attempts       *)
(* without a gap (shouldRetry, scheduleRetry, recoverExecution).            *)
RetryBudget ==
  \A n \in Execs : parent[n] # NoExec =>
    /\ attempt[n] <= MaxRetries[task[n]] + 1
    /\ attempt[n] = attempt[parent[n]] + 1

(* The automatic attempts of a task follow each other: one retry of each    *)
(* failed attempt, after its runner is done with it, within the budget.     *)
AttemptsFollowEachOther == NoOverlappingAttempts /\ AtMostOneRetry /\ RetryBudget

(* A settled execution is never reopened or re-labelled by a late report,   *)
(* an answer, a timer or the health monitor of the server (what writes of   *)
(* other processes may do is in ExecutionWrites).                           *)
SettledIsFinal ==
  [][\A e \in Execs : status[e] \in TERMINAL_STATUSES =>
       status'[e] \in {status[e], "gone"}]_vars

(* A timer is armed only for an execution whose retry has not started, and  *)
(* that still waits for it or was deleted: cancelling disarms it.           *)
TimersArePending ==
  \A e \in timers : status[e] \in {"retry_scheduled", "gone"} /\ Retries(e) = {}

(* As long as nothing fails half-way, an execution that waits for input has *)
(* a request somebody can answer: answering and the return to running go    *)
(* together (provideInput, requestInput).                                   *)
WaitingHasRequest ==
  faults = 0 => \A e \in Execs : status[e] = "waiting_for_input" => pending[e] > 0

(* Without faults a scheduled retry is never forgotten: its timer is armed  *)
(* until the retry exists (scheduleRetry, cancelExecution, _fireTimer).     *)
ScheduledRetryHasTimer ==
  faults = 0 => \A e \in Execs :
    status[e] = "retry_scheduled" /\ Retries(e) = {} => e \in timers

(* Provided that no run goes on for ever, and without faults, remote agents *)
(* and requests for input, every execution of a task in a polled queue      *)
(* ends: it settles, is retried, or goes with its task.                     *)
EveryExecutionEnds ==
  (\A r \in Runners : []<>(pc[r] # "working")) =>
    \A e \in Execs : status[e] # "none" /\ task[e] \in Polled ~>
      status[e] \in TERMINAL_STATUSES \cup {"gone"} \/ Retries(e) # {}

=============================================================================
