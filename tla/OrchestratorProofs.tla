-------------------------- MODULE OrchestratorProofs --------------------------
(***************************************************************************)
(* Proofs of the safety properties of Orchestrator for every set of rows,  *)
(* tasks and runners, every retry budget and every number of faults.       *)
(*                                                                         *)
(* The properties are not inductive.  That a second retry is never started *)
(* rests on "an armed timer's execution has no retry yet"; that on "no     *)
(* running execution has one"; and that on "only a retry_scheduled row is  *)
(* ever retried, and nothing leads back from it".  Inv puts these together.*)
(*                                                                         *)
(* For the refinement of TaskRun, RunInv adds that every row belongs to a  *)
(* run and that the attempts of a run end in one row; what a step does to  *)
(* the rows (RowEffect) then is a step of one run.  Last come the          *)
(* properties that need that nothing failed.                               *)
(***************************************************************************)
EXTENDS OrchestratorRefinement, TLAPS

\* What a runner holds was dequeued: it is never in the queue, and never waits
\* for a retry.
HeldIsTaken ==
  \A r \in Runners : job[r] # NoExec =>
    status[job[r]] \notin {"none", "created", "queued", "retry_scheduled"}

\* What was retried automatically is waiting for that retry or past it.
RetriedWasScheduled ==
  \A n \in Execs : parent[n] # NoExec =>
    status[parent[n]] \in {"retry_scheduled", "cancelled", "gone"}

\* Only what may be retried is scheduled for a retry.
ScheduledIsWithinBudget ==
  \A e \in Execs : status[e] = "retry_scheduled" => attempt[e] <= MaxRetries[task[e]]

Inv ==
  /\ TypeOK
  /\ OneRunnerPerExecution
  /\ HeldIsTaken
  /\ RetriedWasScheduled
  /\ NoOverlappingAttempts
  /\ TimersArePending
  /\ AtMostOneRetry
  /\ RetryBudget
  /\ ScheduledIsWithinBudget

USE ConstantsAssumption DEF Agents, Runners

-------------------------------------------------------------------------------
(* Types *)

\* Every step preserves the types.
LEMMA TypeStep == TypeOK /\ [Next]_vars => TypeOK'
<1> SUFFICES ASSUME TypeOK, [Next]_vars PROVE TypeOK'
  OBVIOUS
<1> USE DEF TypeOK, rowVars, Status
<1>1. ASSUME NEW t \in Tasks, SubmitTask(t) PROVE TypeOK'
  BY <1>1 DEF SubmitTask, InsertRoot, Insert, Fresh
<1>2. ASSUME NEW t \in Tasks, DeleteTask(t) PROVE TypeOK'
  BY <1>2 DEF DeleteTask
<1>3. ASSUME NEW d \in Direct, NEW t \in Tasks, RunDirect(d, t) PROVE TypeOK'
  BY <1>3 DEF RunDirect, InsertRoot, Insert, Fresh, Become
<1>4. ASSUME NEW a \in Agents, MatchTask(a) PROVE TypeOK'
  BY <1>4 DEF MatchTask, PollTask, Heads, Queued, SetStatus, Become
<1>5. ASSUME NEW a \in Agents, StartExecution(a) PROVE TypeOK'
  BY <1>5 DEF StartExecution, SetStatus, Become
<1>6. ASSUME NEW a \in Agents, ReportFailure(a) PROVE TypeOK'
  BY <1>6 DEF ReportFailure, SetStatus, Become, Release, Accepts, Refuse, ArmTimer, Outcome, ShouldRetry
<1>7. ASSUME NEW a \in LocalAgents, RequestInput(a) PROVE TypeOK'
  BY <1>7 DEF RequestInput, SetStatus, Become, Exists
<1>8. ASSUME NEW a \in LocalAgents, InputTimeout(a) PROVE TypeOK'
  BY <1>8 DEF InputTimeout, Become
<1>9. ASSUME NEW d \in Runners, NEW r \in Results, Complete(d, r) PROVE TypeOK'
  BY <1>9 DEF Complete, SetStatus, Become, Release, Accepts, Refuse, ArmTimer, Outcome, ShouldRetry, Results
<1>10. ASSUME NEW e \in Execs, RetryExecution(e) PROVE TypeOK'
  BY <1>10 DEF RetryExecution, Retryable, InsertRoot, Insert, Fresh
<1>11. ASSUME NEW e \in Execs, FireTimer(e) PROVE TypeOK'
  BY <1>11 DEF FireTimer, Insert, Fresh
<1>12. ASSUME NEW e \in Execs, Recover(e) PROVE TypeOK'
  BY <1>12 DEF Recover, SetStatus, Valid, VALID_TRANSITIONS, Fresh
<1>13. ASSUME NEW e \in Execs, CancelExecution(e) PROVE TypeOK'
  BY <1>13 DEF CancelExecution, SetStatus, Exists
<1>15. ASSUME NEW e \in Execs, ProvideInput(e) PROVE TypeOK'
  BY <1>15 DEF ProvideInput, Answer, SetStatus, Exists
<1>16. ASSUME NEW e \in Execs, ProvideInputTool(e) PROVE TypeOK'
  BY <1>16 DEF ProvideInputTool, Answer, SetStatus, Exists
<1>17. ASSUME Faults PROVE TypeOK'
  <2>1. CASE RestartServer
    BY <2>1 DEF RestartServer, Fault
  <2>3. ASSUME NEW t \in Tasks, SubmitCut(t) PROVE TypeOK'
    BY <2>3 DEF SubmitCut, Fault, InsertRoot, Insert, Fresh
  <2>4. ASSUME NEW a \in Agents, MatchCut(a) PROVE TypeOK'
    BY <2>4 DEF MatchCut, Fault, Heads, Queued, SetStatus
  <2>5. ASSUME NEW a \in Agents, StartCut(a) PROVE TypeOK'
    BY <2>5 DEF StartCut, Fault, SetStatus, Become
  <2>6. ASSUME NEW a \in LocalAgents, RequestCut(a) PROVE TypeOK'
    BY <2>6 DEF RequestCut, Fault, Become, Exists
  <2>7. ASSUME NEW d \in Runners, NEW r \in Results, CompleteCut(d, r) PROVE TypeOK'
    BY <2>7 DEF CompleteCut, Fault, Accepts, SetStatus, Become, Release, Results
  <2>8. ASSUME NEW e \in Execs, RetryCut(e) PROVE TypeOK'
    BY <2>8 DEF RetryCut, Fault, Retryable, InsertRoot, Insert, Fresh
  <2>9. ASSUME NEW e \in Execs, FireCut(e) PROVE TypeOK'
    BY <2>9 DEF FireCut, Fault, Insert, Fresh
  <2>10. ASSUME NEW e \in Execs, RecoverCut(e) PROVE TypeOK'
    BY <2>10 DEF RecoverCut, Fault, SetStatus
  <2>11. ASSUME NEW e \in Execs, CancelCut(e) PROVE TypeOK'
    BY <2>11 DEF CancelCut, Fault
  <2>12. ASSUME NEW e \in Execs, AnswerCut(e) PROVE TypeOK'
    BY <2>12 DEF AnswerCut, Fault
  <2>13. ASSUME NEW t \in Tasks, RunDirectCut(t) PROVE TypeOK'
    BY <2>13 DEF RunDirectCut, Fault, InsertRoot, Insert, Fresh
  <2>14. ASSUME NEW a \in Agents, ReportCut(a) PROVE TypeOK'
    BY <2>14 DEF ReportCut, Fault, Accepts, SetStatus, Become, Release
  <2> QED
    BY <1>17, <2>1, <2>3, <2>4, <2>5, <2>6, <2>7, <2>8, <2>9, <2>10, <2>11, <2>12,
       <2>13, <2>14
       DEF Faults
<1>18. CASE UNCHANGED vars
  BY <1>18 DEF vars
<1> QED
  BY <1>1, <1>2, <1>3, <1>4, <1>5, <1>6, <1>7, <1>8, <1>9, <1>10, <1>11, <1>12,
     <1>13, <1>15, <1>16, <1>17, <1>18 DEF Next, Handlers

(* The tables of the code hold rows of the declared types: a row that       *)
(* exists belongs to a task that exists and counts its attempts from one.   *)
THEOREM TypeCorrect == Spec => []TypeOK
<1>1. Init => TypeOK
  BY DEF Init, TypeOK, Status
<1> QED
  BY <1>1, TypeStep, PTL DEF Spec

-------------------------------------------------------------------------------
(* The four effects a handler can have on the rows *)

\* The table of transitions has no way from running to a scheduled retry.
LEMMA NoDirectRetry == ~Valid("running", "retry_scheduled")
  BY DEF Valid, VALID_TRANSITIONS

\* Only an assigned or a waiting execution becomes running, only a running one waits.
LEMMA WaysToRunAndWait ==
  ASSUME NEW s
  PROVE  /\ Valid(s, "running") => s \in {"assigned", "waiting_for_input"}
         /\ Valid(s, "waiting_for_input") => s = "running"
  BY DEF Valid, VALID_TRANSITIONS, Status

\* No row changes: at most timers and runners are lost.
LEMMA Quiet ==
  ASSUME Inv, TypeOK', UNCHANGED rowVars, timers' \subseteq timers,
         \A r \in Runners : job'[r] \in {job[r], NoExec}
  PROVE  Inv'
<1> USE DEF Inv, rowVars, Retries, OneRunnerPerExecution, HeldIsTaken, RetriedWasScheduled,
        NoOverlappingAttempts, TimersArePending, AtMostOneRetry, RetryBudget,
        ScheduledIsWithinBudget
<1> QED OBVIOUS

\* A row that is no automatic retry is inserted, and perhaps run at once.
LEMMA NewRow ==
  ASSUME Inv, TypeOK', NEW n \in Fresh, NEW t \in Tasks, NEW att, NEW s \in Status,
         Insert(n, t, att, NoExec, s), s # "retry_scheduled", UNCHANGED timers,
         \/ UNCHANGED job
         \/ s = "running" /\ \E d \in Runners : job' = [job EXCEPT ![d] = n]
  PROVE  Inv'
<1> USE DEF Inv, TypeOK, Fresh, Insert, Retries
<1>1. OneRunnerPerExecution'
  BY DEF OneRunnerPerExecution, HeldIsTaken
<1>2. HeldIsTaken'
  BY DEF HeldIsTaken
<1>3. RetriedWasScheduled'
  BY DEF RetriedWasScheduled
<1>4. NoOverlappingAttempts'
  BY DEF NoOverlappingAttempts, RetriedWasScheduled
<1>5. TimersArePending'
  BY DEF TimersArePending
<1>6. AtMostOneRetry'
  BY DEF AtMostOneRetry
<1>7. RetryBudget'
  BY DEF RetryBudget, RetriedWasScheduled
<1>8. ScheduledIsWithinBudget'
  BY DEF ScheduledIsWithinBudget
<1> QED
  BY <1>1, <1>2, <1>3, <1>4, <1>5, <1>6, <1>7, <1>8

\* A timer fires for an execution that is still scheduled for a retry.
LEMMA NewRetry ==
  ASSUME Inv, TypeOK', NEW n \in Fresh, NEW e \in timers, NEW s \in {"created", "queued"},
         status[e] = "retry_scheduled", Insert(n, task[e], attempt[e] + 1, e, s),
         timers' = timers \ {e}, UNCHANGED job
  PROVE  Inv'
<1> USE DEF Inv, TypeOK, Fresh, Insert, Retries
<1>1. OneRunnerPerExecution'
  BY DEF OneRunnerPerExecution
<1>2. HeldIsTaken'
  BY DEF HeldIsTaken
<1>3. RetriedWasScheduled'
  BY DEF RetriedWasScheduled
<1>4. NoOverlappingAttempts'
  BY DEF NoOverlappingAttempts, HeldIsTaken
<1>5. TimersArePending'
  BY DEF TimersArePending
<1>6. AtMostOneRetry'
  BY DEF AtMostOneRetry, TimersArePending
<1>7. RetryBudget'
  BY DEF RetryBudget, RetriedWasScheduled, ScheduledIsWithinBudget
<1>8. ScheduledIsWithinBudget'
  BY DEF ScheduledIsWithinBudget
<1> QED
  BY <1>1, <1>2, <1>3, <1>4, <1>5, <1>6, <1>7, <1>8

\* The status of one row changes.
LEMMA Moved ==
  ASSUME Inv, TypeOK', NEW e \in Execs, NEW s \in Status \ {"created", "queued"},
         SetStatus(e, s), Exists(e),
         status[e] \in {"retry_scheduled", "cancelled"} => s = "cancelled",
         s = "retry_scheduled" =>
           attempt[e] <= MaxRetries[task[e]] /\ \A r \in Runners : job'[r] # e,
         \A x \in timers' : x \in timers \/ (x = e /\ s = "retry_scheduled"),
         s = "retry_scheduled" \/ status[e] # "retry_scheduled" \/ e \notin timers',
         \/ \A r \in Runners : job'[r] \in {job[r], NoExec}
         \/ status[e] = "queued" /\ \E a \in Runners : job' = [job EXCEPT ![a] = e]
  PROVE  Inv'
<1> USE DEF Inv, TypeOK, SetStatus, Exists, Retries, Status
<1>1. OneRunnerPerExecution'
  BY DEF OneRunnerPerExecution, HeldIsTaken
<1>2. HeldIsTaken'
  BY DEF HeldIsTaken
<1>3. RetriedWasScheduled'
  BY DEF RetriedWasScheduled
<1>4. NoOverlappingAttempts'
  BY DEF NoOverlappingAttempts, RetriedWasScheduled
<1>5. TimersArePending'
  BY DEF TimersArePending, RetriedWasScheduled
<1>6. AtMostOneRetry'
  BY DEF AtMostOneRetry
<1>7. RetryBudget'
  BY DEF RetryBudget
<1>8. ScheduledIsWithinBudget'
  BY DEF ScheduledIsWithinBudget
<1> QED
  BY <1>1, <1>2, <1>3, <1>4, <1>5, <1>6, <1>7, <1>8

-------------------------------------------------------------------------------
(* Every action has one of these effects *)

\* Nothing is held, scheduled or retried before the first submission.
LEMMA InvInit == Init => Inv
  BY DEF Init, Inv, TypeOK, OneRunnerPerExecution, HeldIsTaken, RetriedWasScheduled,
         NoOverlappingAttempts, TimersArePending, AtMostOneRetry, RetryBudget,
         ScheduledIsWithinBudget, Retries, Status

\* A report about the execution a runner holds, which the runner then lets go
\* or holds on to.
LEMMA Report ==
  ASSUME Inv, TypeOK', NEW d \in Runners, NEW r \in Results, job[d] # NoExec,
         IF Accepts(job[d])
           THEN SetStatus(job[d], Outcome(job[d], r)) /\ ArmTimer(job[d], r) /\ Release(d)
           ELSE /\ Refuse(job[d]) /\ UNCHANGED timers
                /\ \E state : Become(d, state, job[d]) \/ Release(d)
  PROVE  Inv'
<1>1. job[d] \in Execs
  BY DEF Inv, TypeOK
<1>2. \A x \in Runners : job'[x] \in {job[x], NoExec}
  BY DEF Inv, TypeOK, Become, Release
<1>3. CASE Accepts(job[d])
  <2>1. \A x \in Runners : job'[x] # job[d]
    BY <1>1, <1>3 DEF Inv, TypeOK, OneRunnerPerExecution, Release, Become
  <2>2. Outcome(job[d], r) \in Status \ {"created", "queued"}
    BY DEF Outcome, Results, Status
  <2>3. Outcome(job[d], r) = "retry_scheduled" => attempt[job[d]] <= MaxRetries[task[job[d]]]
    BY DEF Outcome, ShouldRetry
  <2>4. \A x \in timers' : x \in timers \/ (x = job[d] /\ Outcome(job[d], r) = "retry_scheduled")
    BY <1>3 DEF ArmTimer
  <2> QED
    BY <1>1, <1>2, <1>3, <2>1, <2>2, <2>3, <2>4, Moved DEF Accepts, Exists, Status
<1>4. CASE ~Accepts(job[d]) /\ status[job[d]] = "waiting_for_input"
  BY <1>1, <1>2, <1>4, Moved DEF Refuse, Exists, Status
<1>5. CASE ~Accepts(job[d]) /\ status[job[d]] # "waiting_for_input"
  BY <1>2, <1>5, Quiet DEF Refuse
<1> QED
  BY <1>3, <1>4, <1>5

\* Each handler is one of the kinds of effect above.
LEMMA HandlersKeepInv == ASSUME Inv, TypeOK', Handlers PROVE Inv'
<1>1. ASSUME NEW t \in Tasks, SubmitTask(t) PROVE Inv'
  BY <1>1, NewRow DEF SubmitTask, InsertRoot, Status
<1>2. ASSUME NEW t \in Tasks, DeleteTask(t) PROVE Inv'
  BY <1>2 DEF DeleteTask, Inv, TypeOK, OneRunnerPerExecution, HeldIsTaken, RetriedWasScheduled,
     NoOverlappingAttempts, TimersArePending, AtMostOneRetry, RetryBudget,
     ScheduledIsWithinBudget, Retries
<1>3. ASSUME NEW d \in Direct, NEW t \in Tasks, RunDirect(d, t) PROVE Inv'
  BY <1>3, NewRow DEF RunDirect, InsertRoot, Become, Status
<1>4. ASSUME NEW a \in Agents, MatchTask(a) PROVE Inv'
  BY <1>4, Moved DEF MatchTask, PollTask, Heads, Queued, Become, Exists, Status
<1>5. ASSUME NEW a \in Agents, StartExecution(a) PROVE Inv'
  BY <1>5, Moved, Quiet DEF StartExecution, Become, Exists, Status, Inv, TypeOK
<1>6. ASSUME NEW a \in Agents, ReportFailure(a) PROVE Inv'
  BY <1>6, Report DEF ReportFailure, Results, Inv, TypeOK
<1>7. ASSUME NEW a \in LocalAgents, RequestInput(a) PROVE Inv'
  BY <1>7, Moved, Quiet, WaysToRunAndWait DEF RequestInput, Become, Exists, Status, Inv, TypeOK
<1>8. ASSUME NEW a \in LocalAgents, InputTimeout(a) PROVE Inv'
  BY <1>8, Quiet DEF InputTimeout, Become, Inv, TypeOK
<1>9. ASSUME NEW d \in Runners, NEW r \in Results, Complete(d, r) PROVE Inv'
  BY <1>9, Report DEF Complete, Inv, TypeOK
<1>10. ASSUME NEW e \in Execs, RetryExecution(e) PROVE Inv'
  BY <1>10, NewRow DEF RetryExecution, Retryable, InsertRoot, Status, Inv, TypeOK
<1>11. ASSUME NEW e \in Execs, FireTimer(e) PROVE Inv'
  BY <1>11, NewRetry, Quiet DEF FireTimer
<1>12. ASSUME NEW e \in Execs, Recover(e) PROVE Inv'
  BY <1>12, Moved, Quiet, NoDirectRetry DEF Recover, Exists, Status
<1>13. ASSUME NEW e \in Execs, CancelExecution(e) PROVE Inv'
  BY <1>13, Moved, Quiet DEF CancelExecution, Exists, Status
<1>15. ASSUME NEW e \in Execs, ProvideInput(e) PROVE Inv'
  BY <1>15, Moved, Quiet, WaysToRunAndWait DEF ProvideInput, Answer, Exists, Status
<1>16. ASSUME NEW e \in Execs, ProvideInputTool(e) PROVE Inv'
  BY <1>16, Moved, Quiet, WaysToRunAndWait DEF ProvideInputTool, Answer, Exists, Status
<1> QED
  BY <1>1, <1>2, <1>3, <1>4, <1>5, <1>6, <1>7, <1>8, <1>9, <1>10, <1>11, <1>12,
     <1>13, <1>15, <1>16 DEF Handlers

\* So is what is left of a handler that stops half-way, and a restart.
LEMMA FaultsKeepInv == ASSUME Inv, TypeOK', Faults PROVE Inv'
<1>1. CASE RestartServer
  BY <1>1, Quiet DEF RestartServer, Inv, TypeOK
<1>3. ASSUME NEW t \in Tasks, SubmitCut(t) PROVE Inv'
  BY <1>3, NewRow DEF SubmitCut, InsertRoot, Status
<1>4. ASSUME NEW t \in Tasks, RunDirectCut(t) PROVE Inv'
  BY <1>4, NewRow DEF RunDirectCut, InsertRoot, Status
<1>5. ASSUME NEW a \in Agents, MatchCut(a) PROVE Inv'
  BY <1>5, Moved DEF MatchCut, Heads, Queued, Exists, Status
<1>6. ASSUME NEW a \in Agents, StartCut(a) PROVE Inv'
  BY <1>6, Moved DEF StartCut, Become, Exists, Status, Inv, TypeOK
<1>7. ASSUME NEW a \in Agents, ReportCut(a) PROVE Inv'
  BY <1>7, Moved DEF ReportCut, Accepts, Become, Release, Exists, Status, Inv, TypeOK
<1>8. ASSUME NEW a \in LocalAgents, RequestCut(a) PROVE Inv'
  BY <1>8, Quiet DEF RequestCut, Become, Inv, TypeOK
<1>9. ASSUME NEW d \in Runners, NEW r \in Results, CompleteCut(d, r) PROVE Inv'
  BY <1>9, Moved DEF CompleteCut, Accepts, Become, Release, Results, Exists, Status, Inv, TypeOK
<1>10. ASSUME NEW e \in Execs, RetryCut(e) PROVE Inv'
  BY <1>10, NewRow DEF RetryCut, Retryable, InsertRoot, Status, Inv, TypeOK
<1>11. ASSUME NEW e \in Execs, FireCut(e) PROVE Inv'
  BY <1>11, NewRetry DEF FireCut
<1>12. ASSUME NEW e \in Execs, RecoverCut(e) PROVE Inv'
  BY <1>12, Moved DEF RecoverCut, Exists, Status
<1>13. ASSUME NEW e \in Execs, CancelCut(e) PROVE Inv'
  BY <1>13, Quiet DEF CancelCut
<1>14. ASSUME NEW e \in Execs, AnswerCut(e) PROVE Inv'
  BY <1>14, Quiet DEF AnswerCut
<1> QED
  BY <1>1, <1>3, <1>4, <1>5, <1>6, <1>7, <1>8, <1>9, <1>10, <1>11, <1>12, <1>13, <1>14
     DEF Faults

\* Every step keeps the invariant.
LEMMA InvStep == Inv /\ [Next]_vars => Inv'
<1> SUFFICES ASSUME Inv, [Next]_vars PROVE Inv'
  OBVIOUS
<1>1. TypeOK'
  BY TypeStep DEF Inv
<1>2. CASE UNCHANGED vars
  BY <1>1, <1>2, Quiet DEF vars, rowVars
<1> QED
  BY <1>1, <1>2, HandlersKeepInv, FaultsKeepInv DEF Next

\* The invariant holds in every behaviour.
LEMMA Invariance == Spec => []Inv
  BY InvInit, InvStep, PTL DEF Spec

-------------------------------------------------------------------------------
(* What follows *)

(* No two runners, be they agents, direct runs or processes, ever hold the  *)
(* same execution (dequeueExecution, runDirect).                            *)
THEOREM OneRunner == Spec => []OneRunnerPerExecution
<1>1. Inv => OneRunnerPerExecution
  BY DEF Inv
<1> QED
  BY <1>1, Invariance, PTL

(* No attempt starts while a runner still holds the attempt it retries,     *)
(* with late reports, crashes and cancellations in any order.               *)
THEOREM NoOverlap == Spec => []NoOverlappingAttempts
<1>1. Inv => NoOverlappingAttempts
  BY DEF Inv
<1> QED
  BY <1>1, Invariance, PTL

(* A failure is retried at most once, although the failed row stays         *)
(* retry_scheduled (QueueManager._fireTimer).                               *)
THEOREM OneRetry == Spec => []AtMostOneRetry
<1>1. Inv => AtMostOneRetry
  BY DEF Inv
<1> QED
  BY <1>1, Invariance, PTL

(* The chain of automatic retries is numbered without a gap and ends within *)
(* the task's budget (shouldRetry, scheduleRetry, recoverExecution).        *)
THEOREM BudgetKept == Spec => []RetryBudget
<1>1. Inv => RetryBudget
  BY DEF Inv
<1> QED
  BY <1>1, Invariance, PTL

(* The three together: automatic attempts of a task follow each other.      *)
THEOREM AttemptsInOrder == Spec => []AttemptsFollowEachOther
<1>1. Inv => AttemptsFollowEachOther
  BY DEF Inv, AttemptsFollowEachOther
<1> QED
  BY <1>1, Invariance, PTL

(* An armed timer always belongs to an execution not retried yet.           *)
THEOREM TimersPending == Spec => []TimersArePending
<1>1. Inv => TimersArePending
  BY DEF Inv
<1> QED
  BY <1>1, Invariance, PTL

-------------------------------------------------------------------------------
(* What a step does to the rows *)

\* Where the status of a row may go, in the terms of TaskRun.
Follows(from, to) ==
  \/ PhaseOf(from) = PhaseOf(to) /\ PhaseOf(from) # "over"
  \/ PhaseOf(from) = "ready" /\ PhaseOf(to) = "active"
  \/ PhaseOf(from) = "active" /\ PhaseOf(to) \in {"backoff", "over"}
  \/ PhaseOf(from) \in {"ready", "backoff"} /\ to = "cancelled"

\* Row n is inserted for a submission, a direct run or an operator's retry ...
NewRun(n) ==
  \E t \in Tasks, att \in Nat \ {0}, s \in {"created", "queued", "assigned", "running"} :
    Insert(n, t, att, NoExec, s)

\* ... or by the timer of row e.
NewAttempt(n, e) ==
  /\ status[e] = "retry_scheduled" /\ Retries(e) = {}
  /\ \E s \in {"created", "queued"} : Insert(n, task[e], attempt[e] + 1, e, s)

StatusMoves(e) ==
  Exists(e) /\ \E s \in Status : SetStatus(e, s) /\ Follows(status[e], s)

\* The effects of a step on the rows.
RowEffect ==
  \/ UNCHANGED rowVars
  \/ \E n \in Fresh : NewRun(n) \/ \E e \in Execs : NewAttempt(n, e)
  \/ \E e \in Execs : StatusMoves(e)
  \/ \E t \in Tasks : DeleteTask(t)

\* The row a runner holds, and the parts of the invariant the effects rest on.
LEMMA HeldRow ==
  ASSUME Inv
  PROVE  /\ \A r \in Runners : pc[r] # "idle" => job[r] \in Execs
         /\ \A e \in timers : e \in Execs /\ Retries(e) = {}
         /\ \A e \in Execs : Exists(e) => task[e] \in Tasks /\ attempt[e] \in Nat \ {0}
  BY DEF Inv, TypeOK, TimersArePending, Exists

\* What a report makes of a running execution, the transitions of a request for
\* input and those to cancelled.
LEMMA Moves ==
  /\ \A e, r : r \in Results => Outcome(e, r) \in Status /\ Follows("running", Outcome(e, r))
  /\ \A r \in Results \cup {"dead_lettered"} : r \in Status /\ Follows("running", r)
  /\ \A s : Valid(s, "running") => Follows(s, "running")
  /\ \A s : Valid(s, "cancelled") => Follows(s, "cancelled")
  /\ \A s : Valid(s, "waiting_for_input") => Follows(s, "waiting_for_input")
  /\ Follows("queued", "assigned") /\ Follows("assigned", "running")
  /\ Follows("waiting_for_input", "running")
<1> USE DEF Follows, PhaseOf
<1>1. \A e, r : r \in Results => Outcome(e, r) \in Status /\ Follows("running", Outcome(e, r))
  BY DEF Outcome, Results, Status
<1>2. \A r \in Results \cup {"dead_lettered"} : r \in Status /\ Follows("running", r)
  BY DEF Results, Status
<1>3. \A s : Valid(s, "running") => Follows(s, "running")
  BY WaysToRunAndWait
<1>4. \A s : Valid(s, "cancelled") => Follows(s, "cancelled")
  BY DEF Valid, VALID_TRANSITIONS, Status
<1>5. \A s : Valid(s, "waiting_for_input") => Follows(s, "waiting_for_input")
  BY WaysToRunAndWait
<1> QED
  BY <1>1, <1>2, <1>3, <1>4, <1>5

\* Every handler has one of the effects.
LEMMA HandlersEffect == ASSUME Inv, Handlers PROVE RowEffect
<1> USE DEF RowEffect
<1>1. ASSUME NEW t \in Tasks, SubmitTask(t) PROVE RowEffect
  BY <1>1 DEF SubmitTask, InsertRoot, NewRun
<1>2. ASSUME NEW t \in Tasks, DeleteTask(t) PROVE RowEffect
  BY <1>2
<1>3. ASSUME NEW d \in Direct, NEW t \in Tasks, RunDirect(d, t) PROVE RowEffect
  BY <1>3 DEF RunDirect, InsertRoot, NewRun
<1>4. ASSUME NEW a \in Agents, MatchTask(a) PROVE RowEffect
  BY <1>4, Moves DEF MatchTask, Heads, Queued, StatusMoves, Exists, Status
<1>5. ASSUME NEW a \in Agents, StartExecution(a) PROVE RowEffect
  BY <1>5, HeldRow, Moves DEF StartExecution, StatusMoves, Exists, Status
<1>6. ASSUME NEW a \in Agents, ReportFailure(a) PROVE RowEffect
  BY <1>6, HeldRow, Moves DEF ReportFailure, Accepts, Refuse, StatusMoves, Exists, Status, Results
<1>7. ASSUME NEW a \in LocalAgents, RequestInput(a) PROVE RowEffect
  BY <1>7, HeldRow, Moves DEF RequestInput, StatusMoves, Status
<1>8. ASSUME NEW a \in LocalAgents, InputTimeout(a) PROVE RowEffect
  BY <1>8 DEF InputTimeout
<1>9. ASSUME NEW d \in Runners, NEW r \in Results, Complete(d, r) PROVE RowEffect
  BY <1>9, HeldRow, Moves DEF Complete, Accepts, Refuse, StatusMoves, Exists, Status
<1>10. ASSUME NEW e \in Execs, RetryExecution(e) PROVE RowEffect
  BY <1>10, HeldRow DEF RetryExecution, Retryable, Exists, Status, InsertRoot, NewRun
<1>11. ASSUME NEW e \in Execs, FireTimer(e) PROVE RowEffect
  BY <1>11, HeldRow DEF FireTimer, NewAttempt
<1>12. ASSUME NEW e \in Execs, Recover(e) PROVE RowEffect
  BY <1>12, Moves, NoDirectRetry DEF Recover, StatusMoves, Exists, Status
<1>13. ASSUME NEW e \in Execs, CancelExecution(e) PROVE RowEffect
  BY <1>13, Moves DEF CancelExecution, StatusMoves, Status
<1>15. ASSUME NEW e \in Execs, ProvideInput(e) PROVE RowEffect
  BY <1>15, Moves DEF ProvideInput, Answer, StatusMoves, Status
<1>16. ASSUME NEW e \in Execs, ProvideInputTool(e) PROVE RowEffect
  BY <1>16, Moves DEF ProvideInputTool, Answer, StatusMoves, Status
<1> QED
  BY <1>1, <1>2, <1>3, <1>4, <1>5, <1>6, <1>7, <1>8, <1>9, <1>10, <1>11, <1>12,
     <1>13, <1>15, <1>16 DEF Handlers

\* So has every fault.
LEMMA FaultsEffect == ASSUME Inv, Faults PROVE RowEffect
<1> USE DEF RowEffect
<1>1. ASSUME RestartServer PROVE RowEffect
  BY <1>1 DEF RestartServer
<1>3. ASSUME NEW t \in Tasks, SubmitCut(t) PROVE RowEffect
  BY <1>3 DEF SubmitCut, InsertRoot, NewRun
<1>4. ASSUME NEW t \in Tasks, RunDirectCut(t) PROVE RowEffect
  BY <1>4 DEF RunDirectCut, InsertRoot, NewRun
<1>5. ASSUME NEW a \in Agents, MatchCut(a) PROVE RowEffect
  BY <1>5, Moves DEF MatchCut, Heads, Queued, StatusMoves, Exists, Status
<1>6. ASSUME NEW a \in Agents, StartCut(a) PROVE RowEffect
  BY <1>6, HeldRow, Moves DEF StartCut, StatusMoves, Exists, Status
<1>7. ASSUME NEW a \in Agents, ReportCut(a) PROVE RowEffect
  BY <1>7, HeldRow, Moves DEF ReportCut, Accepts, StatusMoves, Exists, Status, Results
<1>8. ASSUME NEW a \in LocalAgents, RequestCut(a) PROVE RowEffect
  BY <1>8 DEF RequestCut
<1>9. ASSUME NEW d \in Runners, NEW r \in Results, CompleteCut(d, r) PROVE RowEffect
  BY <1>9, HeldRow, Moves DEF CompleteCut, Accepts, StatusMoves, Exists, Status
<1>10. ASSUME NEW e \in Execs, RetryCut(e) PROVE RowEffect
  BY <1>10, HeldRow DEF RetryCut, Retryable, Exists, Status, InsertRoot, NewRun
<1>11. ASSUME NEW e \in Execs, FireCut(e) PROVE RowEffect
  BY <1>11, HeldRow DEF FireCut, NewAttempt
<1>12. ASSUME NEW e \in Execs, RecoverCut(e) PROVE RowEffect
  BY <1>12, Moves DEF RecoverCut, StatusMoves, Exists, Status, Results
<1>13. ASSUME NEW e \in Execs, CancelCut(e) PROVE RowEffect
  BY <1>13 DEF CancelCut
<1>14. ASSUME NEW e \in Execs, AnswerCut(e) PROVE RowEffect
  BY <1>14 DEF AnswerCut
<1> QED
  BY <1>1, <1>3, <1>4, <1>5, <1>6, <1>7, <1>8, <1>9, <1>10, <1>11, <1>12, <1>13, <1>14
     DEF Faults

\* So has every step.
LEMMA StepEffect == Inv /\ [Next]_vars => RowEffect
  BY HandlersEffect, FaultsEffect DEF Next, vars, rowVars, RowEffect

-------------------------------------------------------------------------------
(* What a step may never do *)

\* A step leaves settled executions alone.
SettledStep ==
  \A e \in Execs : status[e] \in TERMINAL_STATUSES => status'[e] \in {status[e], "gone"}

\* No effect on the rows changes a settled status.
LEMMA StepSettles == Inv /\ [Next]_vars => SettledStep
<1> SUFFICES ASSUME TypeOK, RowEffect PROVE SettledStep
  BY StepEffect DEF Inv
<1> USE DEF SettledStep, TypeOK, TERMINAL_STATUSES
<1>1. CASE UNCHANGED rowVars
  BY <1>1 DEF rowVars
<1>2. ASSUME NEW n \in Fresh, NewRun(n) PROVE SettledStep
  BY <1>2 DEF NewRun, Insert, Fresh
<1>3. ASSUME NEW n \in Fresh, NEW e \in Execs, NewAttempt(n, e) PROVE SettledStep
  BY <1>3 DEF NewAttempt, Insert, Fresh
<1>4. ASSUME NEW e \in Execs, StatusMoves(e) PROVE SettledStep
  BY <1>4 DEF StatusMoves, SetStatus, Follows, PhaseOf
<1>5. ASSUME NEW t \in Tasks, DeleteTask(t) PROVE SettledStep
  BY <1>5 DEF DeleteTask
<1> QED
  BY <1>1, <1>2, <1>3, <1>4, <1>5 DEF RowEffect

(* Nothing reopens or relabels a settled execution: no late report, no      *)
(* answer, no timer, no check of the health monitor.                        *)
THEOREM SettledForGood == Spec => SettledIsFinal
<1>1. Inv /\ [Next]_vars =>
        [\A e \in Execs : status[e] \in TERMINAL_STATUSES =>
           status'[e] \in {status[e], "gone"}]_vars
  BY StepSettles DEF SettledStep
<1> QED
  BY <1>1, Invariance, PTL DEF Spec, SettledIsFinal

-------------------------------------------------------------------------------
(* The orchestrator implements TaskRun *)

\* Every row belongs to a run, and to the task of that run.
RowsBelongToRuns ==
  \A e \in Execs :
    /\ status[e] = "none" => task[e] = NoTask /\ origin[e] = NoExec
    /\ status[e] # "none" =>
         /\ origin[e] \in Execs /\ IsRun(origin[e])
         /\ task[e] = task[origin[e]]

\* Row e is the latest attempt of run r.
IsLatest(e, r) == origin[e] = r /\ Retries(e) = {}

\* The attempts of a run end in one row.
RunsEndInOneRow ==
  \A r \in Execs : IsRun(r) =>
    \E e \in Execs : IsLatest(e, r) /\ \A f \in Execs : IsLatest(f, r) => f = e

RunInv == Inv /\ RowsBelongToRuns /\ RunsEndInOneRow

\* What Latest and the mapping say of a run; what it is for a run to look the same.
LatestFact ==
  RunsEndInOneRow =>
    \A e \in Execs, r \in Execs : IsRun(r) /\ IsLatest(e, r) => Latest(r) = e

BarFact ==
  \A r \in Execs :
    /\ taskBar[r] = IF IsRun(r) THEN task[r] ELSE NoTask
    /\ phaseBar[r] = IF IsRun(r) THEN PhaseOf(status[Latest(r)]) ELSE "absent"
    /\ triesBar[r] = IF IsRun(r) /\ status[Latest(r)] # "gone" THEN attempt[Latest(r)] ELSE 0
    /\ outcomeBar[r] = IF IsRun(r) /\ PhaseOf(status[Latest(r)]) = "over"
                       THEN status[Latest(r)] ELSE "none"

BarDomains ==
  /\ taskBar = [r \in Execs |-> taskBar[r]] /\ phaseBar = [r \in Execs |-> phaseBar[r]]
  /\ triesBar = [r \in Execs |-> triesBar[r]] /\ outcomeBar = [r \in Execs |-> outcomeBar[r]]

MappingFacts == LatestFact /\ BarFact /\ BarDomains

\* They follow from the definitions, now ...
LEMMA Mapping == MappingFacts
<1>1. LatestFact
  BY DEF LatestFact, RunsEndInOneRow, IsLatest, Latest
<1>2. BarFact
  BY DEF BarFact, taskBar, phaseBar, triesBar, outcomeBar
<1>3. BarDomains
  BY DEF BarDomains, taskBar, phaseBar, triesBar, outcomeBar
<1> QED
  BY <1>1, <1>2, <1>3 DEF MappingFacts

\* ... and after the step.
LEMMA MappingLater == MappingFacts'
BY Mapping, PTL

\* Run r looks the same after the step; so do all; so do all but r.
SameAt(r) ==
  /\ taskBar'[r] = taskBar[r] /\ phaseBar'[r] = phaseBar[r]
  /\ triesBar'[r] = triesBar[r] /\ outcomeBar'[r] = outcomeBar[r]

BarsSame == UNCHANGED <<taskBar, phaseBar, triesBar, outcomeBar>>

BarsDifferAt(r) ==
  /\ taskBar' = [taskBar EXCEPT ![r] = taskBar'[r]]
  /\ phaseBar' = [phaseBar EXCEPT ![r] = phaseBar'[r]]
  /\ triesBar' = [triesBar EXCEPT ![r] = triesBar'[r]]
  /\ outcomeBar' = [outcomeBar EXCEPT ![r] = outcomeBar'[r]]

\* Functions that agree everywhere, or everywhere but in one place.
LEMMA EqualFunctions ==
  ASSUME NEW S, NEW f, NEW g, f = [x \in S |-> f[x]], g = [x \in S |-> g[x]]
  PROVE  /\ (\A x \in S : g[x] = f[x]) => g = f
         /\ \A r \in S : (\A x \in S \ {r} : g[x] = f[x]) => g = [f EXCEPT ![r] = g[r]]
OBVIOUS

\* A step that touches no run is a stutter.
LEMMA SameEverywhere ==
  ASSUME \A r \in Execs : SameAt(r) PROVE BarsSame
BY Mapping, MappingLater, EqualFunctions DEF SameAt, BarsSame, MappingFacts, BarDomains

\* A step that touches one run changes the mapping there only.
LEMMA SameElsewhere ==
  ASSUME NEW r \in Execs, \A x \in Execs \ {r} : SameAt(x)
  PROVE  BarsDifferAt(r)
<1>1. BarDomains /\ BarDomains'
  BY Mapping, MappingLater DEF MappingFacts
<1>2. taskBar' = [taskBar EXCEPT ![r] = taskBar'[r]]
  BY <1>1, EqualFunctions DEF SameAt, BarDomains
<1>3. phaseBar' = [phaseBar EXCEPT ![r] = phaseBar'[r]]
  BY <1>1, EqualFunctions DEF SameAt, BarDomains
<1>4. triesBar' = [triesBar EXCEPT ![r] = triesBar'[r]]
  BY <1>1, EqualFunctions DEF SameAt, BarDomains
<1>5. outcomeBar' = [outcomeBar EXCEPT ![r] = outcomeBar'[r]]
  BY <1>1, EqualFunctions DEF SameAt, BarDomains
<1> QED
  BY <1>2, <1>3, <1>4, <1>5 DEF BarsDifferAt

\* A run whose latest row, task and status stay looks the same.
LEMMA Untouched ==
  ASSUME RunsEndInOneRow, RunsEndInOneRow', NEW r \in Execs, IsRun(r), IsRun(r)',
         task'[r] = task[r],
         NEW e \in Execs, IsLatest(e, r), IsLatest(e, r)',
         status'[e] = status[e], attempt'[e] = attempt[e]
  PROVE  SameAt(r)
<1>1. Latest(r) = e /\ Latest(r)' = e
  BY Mapping, MappingLater DEF MappingFacts, LatestFact
<1> QED
  BY <1>1, Mapping, MappingLater DEF SameAt, MappingFacts, BarFact

\* So does a row that begins no run.
LEMMA StillAbsent ==
  ASSUME NEW r \in Execs, ~IsRun(r), ~IsRun(r)' PROVE SameAt(r)
BY Mapping, MappingLater DEF SameAt, MappingFacts, BarFact

\* The rows do not change.
LEMMA RowsAtRest ==
  ASSUME RunInv, UNCHANGED rowVars, Inv' PROVE RunInv' /\ BarsSame
<1>1. RowsBelongToRuns'
  BY DEF RunInv, RowsBelongToRuns, IsRun, rowVars
<1>2. RunsEndInOneRow'
  BY DEF RunInv, RunsEndInOneRow, IsRun, IsLatest, Retries, rowVars
<1>3. BarsSame
  BY DEF BarsSame, taskBar, phaseBar, triesBar, outcomeBar, Latest, IsRun, Retries, rowVars
<1> QED
  BY <1>1, <1>2, <1>3 DEF RunInv

\* A run begins.
LEMMA RunBegins ==
  ASSUME RunInv, Inv', NEW n \in Fresh, NewRun(n)
  PROVE  RunInv' /\ Run!Begin(n)
<1> USE DEF Fresh, NewRun, Insert
<1>1. PICK t \in Tasks, att \in Nat \ {0}, s \in {"created", "queued", "assigned", "running"} :
        Insert(n, t, att, NoExec, s)
  OBVIOUS
<1>2. TypeOK /\ n \in Execs /\ status[n] = "none"
  BY DEF RunInv, Inv
<1>3. \A x \in Execs : Retries(x)' = Retries(x) 
  BY <1>1, <1>2 DEF Retries, TypeOK
<1>4. Retries(n) = {}
  BY <1>2 DEF RunInv, Inv, RetriedWasScheduled, Retries, TypeOK
<1>5. RowsBelongToRuns'
  BY <1>1, <1>2 DEF RunInv, RowsBelongToRuns, IsRun, TypeOK
<1>6. \A x \in Execs, r \in Execs \ {n} : IsLatest(x, r)' <=> IsLatest(x, r)
  BY <1>1, <1>2, <1>3 DEF IsLatest, RunInv, RowsBelongToRuns, TypeOK
<1>7. \A x \in Execs : IsLatest(x, n)' <=> x = n
  BY <1>1, <1>2, <1>3, <1>4 DEF IsLatest, RunInv, RowsBelongToRuns, TypeOK, IsRun
<1>8. \A r \in Execs \ {n} : IsRun(r)' <=> IsRun(r)
  BY <1>1, <1>2 DEF IsRun, TypeOK
<1>9. RunsEndInOneRow'
  BY <1>2, <1>6, <1>7, <1>8 DEF RunInv, RunsEndInOneRow
<1>10. ASSUME NEW r \in Execs \ {n} PROVE SameAt(r)
  <2>1. CASE ~IsRun(r)
    BY <2>1, <1>8, StillAbsent
  <2>2. CASE IsRun(r)
    <3>1. PICK e \in Execs : IsLatest(e, r)
      BY <2>2 DEF RunInv, RunsEndInOneRow
    <3>2. e # n
      BY <3>1, <1>2 DEF IsLatest, RunInv, RowsBelongToRuns, TypeOK
    <3> QED
      BY <1>1, <1>2, <1>6, <1>8, <1>9, <2>2, <3>1, <3>2, Untouched DEF RunInv, TypeOK
  <2> QED
    BY <2>1, <2>2
<1>11. ~IsRun(n) /\ IsRun(n)'
  BY <1>1, <1>2 DEF IsRun, TypeOK
<1>12. Latest(n)' = n
  BY <1>2, <1>7, <1>9, <1>11, MappingLater DEF MappingFacts, LatestFact
<1>13. BarsDifferAt(n)
  BY <1>2, <1>10, SameElsewhere
<1>14. /\ phaseBar[n] = "absent" /\ phaseBar'[n] \in {"ready", "active"}
       /\ outcomeBar[n] = "none" /\ outcomeBar'[n] = "none"
       /\ taskBar'[n] = t /\ triesBar'[n] = att
  BY <1>1, <1>2, <1>11, <1>12, Mapping, MappingLater DEF MappingFacts, BarFact, TypeOK, PhaseOf
<1>15. UNCHANGED outcomeBar
  BY <1>13, <1>14, <1>2, Mapping DEF BarsDifferAt, MappingFacts, BarDomains
<1> QED
  BY <1>1, <1>5, <1>9, <1>13, <1>14, <1>15 DEF RunInv, Run!Begin, Run!Move, BarsDifferAt

\* The latest attempt of a run is followed by another.
LEMMA RunContinues ==
  ASSUME RunInv, Inv', NEW n \in Fresh, NEW e \in Execs, NewAttempt(n, e)
  PROVE  RunInv' /\ Run!TryAgain(origin[e])
<1> USE DEF Fresh, NewAttempt, Insert
<1> DEFINE o == origin[e]
<1>1. PICK s \in {"created", "queued"} : Insert(n, task[e], attempt[e] + 1, e, s)
  OBVIOUS
<1>2. TypeOK /\ n \in Execs /\ status[n] = "none" /\ n # e /\ e # NoExec
  BY DEF RunInv, Inv
<1>3. o \in Execs /\ IsRun(o) /\ o # n /\ IsLatest(e, o) /\ task[e] = task[o]
  BY <1>2 DEF RunInv, RowsBelongToRuns, IsLatest, IsRun
<1>4. Retries(n) = {}
  BY <1>2 DEF RunInv, Inv, RetriedWasScheduled, Retries, TypeOK
<1>5. \A x \in Execs : Retries(x)' = IF x = e THEN {n} ELSE Retries(x)
  <2>1. ASSUME NEW x \in Execs \ {e} PROVE Retries(x)' = Retries(x)
    BY <1>1, <1>2 DEF Retries, TypeOK, RunInv, Inv
  <2>2. Retries(e)' = {n}
    BY <1>1, <1>2 DEF Retries, TypeOK, NewAttempt
  <2> QED
    BY <2>1, <2>2
<1>6. RowsBelongToRuns'
  BY <1>1, <1>2, <1>3 DEF RunInv, RowsBelongToRuns, IsRun, TypeOK
<1>7. \A x \in Execs, r \in Execs \ {o} : IsLatest(x, r)' <=> IsLatest(x, r)
  BY <1>1, <1>2, <1>3, <1>5 DEF IsLatest, RunInv, RowsBelongToRuns, TypeOK
<1>8. \A x \in Execs : IsLatest(x, o)' <=> x = n
  <2>1. \A x \in Execs : IsLatest(x, o) => x = e
    BY <1>3 DEF RunInv, RunsEndInOneRow
  <2>2. IsLatest(n, o)'
    BY <1>1, <1>2, <1>4, <1>5 DEF IsLatest, TypeOK
  <2>3. ~IsLatest(e, o)'
    BY <1>5 DEF IsLatest
  <2>4. ASSUME NEW x \in Execs \ {n, e}, IsLatest(x, o)' PROVE FALSE
    <3>1. origin[x] = o /\ Retries(x) = {}
      BY <1>1, <1>2, <1>5, <2>4 DEF IsLatest, TypeOK
    <3> QED
      BY <2>1, <2>4, <3>1 DEF IsLatest
  <2> QED
    BY <1>2, <2>2, <2>3, <2>4
<1>9. \A r \in Execs : IsRun(r)' <=> IsRun(r)
  BY <1>1, <1>2 DEF IsRun, TypeOK
<1>10. RunsEndInOneRow'
  BY <1>2, <1>3, <1>7, <1>8, <1>9 DEF RunInv, RunsEndInOneRow
<1>11. ASSUME NEW r \in Execs \ {o} PROVE SameAt(r)
  <2>1. CASE ~IsRun(r)
    BY <2>1, <1>9, StillAbsent
  <2>2. CASE IsRun(r)
    <3>1. PICK f \in Execs : IsLatest(f, r)
      BY <2>2 DEF RunInv, RunsEndInOneRow
    <3>2. f # n /\ r # n
      BY <3>1, <2>2, <1>2 DEF IsLatest, RunInv, RowsBelongToRuns, TypeOK, IsRun
    <3> QED
      BY <1>1, <1>2, <1>7, <1>9, <1>10, <2>2, <3>1, <3>2, Untouched DEF RunInv, TypeOK
  <2> QED
    BY <2>1, <2>2
<1>12. Latest(o) = e /\ Latest(o)' = n
  BY <1>2, <1>3, <1>8, <1>9, <1>10, Mapping, MappingLater DEF MappingFacts, LatestFact, RunInv
<1>13. BarsDifferAt(o)
  BY <1>3, <1>11, SameElsewhere
<1>14. /\ phaseBar[o] = "backoff" /\ phaseBar'[o] \in {"ready"}
       /\ outcomeBar'[o] = outcomeBar[o] /\ taskBar'[o] = taskBar[o]
       /\ triesBar'[o] = triesBar[o] + 1
  BY <1>1, <1>2, <1>3, <1>9, <1>12, Mapping, MappingLater
     DEF MappingFacts, BarFact, TypeOK, PhaseOf
<1>15. UNCHANGED <<taskBar, outcomeBar>>
  BY <1>3, <1>13, <1>14, Mapping DEF BarsDifferAt, MappingFacts, BarDomains
<1> QED
  BY <1>3, <1>6, <1>10, <1>13, <1>14, <1>15 DEF RunInv, Run!TryAgain, Run!Move, BarsDifferAt

\* The status of a row changes.
LEMMA RunMoves ==
  ASSUME RunInv, Inv', NEW e \in Execs, StatusMoves(e)
  PROVE  /\ RunInv'
         /\ \/ BarsSame
            \/ \E r \in Execs : Run!Activate(r) \/ Run!BackOff(r) \/ Run!End(r)
<1> USE DEF StatusMoves, SetStatus
<1> DEFINE o == origin[e]
<1>1. PICK s \in Status : SetStatus(e, s) /\ Follows(status[e], s)
  OBVIOUS
<1>2. TypeOK /\ status[e] \in Status /\ status[e] # "none" /\ status[e] # "gone"
  BY DEF RunInv, Inv, Exists, Status
<1>3. o \in Execs /\ IsRun(o)
  BY <1>2 DEF RunInv, RowsBelongToRuns
<1>4. \A x \in Execs, r \in Execs : IsLatest(x, r)' <=> IsLatest(x, r)
  BY <1>1 DEF IsLatest, Retries
<1>5. \A r \in Execs : IsRun(r)' <=> IsRun(r)
  BY <1>1, <1>2 DEF IsRun, TypeOK, Status
<1>6. RowsBelongToRuns'
  BY <1>1, <1>2, <1>5 DEF RunInv, RowsBelongToRuns, TypeOK, Status
<1>7. RunsEndInOneRow'
  BY <1>4, <1>5 DEF RunInv, RunsEndInOneRow
<1>8. ASSUME NEW r \in Execs, r # o \/ ~IsLatest(e, o) PROVE SameAt(r)
  <2>1. CASE ~IsRun(r)
    BY <2>1, <1>5, StillAbsent
  <2>2. CASE IsRun(r)
    <3>1. PICK f \in Execs : IsLatest(f, r)
      BY <2>2 DEF RunInv, RunsEndInOneRow
    <3>2. f # e
      BY <3>1, <1>8 DEF IsLatest
    <3> QED
      BY <1>1, <1>2, <1>4, <1>5, <1>7, <2>2, <3>1, <3>2, Untouched DEF RunInv, TypeOK
  <2> QED
    BY <2>1, <2>2
<1>9. CASE ~IsLatest(e, o)
  BY <1>6, <1>7, <1>8, <1>9, SameEverywhere DEF RunInv
<1>10. CASE IsLatest(e, o)
  <2>1. Latest(o) = e /\ Latest(o)' = e
    BY <1>3, <1>4, <1>5, <1>7, <1>10, Mapping, MappingLater DEF MappingFacts, LatestFact, RunInv
  <2>2. BarsDifferAt(o)
    BY <1>3, <1>8, SameElsewhere
  <2>3. status'[e] = s /\ attempt'[e] = attempt[e] /\ task' = task
    BY <1>1, <1>2 DEF TypeOK
  <2>4. /\ taskBar'[o] = taskBar[o] /\ triesBar'[o] = triesBar[o]
        /\ taskBar[o] = task[o] /\ triesBar[o] = attempt[e]
        /\ phaseBar[o] = PhaseOf(status[e]) /\ phaseBar'[o] = PhaseOf(s)
        /\ outcomeBar[o] = IF PhaseOf(status[e]) = "over" THEN status[e] ELSE "none"
        /\ outcomeBar'[o] = IF PhaseOf(s) = "over" THEN s ELSE "none"
    BY <1>2, <1>3, <1>5, <2>1, <2>3, Mapping, MappingLater DEF MappingFacts, BarFact, Status
  <2>5. UNCHANGED <<taskBar, triesBar>>
    BY <1>3, <2>2, <2>4, Mapping DEF BarsDifferAt, MappingFacts, BarDomains
  <2>6. PhaseOf(s) # "over" /\ PhaseOf(status[e]) # "over" => UNCHANGED outcomeBar
    BY <1>3, <2>2, <2>4, Mapping DEF BarsDifferAt, MappingFacts, BarDomains
  <2>7. CASE PhaseOf(status[e]) = PhaseOf(s) /\ PhaseOf(s) # "over"
    <3>1. UNCHANGED phaseBar
      BY <1>3, <2>2, <2>4, <2>7, Mapping DEF BarsDifferAt, MappingFacts, BarDomains
    <3> QED
      BY <1>6, <1>7, <2>5, <2>6, <2>7, <3>1 DEF RunInv, BarsSame
  <2>8. CASE PhaseOf(status[e]) = "ready" /\ PhaseOf(s) = "active"
    BY <1>3, <1>6, <1>7, <2>2, <2>4, <2>5, <2>6, <2>8 DEF RunInv, BarsDifferAt, Run!Activate, Run!Move
  <2>9. CASE PhaseOf(status[e]) = "active" /\ PhaseOf(s) = "backoff"
    <3>1. s = "retry_scheduled"
      BY <2>9 DEF PhaseOf
    <3>2. attempt[e] <= MaxRetries[task[e]]
      BY <2>3, <3>1 DEF Inv, ScheduledIsWithinBudget
    <3>3. task[e] = task[o]
      BY <1>2 DEF RunInv, RowsBelongToRuns
    <3> QED
      BY <1>3, <1>6, <1>7, <2>2, <2>4, <2>5, <2>6, <2>9, <3>2, <3>3
         DEF RunInv, BarsDifferAt, Run!BackOff, Run!Move
  <2>10. CASE PhaseOf(status[e]) = "active" /\ PhaseOf(s) = "over"
    <3>1. s \in TERMINAL_STATUSES \cup {"failed", "timed_out"}
      BY <2>10 DEF PhaseOf, Status, TERMINAL_STATUSES
    <3> QED
      BY <1>3, <1>6, <1>7, <2>2, <2>4, <2>5, <2>10, <3>1
         DEF RunInv, BarsDifferAt, Run!End, Run!Move
  <2>11. CASE PhaseOf(status[e]) \in {"ready", "backoff"} /\ s = "cancelled"
    <3>1. PhaseOf(s) = "over"
      BY <2>11 DEF PhaseOf
    <3> QED
      BY <1>3, <1>6, <1>7, <2>2, <2>4, <2>5, <2>11, <3>1
         DEF RunInv, BarsDifferAt, Run!End, Run!Move
  <2> QED
    BY <1>1, <2>7, <2>8, <2>9, <2>10, <2>11 DEF Follows
<1> QED
  BY <1>9, <1>10

\* A task goes with its rows.
LEMMA RunsVanish ==
  ASSUME RunInv, Inv', NEW t \in Tasks, DeleteTask(t)
  PROVE  RunInv' /\ (BarsSame \/ Run!Vanish(t))
<1> DEFINE R == {r \in Execs : IsRun(r) /\ task[r] = t}
<1>1. TypeOK /\ NoTask # t
  BY DEF RunInv, Inv
<1>2. \A e \in Execs : status'[e] = IF task[e] = t THEN "gone" ELSE status[e]
  BY DEF DeleteTask
<1>3. task' = task /\ attempt' = attempt /\ parent' = parent /\ origin' = origin
  BY DEF DeleteTask
<1>4. \A e \in Execs : status'[e] = "none" <=> status[e] = "none"
  BY <1>1, <1>2 DEF RunInv, RowsBelongToRuns
<1>5. \A r \in Execs : IsRun(r)' <=> IsRun(r)
  BY <1>3, <1>4 DEF IsRun
<1>6. \A x \in Execs, r \in Execs : IsLatest(x, r)' <=> IsLatest(x, r)
  BY <1>3 DEF IsLatest, Retries
<1>7. RowsBelongToRuns'
  BY <1>3, <1>4, <1>5 DEF RunInv, RowsBelongToRuns
<1>8. RunsEndInOneRow'
  BY <1>5, <1>6 DEF RunInv, RunsEndInOneRow
<1>9. \A r \in Execs : IsRun(r) =>
        /\ Latest(r) \in Execs /\ Latest(r)' = Latest(r)
        /\ task[Latest(r)] = task[r]
  <2> TAKE r \in Execs
  <2> HAVE IsRun(r)
  <2>1. PICK e \in Execs : IsLatest(e, r)
    BY DEF RunInv, RunsEndInOneRow
  <2>2. Latest(r) = e /\ Latest(r)' = e
    BY <1>5, <1>6, <1>8, <2>1, Mapping, MappingLater DEF MappingFacts, LatestFact, RunInv
  <2>3. task[e] = task[r]
    BY <2>1 DEF IsLatest, RunInv, RowsBelongToRuns
  <2> QED
    BY <2>2, <2>3
<1>10. \A r \in Execs \ R : SameAt(r)
  BY <1>2, <1>3, <1>5, <1>9, Mapping, MappingLater DEF SameAt, MappingFacts, BarFact
<1>11. \A r \in R : /\ phaseBar'[r] = "gone" /\ triesBar'[r] = 0 /\ outcomeBar'[r] = "none"
                    /\ taskBar'[r] = taskBar[r] /\ taskBar[r] = t /\ phaseBar[r] # "absent"
  BY <1>2, <1>3, <1>5, <1>9, Mapping, MappingLater DEF MappingFacts, BarFact, PhaseOf
<1>12. \A r \in R : phaseBar[r] = "gone" => triesBar[r] = 0 /\ outcomeBar[r] = "none"
  BY <1>9, Mapping DEF MappingFacts, BarFact, PhaseOf
<1>13. RunInv'
  BY <1>7, <1>8 DEF RunInv
<1>14. CASE \A r \in R : phaseBar[r] = "gone"
  <2>1. \A r \in Execs : SameAt(r)
    BY <1>10, <1>11, <1>12, <1>14 DEF SameAt
  <2> QED
    BY <1>13, <2>1, SameEverywhere
<1>15. CASE \E r \in R : phaseBar[r] # "gone"
  <2>1. R = {r \in Execs : phaseBar[r] # "absent" /\ taskBar[r] = t}
    <3>1. \A r \in Execs : phaseBar[r] # "absent" /\ taskBar[r] = t => IsRun(r) /\ task[r] = t
      BY <1>1, Mapping DEF MappingFacts, BarFact
    <3> QED
      BY <1>11, <3>1
  <2>2. phaseBar' = [r \in Execs |-> IF r \in R THEN "gone" ELSE phaseBar[r]]
    BY <1>10, <1>11, MappingLater DEF SameAt, MappingFacts, BarDomains
  <2>3. triesBar' = [r \in Execs |-> IF r \in R THEN 0 ELSE triesBar[r]]
    BY <1>10, <1>11, MappingLater DEF SameAt, MappingFacts, BarDomains
  <2>4. outcomeBar' = [r \in Execs |-> IF r \in R THEN "none" ELSE outcomeBar[r]]
    BY <1>10, <1>11, MappingLater DEF SameAt, MappingFacts, BarDomains
  <2>5. UNCHANGED taskBar
    BY <1>3, <1>5 DEF taskBar
  <2>6. Run!Vanish(t)
    BY <1>11, <1>15, <2>1, <2>2, <2>3, <2>4, <2>5 DEF Run!Vanish
  <2> QED
    BY <1>13, <2>6
<1> QED
  BY <1>14, <1>15

\* No run has begun.
LEMMA RunInit == Init => RunInv /\ Run!Init
<1> SUFFICES ASSUME Init PROVE RunInv /\ Run!Init
  OBVIOUS
<1>1. \A r \in Execs : ~IsRun(r)
  BY DEF Init, IsRun
<1>2. RunInv
  BY <1>1, InvInit DEF RunInv, RowsBelongToRuns, RunsEndInOneRow, Init
<1>3. Run!Init
  BY <1>1 DEF Run!Init, taskBar, phaseBar, triesBar, outcomeBar
<1> QED
  BY <1>2, <1>3

\* Every step of the orchestrator is one of TaskRun, or changes no run.
LEMMA RunStep == RunInv /\ [Next]_vars => RunInv' /\ [Run!Next]_(Run!runVars)
<1> SUFFICES ASSUME RunInv, [Next]_vars PROVE RunInv' /\ [Run!Next]_(Run!runVars)
  OBVIOUS
<1> USE DEF Run!Next
<1>1. Inv' /\ RowEffect
  BY InvStep, StepEffect DEF RunInv
<1>2. BarsSame => UNCHANGED Run!runVars
  BY DEF BarsSame, Run!runVars
<1>3. CASE UNCHANGED rowVars
  BY <1>1, <1>2, <1>3, RowsAtRest
<1>4. ASSUME NEW n \in Fresh, NewRun(n) PROVE RunInv' /\ Run!Next
  BY <1>1, <1>4, RunBegins DEF Fresh
<1>5. ASSUME NEW n \in Fresh, NEW e \in Execs, NewAttempt(n, e) PROVE RunInv' /\ Run!Next
  <2>1. origin[e] \in Execs
    BY <1>5 DEF NewAttempt, RunInv, RowsBelongToRuns
  <2> QED
    BY <1>1, <1>5, <2>1, RunContinues
<1>6. ASSUME NEW e \in Execs, StatusMoves(e) PROVE RunInv' /\ [Run!Next]_(Run!runVars)
  BY <1>1, <1>2, <1>6, RunMoves
<1>7. ASSUME NEW t \in Tasks, DeleteTask(t) PROVE RunInv' /\ [Run!Next]_(Run!runVars)
  BY <1>1, <1>2, <1>7, RunsVanish
<1> QED
  BY <1>1, <1>3, <1>4, <1>5, <1>6, <1>7 DEF RowEffect

(* Whatever handlers and faults interleave, a submission with               *)
(* its automatic retries behaves as TaskRun promises: one attempt at a      *)
(* time, within the budget, one outcome, and nothing after it.              *)
THEOREM Refinement == Spec => ImplementsTaskRun
  BY RunInit, RunStep, PTL DEF Spec, ImplementsTaskRun, Run!Spec

-------------------------------------------------------------------------------
(* What holds as long as nothing fails *)

\* What waits for input has a request, and what waits for a retry has a timer.
NothingForgotten ==
  faults = 0 => /\ \A e \in Execs : status[e] = "waiting_for_input" => pending[e] > 0
                /\ ScheduledRetryHasTimer

\* A step that is no fault keeps it so.
LEMMA HandlersForgetNothing ==
  ASSUME Inv, NothingForgotten, faults = 0, Handlers PROVE NothingForgotten'
<1> USE DEF NothingForgotten, ScheduledRetryHasTimer, Retries, TypeOK
<1> TypeOK /\ HeldIsTaken
  BY DEF Inv
<1>1. ASSUME NEW t \in Tasks, SubmitTask(t) PROVE NothingForgotten'
  BY <1>1 DEF SubmitTask, InsertRoot, Insert, Fresh
<1>2. ASSUME NEW t \in Tasks, DeleteTask(t) PROVE NothingForgotten'
  BY <1>2 DEF DeleteTask
<1>3. ASSUME NEW d \in Direct, NEW t \in Tasks, RunDirect(d, t) PROVE NothingForgotten'
  BY <1>3 DEF RunDirect, InsertRoot, Insert, Fresh
<1>4. ASSUME NEW a \in Agents, MatchTask(a) PROVE NothingForgotten'
  BY <1>4 DEF MatchTask, Heads, Queued, SetStatus
<1>5. ASSUME NEW a \in Agents, StartExecution(a) PROVE NothingForgotten'
  BY <1>5 DEF StartExecution, SetStatus, rowVars
<1>6. ASSUME NEW a \in Agents, ReportFailure(a) PROVE NothingForgotten'
  BY <1>6 DEF ReportFailure, Accepts, Refuse, ArmTimer, Outcome, SetStatus, rowVars
<1>7. ASSUME NEW a \in LocalAgents, RequestInput(a) PROVE NothingForgotten'
  BY <1>7 DEF RequestInput, SetStatus, rowVars
<1>8. ASSUME NEW a \in LocalAgents, InputTimeout(a) PROVE NothingForgotten'
  BY <1>8 DEF InputTimeout, rowVars
<1>9. ASSUME NEW d \in Runners, NEW r \in Results, Complete(d, r) PROVE NothingForgotten'
  BY <1>9 DEF Complete, Accepts, Refuse, ArmTimer, Outcome, Results, SetStatus, rowVars
<1>10. ASSUME NEW e \in Execs, RetryExecution(e) PROVE NothingForgotten'
  BY <1>10 DEF RetryExecution, InsertRoot, Insert, Fresh
<1>11. ASSUME NEW e \in Execs, FireTimer(e) PROVE NothingForgotten'
  BY <1>11 DEF FireTimer, Insert, Fresh, rowVars
<1>12. ASSUME NEW e \in Execs, Recover(e) PROVE NothingForgotten'
  BY <1>12, NoDirectRetry DEF Recover, SetStatus, rowVars
<1>13. ASSUME NEW e \in Execs, CancelExecution(e) PROVE NothingForgotten'
  BY <1>13 DEF CancelExecution, Valid, VALID_TRANSITIONS, Status, SetStatus, rowVars
<1>15. ASSUME NEW e \in Execs, ProvideInput(e) PROVE NothingForgotten'
  BY <1>15 DEF ProvideInput, Answer, Valid, VALID_TRANSITIONS, Status, SetStatus, rowVars
<1>16. ASSUME NEW e \in Execs, ProvideInputTool(e) PROVE NothingForgotten'
  BY <1>16 DEF ProvideInputTool, Answer, Valid, VALID_TRANSITIONS, Status, SetStatus, rowVars
<1> QED
  BY <1>1, <1>2, <1>3, <1>4, <1>5, <1>6, <1>7, <1>8, <1>9, <1>10, <1>11, <1>12,
     <1>13, <1>15, <1>16 DEF Handlers

\* A fault is counted.
LEMMA FaultsCount == Faults => Fault
  BY DEF Faults, RestartServer, SubmitCut, RunDirectCut, MatchCut,
         StartCut, ReportCut, RequestCut, CompleteCut, RetryCut, FireCut, RecoverCut,
         CancelCut, AnswerCut

\* Every step keeps it so, or is a fault.
LEMMA StepForgetsNothing ==
  Inv /\ NothingForgotten /\ [Next]_vars => NothingForgotten'
<1> SUFFICES ASSUME Inv, NothingForgotten, [Next]_vars PROVE NothingForgotten'
  OBVIOUS
<1>1. CASE Faults
  <2>1. faults' # 0
    BY <1>1, FaultsCount DEF Fault, Inv, TypeOK
  <2> QED
    BY <2>1 DEF NothingForgotten
<1>2. CASE Handlers
  <2>1. faults' = faults
    BY <1>2 DEF Handlers, SubmitTask, DeleteTask, RunDirect, MatchTask, StartExecution,
       ReportFailure, RequestInput, InputTimeout, Complete, RetryExecution, FireTimer, Recover,
       CancelExecution, ProvideInput, ProvideInputTool
  <2> QED
    BY <1>2, <2>1, HandlersForgetNothing DEF NothingForgotten
<1>3. CASE UNCHANGED vars
  BY <1>3 DEF vars, NothingForgotten, ScheduledRetryHasTimer, Retries
<1> QED
  BY <1>1, <1>2, <1>3 DEF Next

\* It holds until something fails.
LEMMA NothingIsForgotten == Spec => []NothingForgotten
<1>1. Init => NothingForgotten
  BY DEF Init, NothingForgotten, ScheduledRetryHasTimer
<1> QED
  BY <1>1, Invariance, StepForgetsNothing, PTL DEF Spec

(* An execution that waits for input can be answered, as long as no process *)
(* was killed and no statement raised half-way (requestInput, provideInput).*)
THEOREM WaitingCanBeAnswered == Spec => []WaitingHasRequest
<1>1. NothingForgotten => WaitingHasRequest
  BY DEF NothingForgotten, WaitingHasRequest
<1> QED
  BY <1>1, NothingIsForgotten, PTL

(* A scheduled retry has its timer until its row exists, as long as nothing *)
(* fails: timers live in memory only (scheduleRetry, cancelExecution,       *)
(* _fireTimer).                                                             *)
THEOREM ScheduledRetryIsArmed == Spec => []ScheduledRetryHasTimer
<1>1. NothingForgotten => ScheduledRetryHasTimer
  BY DEF NothingForgotten, ScheduledRetryHasTimer
<1> QED
  BY <1>1, NothingIsForgotten, PTL

=============================================================================
