---------------------------- MODULE HealthMonitor ----------------------------
(***************************************************************************)
(* The health monitor of a server against time: heartbeats, executions     *)
(* that wait for input, runners that die, restarts and checks that raise.  *)
(* Orchestrator has its outcome, recoverExecution, at any moment of a run. *)
(***************************************************************************)
EXTENDS Integers, FiniteSets, ExecutionStatus

CONSTANTS
  Execs,        \* execution rows
  LastAttempts, \* those whose task allows no further attempt
  Timeout,      \* tasks.timeout_ms, in units of time
  Interval,     \* checkIntervalMs
  MaxTime,      \* bound: length of the observation
  MaxFaults     \* bound: restarts and raising statements

ASSUME HealthAssumption ==
  /\ LastAttempts \subseteq Execs
  /\ Timeout \in Nat /\ Interval \in Nat \ {0} /\ MaxTime \in Nat /\ MaxFaults \in Nat

VARIABLES
  now,
  nextCheck,  \* when the interval of the running server is due
  status,     \* executions.status: "assigned" before the start
  startedAt,  \* executions.started_at
  health,     \* executions.health_status
  alive,      \* executions whose runner lives
  watched,    \* history: since when a check could have seen e running
  recoveries, \* history: executions for which onCrashDetected was called
  faults      \* history: faults so far

vars == <<now, nextCheck, status, startedAt, health, alive, watched, recoveries, faults>>

Statuses == {"assigned", "running", "waiting_for_input", "completed", "dead_lettered"}

TypeOK ==
  /\ now \in Nat /\ nextCheck \in Nat /\ now <= nextCheck /\ nextCheck <= now + Interval
  /\ status \in [Execs -> Statuses]
  /\ startedAt \in [Execs -> Nat] /\ watched \in [Execs -> Nat]
  /\ \A e \in Execs : startedAt[e] <= watched[e] /\ watched[e] <= now
  /\ health \in [Execs -> {"healthy", "slow", "unresponsive"}]
  /\ alive \subseteq {e \in Execs : status[e] # "assigned"}
  /\ recoveries \subseteq Execs
  /\ faults \in 0..MaxFaults

Init ==
  /\ now = 0 /\ nextCheck = Interval
  /\ status = [e \in Execs |-> "assigned"]
  /\ startedAt = [e \in Execs |-> 0] /\ watched = [e \in Execs |-> 0]
  /\ health = [e \in Execs |-> "healthy"]
  /\ alive = {} /\ recoveries = {} /\ faults = 0

-------------------------------------------------------------------------------
(* Executions and their runners *)

StartExecution(e) ==
  /\ status[e] = "assigned"
  /\ status' = [status EXCEPT ![e] = "running"]
  /\ startedAt' = [startedAt EXCEPT ![e] = now]
  /\ watched' = [watched EXCEPT ![e] = now]
  /\ alive' = alive \cup {e}
  /\ UNCHANGED <<now, nextCheck, health, recoveries, faults>>

RequestInput(e) ==
  /\ e \in alive /\ status[e] = "running"
  /\ status' = [status EXCEPT ![e] = "waiting_for_input"]
  /\ UNCHANGED <<now, nextCheck, startedAt, health, alive, watched, recoveries, faults>>

\* provideInput(): started_at stays what it was.
ProvideInput(e) ==
  /\ status[e] = "waiting_for_input"
  /\ status' = [status EXCEPT ![e] = "running"]
  /\ watched' = [watched EXCEPT ![e] = now]
  /\ UNCHANGED <<now, nextCheck, startedAt, health, alive, recoveries, faults>>

Complete(e) ==
  /\ e \in alive
  /\ status' = [status EXCEPT ![e] = IF @ = "running" THEN "completed" ELSE @]
  /\ alive' = alive \ {e}
  /\ UNCHANGED <<now, nextCheck, startedAt, health, watched, recoveries, faults>>

Die(e) ==
  /\ e \in alive
  /\ alive' = alive \ {e}
  /\ UNCHANGED <<now, nextCheck, status, startedAt, health, watched, recoveries, faults>>

\* heartbeat(): whatever the status of the row.
Heartbeat(e) ==
  /\ e \in alive
  /\ health' = [health EXCEPT ![e] = "healthy"]
  /\ UNCHANGED <<now, nextCheck, status, startedAt, alive, watched, recoveries, faults>>

-------------------------------------------------------------------------------
(* The monitor *)

Elapsed(e) == now - startedAt[e]

\* Mutation of Overdue: the timeout is counted twice.
OverdueTwice(e) == Elapsed(e) > 2 * Timeout

\* Mutation of Overdue: the threshold of slow.
OverdueHalf(e) == 2 * Elapsed(e) > Timeout

Overdue(e) == Elapsed(e) > Timeout

\* The rows that this check reports as crashed.
Detected(R) == {e \in R : Overdue(e) /\ health[e] # "unresponsive"}

Slow(R) == {e \in R : ~Overdue(e) /\ 2 * Elapsed(e) > Timeout /\ health[e] = "healthy"}

\* recoverExecution() of rows D: out of attempts it dead-letters; else it throws,
\* for running -> retry_scheduled is not a transition.
Recover(D) ==
  status' = [e \in Execs |->
               IF e \in D /\ e \in LastAttempts THEN "dead_lettered"
               ELSE IF e \in D /\ Valid(status[e], "retry_scheduled") THEN "retry_scheduled"
               ELSE status[e]]

Mark(R) ==
  health' = [e \in Execs |->
               IF e \in Detected(R) THEN "unresponsive"
               ELSE IF e \in Slow(R) THEN "slow" ELSE health[e]]

Running == {e \in Execs : status[e] = "running"}

Due == now = nextCheck /\ nextCheck' = now + Interval

\* check().
Check ==
  /\ Due
  /\ Mark(Running)
  /\ Recover(Detected(Running))
  /\ recoveries' = recoveries \cup Detected(Running)
  /\ UNCHANGED <<now, startedAt, alive, watched, faults>>

\* check() raises after the rows R; the last it detected may be marked without
\* being recovered.
CheckCut ==
  /\ faults < MaxFaults /\ faults' = faults + 1
  /\ Due
  /\ \E R \in SUBSET Running : \E D \in SUBSET Detected(R) :
       /\ Cardinality(Detected(R) \ D) <= 1
       /\ Mark(R)
       /\ Recover(D)
       /\ recoveries' = recoveries \cup D
  /\ UNCHANGED <<now, startedAt, alive, watched>>

\* The server is restarted; runners of its own agent die with it.
RestartServer ==
  /\ faults < MaxFaults /\ faults' = faults + 1
  /\ nextCheck' = now + Interval
  /\ alive' \in SUBSET alive
  /\ UNCHANGED <<now, status, startedAt, health, watched, recoveries>>

\* Time passes up to the next check.
Tick ==
  /\ now < nextCheck /\ now < MaxTime
  /\ now' = now + 1
  /\ UNCHANGED <<nextCheck, status, startedAt, health, alive, watched, recoveries, faults>>

Next ==
  \/ \E e \in Execs :
       \/ StartExecution(e) \/ RequestInput(e) \/ ProvideInput(e)
       \/ Complete(e) \/ Die(e) \/ Heartbeat(e)
  \/ Check \/ CheckCut \/ RestartServer \/ Tick

Spec == Init /\ [][Next]_vars

-------------------------------------------------------------------------------
(* Properties *)

\* The instant from which e is overdue and in sight of the monitor.
InSight(e) ==
  IF watched[e] > startedAt[e] + Timeout THEN watched[e] ELSE startedAt[e] + Timeout

(* Unless a check raised or the server was restarted, an execution is in     *)
(* running at most one interval beyond its timeout before it is recovered;   *)
(* its last attempt is then dead-lettered.  Heartbeats do not postpone this, *)
(* nor does time spent waiting for input stop the clock (check).             *)
OverdueIsFound ==
  faults = 0 => \A e \in Running :
    now > InSight(e) + Interval => e \in recoveries \ LastAttempts

(* Faults or not, the monitor ends no execution that is within its timeout,  *)
(* however often it waited for input or was reported slow (check, recover).  *)
PunctualIsLeftAlone ==
  [][\A e \in Execs : status'[e] = "dead_lettered" /\ status[e] # "dead_lettered" =>
       now - startedAt[e] > Timeout]_vars

=============================================================================
