------------------------------- MODULE TaskRun -------------------------------
(***************************************************************************)
(* What a user of the orchestrator is promised about one run of a task: a  *)
(* submission together with its automatic retries.  A run has one attempt  *)
(* at a time; a failed attempt within the budget backs off and is tried    *)
(* again; the run ends with one outcome, and nothing happens after it.     *)
(* The rows, timers, processes and agents of the code do not appear.       *)
(***************************************************************************)
EXTENDS Integers

CONSTANTS
  Runs,           \* identities of runs
  Tasks, NoTask,  \* tasks, and the task of a run that has not begun
  MaxRetries,     \* how often the attempts of a task may be retried
  FinalOutcomes   \* how a run may end

VARIABLES
  taskOf,   \* the task a run is of
  phase,    \* "absent" -> "ready" / "active" / "backoff" -> "over" -> "gone"
  tries,    \* number of the latest attempt
  outcome   \* how the run ended, "none" before

runVars == <<taskOf, phase, tries, outcome>>

Init ==
  /\ taskOf = [r \in Runs |-> NoTask]
  /\ phase = [r \in Runs |-> "absent"]
  /\ tries = [r \in Runs |-> 0]
  /\ outcome = [r \in Runs |-> "none"]

Move(r, P) == phase'[r] \in P /\ phase' = [phase EXCEPT ![r] = phase'[r]]

\* A submission, a direct run, or an operator's retry of an earlier attempt,
\* which continues that attempt's numbering.
Begin(r) ==
  /\ phase[r] = "absent"
  /\ Move(r, {"ready", "active"})
  /\ \E t \in Tasks : taskOf' = [taskOf EXCEPT ![r] = t]
  /\ tries'[r] \in Nat \ {0} /\ tries' = [tries EXCEPT ![r] = tries'[r]]
  /\ UNCHANGED outcome

Activate(r) ==
  /\ phase[r] = "ready"
  /\ Move(r, {"active"})
  /\ UNCHANGED <<taskOf, tries, outcome>>

BackOff(r) ==
  /\ phase[r] = "active"
  /\ tries[r] <= MaxRetries[taskOf[r]]
  /\ Move(r, {"backoff"})
  /\ UNCHANGED <<taskOf, tries, outcome>>

TryAgain(r) ==
  /\ phase[r] = "backoff"
  /\ Move(r, {"ready"})
  /\ tries' = [tries EXCEPT ![r] = @ + 1]
  /\ UNCHANGED <<taskOf, outcome>>

End(r) ==
  /\ phase[r] \in {"ready", "active", "backoff"}
  /\ Move(r, {"over"})
  /\ outcome'[r] \in IF phase[r] = "active" THEN FinalOutcomes ELSE {"cancelled"}
  /\ outcome' = [outcome EXCEPT ![r] = outcome'[r]]
  /\ UNCHANGED <<taskOf, tries>>

\* A task is deleted with all its runs.
Vanish(t) ==
  LET R == {r \in Runs : phase[r] # "absent" /\ taskOf[r] = t}
  IN /\ \E r \in R : phase[r] # "gone" /\ phase'[r] = "gone"
     /\ phase' = [r \in Runs |-> IF r \in R THEN "gone" ELSE phase[r]]
     /\ tries' = [r \in Runs |-> IF r \in R THEN 0 ELSE tries[r]]
     /\ outcome' = [r \in Runs |-> IF r \in R THEN "none" ELSE outcome[r]]
     /\ UNCHANGED taskOf

Next ==
  \/ \E r \in Runs : Begin(r) \/ Activate(r) \/ BackOff(r) \/ TryAgain(r) \/ End(r)
  \/ \E t \in Tasks : Vanish(t)

Spec == Init /\ [][Next]_runVars

=============================================================================
