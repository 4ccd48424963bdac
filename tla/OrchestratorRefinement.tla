------------------------ MODULE OrchestratorRefinement ------------------------
(***************************************************************************)
(* The orchestrator implements TaskRun.  A run is named by its first row;  *)
(* its state is that of its latest attempt.                                *)
(***************************************************************************)
EXTENDS OrchestratorProperties

IsRun(r) == status[r] # "none" /\ parent[r] = NoExec

\* The last row of the run that starts with row r: the one that has no retry.
Latest(r) == CHOOSE e \in Execs : origin[e] = r /\ Retries(e) = {}

PhaseOf(s) ==
  CASE s \in {"created", "queued"}                        -> "ready"
    [] s \in {"assigned", "running", "waiting_for_input"} -> "active"
    [] s = "retry_scheduled"                              -> "backoff"
    [] s = "gone"                                         -> "gone"
    [] OTHER                                              -> "over"

taskBar == [r \in Execs |-> IF IsRun(r) THEN task[r] ELSE NoTask]

phaseBar == [r \in Execs |-> IF IsRun(r) THEN PhaseOf(status[Latest(r)]) ELSE "absent"]

triesBar == [r \in Execs |->
  LET e == Latest(r) IN IF IsRun(r) /\ status[e] # "gone" THEN attempt[e] ELSE 0]

outcomeBar == [r \in Execs |->
  LET s == status[Latest(r)]
  IN IF IsRun(r) /\ PhaseOf(s) = "over" THEN s ELSE "none"]

Run == INSTANCE TaskRun WITH
         Runs <- Execs,
         FinalOutcomes <- TERMINAL_STATUSES \cup {"failed", "timed_out"},
         taskOf <- taskBar, phase <- phaseBar, tries <- triesBar, outcome <- outcomeBar

(* Whatever faults the server meets and however its handlers interleave,    *)
(* each run behaves as TaskRun promises: attempts one after the other       *)
(* within the budget, one outcome, nothing after it.                        *)
ImplementsTaskRun == Run!Spec

=============================================================================
