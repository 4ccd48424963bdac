---------------------------- MODULE MCOrchestrator ----------------------------
(* Instances of Orchestrator for TLC. *)
EXTENDS OrchestratorRefinement, TLC

CONSTANTS t1, t2, t3

\* One retry for t1 and none for t2; t3 is sent to a queue nobody polls.
MCMaxRetries == [t \in Tasks |-> IF t = t1 THEN 1 ELSE 0]
MCRank       == [t \in Tasks |-> IF t = t1 THEN 0 ELSE 1]
MCPolled     == Tasks \ {t3}

Symmetry == Permutations(Execs)

=============================================================================
