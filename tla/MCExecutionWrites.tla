--------------------------- MODULE MCExecutionWrites ---------------------------
(* Instances of ExecutionWrites for TLC. *)
EXTENDS ExecutionWrites, TLC

Symmetry == Permutations(Servers) \cup Permutations(Clis)

=============================================================================
