-------------------------------- MODULE MCChat --------------------------------
(* Instances of Chat for TLC. *)
EXTENDS Chat, TLC

MCTool == [c \in Calls |-> CHOOSE t \in Tools : TRUE]

Symmetry == Permutations(Streams) \cup Permutations(Calls) \cup Permutations(Threads)

=============================================================================
