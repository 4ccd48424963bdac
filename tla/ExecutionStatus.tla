--------------------------- MODULE ExecutionStatus ---------------------------
(***************************************************************************)
(* The status of an execution row and the transition table every status    *)
(* write is validated against (packages/core/src/state-machine.ts).        *)
(***************************************************************************)

Status == {"created", "queued", "assigned", "running", "waiting_for_input",
           "completed", "failed", "timed_out", "cancelled",
           "retry_scheduled", "dead_lettered"}

\* The table itself; terminal statuses have no entry in the code, which
\* allowedTransitions() reads as the empty list.
VALID_TRANSITIONS ==
  [created           |-> {"queued", "cancelled"},
   queued            |-> {"assigned", "cancelled", "timed_out"},
   assigned          |-> {"running", "timed_out"},
   running           |-> {"completed", "failed", "timed_out", "cancelled",
                          "waiting_for_input"},
   waiting_for_input |-> {"running", "cancelled"},
   failed            |-> {"retry_scheduled", "dead_lettered"},
   timed_out         |-> {"retry_scheduled", "dead_lettered"},
   retry_scheduled   |-> {"queued", "cancelled"},
   completed         |-> {},
   cancelled         |-> {},
   dead_lettered     |-> {}]

TERMINAL_STATUSES == {"completed", "cancelled", "dead_lettered"}

\* validateTransition() returns instead of throwing.
Valid(from, to) == from \in Status /\ to \in VALID_TRANSITIONS[from]

=============================================================================
