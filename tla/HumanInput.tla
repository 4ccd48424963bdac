------------------------------ MODULE HumanInput ------------------------------
(***************************************************************************)
(* How an agent asks a person, for one execution: the rows of              *)
(* input_requests, the two transports an agent asks through, and those who *)
(* answer, in the server (POST /api/executions/:id/input) and in other     *)
(* processes (`executions respond`, provide_input of a stdio tool server). *)
(*                                                                         *)
(* transport is "dev" (in the server's process: a promise kept in          *)
(* pendingInputs, which a call of the server's route resolves) or "http"   *)
(* (the agent polls the row by its id).  Two processes interleave          *)
(* statement by statement.  Within the server nothing else runs between    *)
(* them: the two awaits on the way (of orchestrator.provideInput in the    *)
(* route, of orch.requestInput in the transport) are of calls that are     *)
(* already settled, and no timer and no request enters a microtask.  Asks  *)
(* are numbered with their rows, answers in the order they are written.    *)
(***************************************************************************)
EXTENDS Naturals, Sequences, FiniteSets, FiniteSetsExt

CONSTANTS MaxRequests,   \* bound: asks, refused ones included
          MaxAnswers     \* bound: answers given
ASSUME BoundsAssumption == MaxRequests \in Nat /\ MaxAnswers \in Nat

VARIABLES
  transport, \* "dev" or "http"
  status,    \* of the execution: "running", "waiting_for_input" or "ended"
  requests,  \* the rows: the number of the recorded answer, 0 while pending
  waiting,   \* the rows whose answers calls of requestInput wait for
  slot,      \* dev: pendingInputs of the execution, 0 when there is no entry
  since,     \* row -> the answers written when the agent began to wait
  got,       \* what calls returned: [ask, answer]
  answers,   \* how many answers were written
  answering  \* process -> how far it is, with which answer, to which row

vars == <<transport, status, requests, waiting, slot, since, got, answers, answering>>

Processes == {"server", "other"}
Idle == [at |-> "idle", row |-> 0, answer |-> 0]
ServerIsFree == answering["server"] = Idle

Init ==
  /\ transport \in {"dev", "http"}
  /\ status = "running" /\ requests = <<>>
  /\ waiting = {} /\ slot = 0 /\ since = [i \in 1 .. MaxRequests |-> 0] /\ got = <<>>
  /\ answers = 0 /\ answering = [p \in Processes |-> Idle]

Pending == {i \in DOMAIN requests : requests[i] = 0}

(* getInputRequest: the oldest pending row. *)
InputRequest == Min(Pending)

(***************************************************************************)
(* The agent asks.  The row is created first; the transition to waiting is *)
(* refused unless the execution runs, and the call throws: the row stays.  *)
(* An execution resumed by another process runs while an earlier call      *)
(* still waits: a new call takes over the entry of pendingInputs.          *)
(***************************************************************************)
CreateInputRequest == requests' = Append(requests, 0)

Wait(i) ==
  /\ waiting' = waiting \cup {i} /\ since' = [since EXCEPT ![i] = answers]
  /\ slot' = IF transport = "dev" THEN i ELSE slot

RequestInput ==
  /\ ServerIsFree /\ Len(requests) < MaxRequests /\ CreateInputRequest
  /\ IF status = "running"
     THEN status' = "waiting_for_input" /\ Wait(Len(requests'))
     ELSE UNCHANGED <<status, waiting, since, slot>>
  /\ UNCHANGED <<transport, got, answers, answering>>

(* The reply to POST /internal/input-request is lost: the agent does not   *)
(* learn the id of the row.                                                *)
ReplyLost ==
  /\ ServerIsFree /\ transport = "http" /\ status = "running" /\ Len(requests) < MaxRequests
  /\ CreateInputRequest /\ status' = "waiting_for_input"
  /\ UNCHANGED <<transport, waiting, slot, since, got, answers, answering>>

\* Mutation of Receive: the waiter is not removed when it is resolved.
ReceiveAndKeep(i, k) ==
  /\ got' = Append(got, [ask |-> i, answer |-> k]) /\ UNCHANGED <<waiting, slot>>

Receive(i, k) ==
  /\ got' = Append(got, [ask |-> i, answer |-> k])
  /\ waiting' = waiting \ {i} /\ slot' = 0

\* Mutation of Poll: any answered row of the execution will do.
PollAny(i) ==
  /\ ServerIsFree /\ transport = "http" /\ i \in waiting
  /\ \E j \in DOMAIN requests : requests[j] # 0 /\ Receive(i, requests[j])
  /\ UNCHANGED <<transport, status, requests, since, answers, answering>>

(* POST /internal/input-poll. *)
Poll(i) ==
  /\ ServerIsFree /\ transport = "http" /\ i \in waiting /\ requests[i] # 0
  /\ Receive(i, requests[i])
  /\ UNCHANGED <<transport, status, requests, since, answers, answering>>

\* Mutation of GiveUp: a call whose entry was taken over has no timer any more.
GiveUpInSlot(i) ==
  /\ ServerIsFree /\ i \in waiting /\ (transport = "dev" => slot = i)
  /\ waiting' = waiting \ {i} /\ slot' = 0
  /\ UNCHANGED <<transport, status, requests, since, got, answers, answering>>

(* The five minutes are over, or a poll is answered with an error.  The    *)
(* row stays pending and the execution waiting; the timer removes the      *)
(* entry of the execution, whichever call it is of.                        *)
GiveUp(i) ==
  /\ ServerIsFree /\ i \in waiting /\ waiting' = waiting \ {i} /\ slot' = 0
  /\ UNCHANGED <<transport, status, requests, since, got, answers, answering>>

(* The agent reports its result, or the execution is cancelled; a call     *)
(* that waits is not told.                                                 *)
End ==
  /\ status' = "ended"
  /\ UNCHANGED <<transport, requests, waiting, slot, since, got, answers, answering>>

(***************************************************************************)
(* Somebody answers: the oldest pending row is read (an earlier read only  *)
(* names the row in the event), its answer written WHERE id = ?, and the   *)
(* execution resumed, or the call throws.  The route of the server then    *)
(* resolves the waiter, if there is one.                                   *)
(***************************************************************************)
Writing == Cardinality({p \in Processes : answering[p].at = "write"})

ReadRequest(p) ==
  /\ answering[p] = Idle /\ Pending # {} /\ answers + Writing < MaxAnswers
  /\ answering' = [answering EXCEPT ![p] = [Idle EXCEPT !.at = "write", !.row = InputRequest]]
  /\ UNCHANGED <<transport, status, requests, waiting, slot, since, got, answers>>

RespondToInput(p) ==
  /\ answering[p].at = "write" /\ answers' = answers + 1
  /\ requests' = [requests EXCEPT ![answering[p].row] = answers']
  /\ answering' = [answering EXCEPT ![p].at = "resume", ![p].answer = answers']
  /\ UNCHANGED <<transport, status, waiting, slot, since, got>>

Resume(p) ==
  /\ answering[p].at = "resume" /\ answering' = [answering EXCEPT ![p] = Idle]
  /\ status' = IF status = "waiting_for_input" THEN "running" ELSE status
  /\ IF p = "server" /\ status = "waiting_for_input" /\ slot # 0
     THEN Receive(slot, answering[p].answer) ELSE UNCHANGED <<waiting, slot, got>>
  /\ UNCHANGED <<transport, requests, since, answers>>

KillElsewhere ==
  /\ answering["other"] # Idle /\ answering' = [answering EXCEPT !["other"] = Idle]
  /\ UNCHANGED <<transport, status, requests, waiting, slot, since, got, answers>>

Next ==
  \/ RequestInput \/ ReplyLost \/ End
  \/ \E i \in 1 .. MaxRequests : Poll(i) \/ GiveUp(i)
  \/ \E p \in Processes : ReadRequest(p) \/ RespondToInput(p) \/ Resume(p)
  \/ KillElsewhere

(* The timer of each call in dev, the deadline of each polling loop, and   *)
(* the server's code running on.                                           *)
Spec ==
  /\ Init /\ [][Next]_vars
  /\ \A i \in 1 .. MaxRequests : WF_vars(GiveUp(i))
  /\ WF_vars(RespondToInput("server")) /\ WF_vars(Resume("server"))
-----------------------------------------------------------------------------
\* The rows of input_requests, the entry of pendingInputs, the calls that wait.
TypeOK ==
  /\ transport \in {"dev", "http"} /\ status \in {"running", "waiting_for_input", "ended"}
  /\ requests \in Seq(0 .. MaxAnswers) /\ answers \in 0 .. MaxAnswers
  /\ waiting \subseteq DOMAIN requests /\ slot \in waiting \cup {0}
  /\ since \in [1 .. MaxRequests -> 0 .. MaxAnswers]
  /\ got \in Seq([ask: 1 .. MaxRequests, answer: 1 .. MaxAnswers])
  /\ answering \in [Processes -> [at: {"idle", "write", "resume"},
                                 row: 0 .. MaxRequests, answer: 0 .. MaxAnswers]]

\* However many people answer, in the page, a chat or a shell, at once, late or
\* twice, and although entries are taken over: no answer is given to two calls of
\* requestInput, and no call returns twice.
OneAnswerPerAsk ==
  \A i, j \in DOMAIN got : i # j => got[i].ask # got[j].ask /\ got[i].answer # got[j].answer

\* An agent never goes on with an answer written before it asked: what comes
\* after a timeout, or a second time, is not kept for the next ask.
AnswersAreFresh == \A i \in DOMAIN got : got[i].answer > since[got[i].ask]

\* Every call of requestInput comes to an end, answered or not, also when another
\* call took over its entry or the execution was cancelled meanwhile.
AsksEnd == \A i \in 1 .. MaxRequests : i \in waiting ~> i \notin waiting
=============================================================================
