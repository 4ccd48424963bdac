-------------------------------- MODULE Console --------------------------------
(***************************************************************************)
(* The executions of the store and the web page that watches them: the     *)
(* page polls the list of the newest executions every five seconds, twice  *)
(* (header and tab), and cancels or retries them from the detail of each,  *)
(* while agents, other pages, shells and tool servers change the rows.     *)
(* A request is served and its answer handled at two moments; nothing      *)
(* orders the answers of requests that are under way together, and any of  *)
(* them may be lost.                                                       *)
(*                                                                         *)
(* The processes share a file: each validates a change of a status against *)
(* the row it has read, and then writes it by the id of the row alone.     *)
(* What another process writes in between is lost: the write is late.  So  *)
(* a row keeps the statuses it had, against which a write may have been    *)
(* validated.  Ids count the rows in the order of their creation.  Which   *)
(* row is open is left out: any row of the list can be, and nothing but    *)
(* its buttons depends on it.  Init, Next and the rest are named after the *)
(* module, for the proofs that extend it beside another component.         *)
(***************************************************************************)
EXTENDS Naturals, Sequences, SequencesExt, ExecutionStatus

CONSTANTS Jobs,      \* the tasks
          Statuses,  \* the statuses in play
          MaxSubmits, \* bounds: rows created otherwise than by a retry,
          MaxRows,   \*   rows ever created,
          MaxLate,   \*   late writes
          ListLimit, \* listAllExecutions: LIMIT, 50 in the route
          Requests   \* bound: the requests under way together
ASSUME ConsoleAssumption ==
  /\ Statuses \subseteq Status /\ {"queued", "cancelled"} \subseteq Statuses
  /\ MaxSubmits \in Nat /\ MaxRows \in Nat /\ MaxLate \in Nat /\ ListLimit \in Nat \ {0}

VARIABLES
  rows,      \* id -> its task, its status and the statuses it had
  late,      \* history: the rows written late, in the order of these writes
  deleted,   \* the tasks that were deleted, and their rows with them
  list,      \* executions of the page's store
  requests   \* what the page waits for

consoleVars == <<rows, late, deleted, list, requests>>
executionRows == <<rows, late, deleted>>

Rows == DOMAIN rows
Alive == {e \in Rows : rows[e].job \notin deleted}
Now(e) == rows[e].status
Entry(e) == [id |-> e, status |-> Now(e)]

(* ORDER BY created_at DESC LIMIT ?; rows of the same second are taken in  *)
(* the order of their creation.                                            *)
NewestRows ==
  LET newestFirst == Reverse(SelectSeq([i \in Rows |-> i], LAMBDA e : e \in Alive))
  IN  [i \in 1 .. IF Len(newestFirst) < ListLimit THEN Len(newestFirst) ELSE ListLimit
         |-> Entry(newestFirst[i])]

Free == [kind |-> "none", of |-> 0, served |-> FALSE, answer |-> <<>>]
Ask(k, e) == [Free EXCEPT !.kind = k, !.of = e]

ConsoleInit ==
  /\ rows = <<>> /\ late = <<>> /\ deleted = {} /\ list = <<>>
  /\ requests = [r \in Requests |-> Free]
-----------------------------------------------------------------------------
(***************************************************************************)
(* The rows: created queued, moved by agents along the transition table,   *)
(* cancelled and retried by whoever asks, deleted with their task.         *)
(***************************************************************************)
NewRow(t) == rows' = Append(rows, [job |-> t, status |-> "queued", was |-> {"queued"}]) /\ late' = late

Become(e, s) == rows' = [rows EXCEPT ![e].status = s, ![e].was = @ \cup {s}]

\* updateExecutionStatus: the status it has read allows s, and is the row's status
\* still, or was it.
Update(e, s) ==
  \/ Valid(Now(e), s) /\ Become(e, s) /\ late' = late
  \/ /\ \E from \in rows[e].was : Valid(from, s)
     /\ ~Valid(Now(e), s) /\ Len(late) < MaxLate
     /\ Become(e, s) /\ late' = Append(late, e)

CanCancel(e) == Valid(Now(e), "cancelled")
CanRetry(e) == Now(e) \in {"failed", "timed_out", "dead_lettered"}

SubmitTask(t) ==
  /\ t \notin deleted /\ Len(rows) < MaxSubmits /\ NewRow(t) /\ UNCHANGED <<deleted, list, requests>>

Progress(e) ==
  /\ \E s \in Statuses \ {"cancelled"} : Update(e, s)
  /\ UNCHANGED <<deleted, list, requests>>

CancelByOthers(e) ==
  /\ Update(e, "cancelled") /\ UNCHANGED <<deleted, list, requests>>

RetryByOthers(e) ==
  /\ CanRetry(e) /\ Len(rows) < MaxRows /\ NewRow(rows[e].job) /\ UNCHANGED <<deleted, list, requests>>

(* Deleting a task deletes its executions, retries included.               *)
DeleteTask(t) ==
  /\ deleted' = deleted \cup {t} /\ UNCHANGED <<rows, late, list, requests>>
-----------------------------------------------------------------------------
(***************************************************************************)
(* What the page sends.  A button shows what the list says, stays enabled  *)
(* while its request is under way and can be clicked again.                *)
(***************************************************************************)
Send(r, k, e) == requests[r] = Free /\ requests' = [requests EXCEPT ![r] = Ask(k, e)]

Shows(e, statuses) == \E i \in DOMAIN list : list[i].id = e /\ list[i].status \in statuses

Poll(r) == Send(r, "list", 0) /\ UNCHANGED <<executionRows, list>>

Replaced(e, with) == [i \in DOMAIN list |-> IF list[i].id = e THEN with ELSE list[i]]

ClickCancel(r, e) ==
  /\ Shows(e, {"running", "queued"}) /\ Send(r, "cancel", e) /\ UNCHANGED <<executionRows, list>>

ClickRetry(r, e) ==
  /\ Shows(e, {"failed"}) /\ Send(r, "retry", e) /\ UNCHANGED <<executionRows, list>>
-----------------------------------------------------------------------------
(***************************************************************************)
(* The server answers, or refuses: 404, 409, 500.                          *)
(***************************************************************************)
Refuse(r) == requests' = [requests EXCEPT ![r] = Free] /\ UNCHANGED executionRows
Reply(r, answer) ==
  requests' = [requests EXCEPT ![r].served = TRUE, ![r].answer = answer]

ServeList(r) == Reply(r, NewestRows) /\ UNCHANGED executionRows

ServeRow(r) ==
  IF requests[r].of \in Alive
  THEN Reply(r, <<Entry(requests[r].of)>>) /\ UNCHANGED executionRows ELSE Refuse(r)

\* cancelExecution answers when its UPDATE is made, even if that found no row.
CancelIt(r, e) ==
  /\ Reply(r, <<>>) /\ UNCHANGED deleted
  /\ \/ e \in Alive /\ Update(e, "cancelled")
     \/ e \notin Alive /\ UNCHANGED <<rows, late>>

\* Mutation of ServeCancel: what has ended is reported as cancelled.
ServeCancelQuietly(r) ==
  LET e == requests[r].of IN
  \/ CancelIt(r, e)
  \/ e \notin Alive /\ Refuse(r)
  \/ e \in Alive /\ ~CanCancel(e) /\ Reply(r, <<>>) /\ UNCHANGED executionRows

ServeCancel(r) ==
  LET e == requests[r].of IN
  \/ CancelIt(r, e)
  \/ ~(e \in Alive /\ CanCancel(e)) /\ Refuse(r)

ServeRetry(r) ==
  IF requests[r].of \in Alive /\ CanRetry(requests[r].of) /\ Len(rows) < MaxRows
  THEN /\ NewRow(rows[requests[r].of].job) /\ Reply(r, <<[id |-> Len(rows'), status |-> "queued"]>>)
       /\ UNCHANGED deleted
  ELSE Refuse(r)

\* 429: a client has sent more requests that change something than a minute allows;
\* how many it sent is left out.
RateLimited(r) == requests[r].kind \in {"cancel", "retry"} /\ Refuse(r)

Serve(r) ==
  /\ requests[r] # Free /\ ~requests[r].served
  /\ \/ RateLimited(r)
     \/ CASE requests[r].kind = "list"    -> ServeList(r)
          [] requests[r].kind = "refetch" -> ServeRow(r)
          [] requests[r].kind = "cancel"  -> ServeCancel(r)
          [] requests[r].kind = "retry"   -> ServeRetry(r)
  /\ UNCHANGED list

(* The connection breaks, before or after the request was served; or the   *)
(* server raises after its write and answers 500.                          *)
Lose(r) ==
  /\ requests[r] # Free /\ requests' = [requests EXCEPT ![r] = Free]
  /\ UNCHANGED <<executionRows, list>>
-----------------------------------------------------------------------------
(***************************************************************************)
(* The page handles an answer.                                             *)
(***************************************************************************)
Answered(r, k) == requests[r].kind = k /\ requests[r].served
Done(r) == requests' = [requests EXCEPT ![r] = Free]

\* Mutation of TakeList: executionRows the answer does not name are kept.
TakeListMerged(r) ==
  /\ Answered(r, "list") /\ Done(r) /\ UNCHANGED executionRows
  /\ LET l == requests[r].answer IN
     list' = l \o SelectSeq(list, LAMBDA x : \A i \in DOMAIN l : l[i].id # x.id)

TakeList(r) ==
  /\ Answered(r, "list") /\ Done(r) /\ list' = requests[r].answer /\ UNCHANGED executionRows

(* cancelExecution: { ok: true } carries no row, which is fetched next.    *)
TakeCancelled(r) ==
  /\ Answered(r, "cancel") /\ requests' = [requests EXCEPT ![r] = Ask("refetch", @.of)]
  /\ UNCHANGED <<executionRows, list>>

TakeRow(r) ==
  /\ Answered(r, "refetch") /\ Done(r) /\ UNCHANGED executionRows
  /\ list' = Replaced(requests[r].of, requests[r].answer[1])

(* The new row goes to the front and the old one leaves the list.          *)
TakeRetried(r) ==
  /\ Answered(r, "retry") /\ Done(r) /\ UNCHANGED executionRows
  /\ list' = requests[r].answer \o SelectSeq(list, LAMBDA x : x.id # requests[r].of)

Take(r) == TakeList(r) \/ TakeCancelled(r) \/ TakeRow(r) \/ TakeRetried(r)

ConsoleNext ==
  \/ \E t \in Jobs : SubmitTask(t) \/ DeleteTask(t)
  \/ \E e \in Alive : Progress(e) \/ CancelByOthers(e) \/ RetryByOthers(e)
  \/ \E r \in Requests : \/ Poll(r) \/ Serve(r) \/ Lose(r) \/ Take(r)
                         \/ \E e \in Rows : ClickCancel(r, e) \/ ClickRetry(r, e)

(* The intervals of the header, a server that serves, a network that does  *)
(* not lose every poll.                                                    *)
ConsoleSpec ==
  /\ ConsoleInit /\ [][ConsoleNext]_consoleVars
  /\ SF_consoleVars(\E r \in Requests : Poll(r))
  /\ \A r \in Requests : WF_consoleVars(Serve(r)) /\ WF_consoleVars(Take(r))
  /\ SF_consoleVars(\E r \in Requests : requests[r].kind = "list" /\ Serve(r))
  /\ SF_consoleVars(\E r \in Requests : TakeList(r))
-----------------------------------------------------------------------------
\* Rows with their histories, the list, the requests under way.
ConsoleTypeOK ==
  LET Entries == [id : 1 .. MaxRows, status : Statuses] IN
  /\ rows \in Seq([job : Jobs, status : Statuses, was : SUBSET Statuses])
  /\ late \in Seq(Rows) /\ Len(rows) <= MaxRows /\ deleted \subseteq Jobs
  /\ list \in Seq(Entries)
  /\ \A r \in Requests :
       /\ requests[r].kind \in {"none", "list", "cancel", "refetch", "retry"}
       /\ requests[r].of \in Rows \cup {0}
       /\ requests[r].kind \in {"list", "refetch", "retry"} => requests[r].answer \in Seq(Entries)

\* What the page shows after an accepted cancel is an execution that was cancelled,
\* however reports, other cancels and retries race with it between the two requests;
\* and it says so, unless some process wrote late: over a status that had come after
\* the one it had validated against.
CancelTellsTheTruth ==
  \A r \in Requests : Answered(r, "refetch") =>
    /\ "cancelled" \in rows[requests[r].of].was
    /\ requests[r].answer[1].status = "cancelled" \/ requests[r].of \in Range(late)

\* Whatever was clicked, lost or answered late, the list in the end shows the
\* newest executions, each once and as it is, and goes on showing them.
ListConverges == <>[](list = NewestRows)
=============================================================================
