------------------------- MODULE ExecutionWritesProofs -------------------------
(***************************************************************************)
(* Proofs of the safety properties of ExecutionWrites for every number of  *)
(* servers, command lines and writes that find the database locked.        *)
(*                                                                         *)
(* The log stays a sequence because a number that was read is never beyond *)
(* the next one.  The row is dequeued once because it is queued once: only *)
(* the call that created it has the statement to come, that call is the    *)
(* only one of its kind, and a snapshot that is still current is one of a  *)
(* queued row.                                                             *)
(***************************************************************************)
EXTENDS ExecutionWrites, SequenceTheorems, TLAPS

\* A number read for an event is at most the next one.
NumbersAreNext ==
  \A p \in Procs : NextIs(p, "event") /\ read[p] # 0 => read[p] <= rows + 1

\* Before the insert nobody does anything.
NothingBeforeInsert ==
  status = "none" => \A p \in Procs : call[p] = "none" /\ runner[p] = "idle"

\* What the runner of p does during a call.
CallsOfRunner ==
  \A p \in Procs :
    /\ call[p] = "start" => runner[p] = "holding"
    /\ call[p] = "direct" => p \in Clis
    /\ call[p] = "dequeue" =>
         /\ runner[p] = "idle"
         /\ \/ todo[p] = <<S("assigned"), E("assigned")>> /\ read[p] = 0
            \/ todo[p] = <<E("assigned")>>

\* Place i of what p has to do puts the row in the queue.
Queues(p, i) == i \in DOMAIN todo[p] /\ todo[p][i] = S("queued")

\* One statement does.
QueuedOnce ==
  \A p, q \in Procs : \A i, j \in Nat : Queues(p, i) /\ Queues(q, j) => p = q /\ i = j

\* Server p has taken the row from the queue.
Taken(p) ==
  \/ call[p] = "dequeue" /\ todo[p] = <<E("assigned")>>
  \/ runner[p] \in {"holding", "working"}

\* The row does not come back to the queue.
NeverQueuedAgain ==
  /\ status = "queued" => \A p \in Procs, i \in Nat : ~Queues(p, i)
  /\ \A p \in Servers : Taken(p) => /\ status # "queued"
                                    /\ \A q \in Procs, i \in Nat : ~Queues(q, i)

TakenOnce == \A p, q \in Servers : Taken(p) /\ Taken(q) => p = q

\* A snapshot that is up to date is one of a queued row, before the write.
SnapshotsShowQueued == \A p \in current : status = "queued" /\ InTransaction(p)

WInv ==
  /\ TypeOK
  /\ LogIsSequence
  /\ NumbersAreNext
  /\ NothingBeforeInsert
  /\ CallsOfRunner
  /\ QueuedOnce
  /\ NeverQueuedAgain
  /\ TakenOnce
  /\ SnapshotsShowQueued

USE WritersAssumption DEF Procs

-------------------------------------------------------------------------------
(* Statements *)

\* The first statement and the others.
LEMMA Rest ==
  ASSUME NEW T, NEW s \in Seq(T), s # << >>
  PROVE  /\ Len(s) \in Nat \ {0} /\ Tail(s) \in Seq(T) /\ (Len(s) = 1 <=> Tail(s) = << >>)
         /\ Head(s) = s[1] /\ Head(s) \in T /\ 1 \in DOMAIN s
         /\ \A i \in DOMAIN Tail(s) : i \in Nat /\ i + 1 \in DOMAIN s /\ Tail(s)[i] = s[i + 1]
<1>1. Len(s) \in Nat \ {0} /\ DOMAIN s = 1 .. Len(s)
  OBVIOUS
<1>2. Tail(s) \in Seq(T) /\ Len(Tail(s)) = Len(s) - 1 /\ DOMAIN Tail(s) = 1 .. (Len(s) - 1)
  OBVIOUS
<1>3. Len(s) = 1 <=> Tail(s) = << >>
  <2>1. ASSUME Len(s) = 1 PROVE Tail(s) = << >>
    <3>1. Len(Tail(s)) = 0
      BY <1>2, <2>1
    <3> QED
      BY <1>2, <3>1, EmptySeq
  <2>2. ASSUME Tail(s) = << >> PROVE Len(s) = 1
    <3>1. Len(Tail(s)) = 0
      BY <1>2, <2>2, EmptySeq
    <3>2. Len(Tail(s)) = Len(s) - 1 /\ Len(s) \in Nat
      BY <1>1, <1>2
    <3> HIDE <2>2
    <3> QED
      BY <3>1, <3>2
  <2> QED
    BY <2>1, <2>2
<1>4. Head(s) = s[1] /\ Head(s) \in T
  BY <1>1
<1>5. \A i \in 1 .. (Len(s) - 1) : Tail(s)[i] = s[i + 1]
  BY <1>1
<1> QED
  BY <1>1, <1>2, <1>3, <1>4, <1>5

\* Every method consists of statements, and only two queue the row, once.
LEMMA Methods ==
  /\ \A s \in Status : S(s) \in Statements /\ E(s) \in Statements
  /\ \A r \in Results : \A m \in Reports(r) : m \in Seq(Statements) /\ m # << >>
                                          /\ \A i \in DOMAIN m : m[i] # S("queued")
<1>1. \A s \in Status : S(s) \in Statements /\ E(s) \in Statements
  BY DEF S, E, Statements
<1>2. ASSUME NEW r \in Results, NEW m \in Reports(r)
      PROVE  m \in Seq(Statements) /\ m # << >> /\ \A i \in DOMAIN m : m[i] # S("queued")
  <2>1. CASE r \in {"completed", "cancelled"}
    <3>1. m = <<S(r), E(r)>>
      BY <2>1 DEF Reports
    <3>2. S(r) \in Statements /\ E(r) \in Statements /\ S(r) # S("queued") /\ E(r) # S("queued")
      BY <2>1 DEF S, E, Statements, Status
    <3> HIDE DEF S, E
    <3> QED
      BY <3>1, <3>2
  <2>2. CASE r \notin {"completed", "cancelled"}
    <3>1. PICK s \in {"retry_scheduled", "dead_lettered"} : m = <<S(r), E(r), S(s), E(s)>>
      BY <2>2 DEF Reports
    <3>2. \A x \in {r, s} : /\ S(x) \in Statements /\ E(x) \in Statements
                            /\ S(x) # S("queued") /\ E(x) # S("queued")
      BY <2>2 DEF S, E, Statements, Status
    <3> QED
      BY <3>1, <3>2
  <2> QED
    BY <2>1, <2>2
<1> QED
  BY <1>1, <1>2

-------------------------------------------------------------------------------
(* Types *)

\* A call that begins keeps the types ...
LEMMA EnterTypes ==
  ASSUME TypeOK, NEW p \in Procs, NEW m \in Seq(Statements), m # << >>,
         NEW c \in {"submit", "direct", "dequeue", "start", "report", "lastReport", "cancel", "recover", "fire"},
         Enter(p, c, m), status' \in Status \cup {"none"}, busy' = busy, timers' \subseteq timers,
         current' = {} \/ current' = current \/ (c = "dequeue" /\ current' = current \cup {p})
  PROVE  TypeOK'
BY DEF TypeOK, Enter

\* ... so does a method that is refused ...
LEMMA RefusedTypes ==
  ASSUME TypeOK, NEW p \in Procs, NEW state \in {"idle", "failing"}, Refused(p, state),
         UNCHANGED <<status, current, timers>>
  PROVE  TypeOK'
BY DEF TypeOK, Refused

\* ... or that throws ...
LEMMA ThrowTypes ==
  ASSUME TypeOK, NEW p \in Procs, call[p] # "none", Throw(p), status' = status, rows' = rows,
         numbers' = numbers, busy' \in 0..MaxBusy, p \notin current', current' \subseteq current
  PROVE  TypeOK'
<1>1. AfterThrow(p) \in {"idle", "holding", "working", "failing"}
  BY DEF AfterThrow, TypeOK
<1> QED
  BY <1>1 DEF TypeOK, Throw

\* ... and a statement that is done.
LEMMA AdvanceTypes ==
  ASSUME TypeOK, NEW p \in Procs, todo[p] # << >>, Advance(p), status' \in Status,
         rows' \in Nat, numbers' \subseteq Nat \ {0}, busy' = busy,  current' = {}
  PROVE  TypeOK'
<1>1. After(p) \in {"idle", "holding", "working", "failing"}
  BY DEF After, TypeOK
<1>2. /\ Tail(todo[p]) \in Seq(Statements)
      /\ Len(todo[p]) = 1 <=> Tail(todo[p]) = << >>
  BY Rest DEF TypeOK
<1>3. call[p] # "none"
  BY DEF TypeOK
<1> QED
  BY <1>1, <1>2, <1>3 DEF TypeOK, Advance

\* Every step keeps the types.
LEMMA TypeStep == WInv /\ [Next]_vars => TypeOK'
<1> SUFFICES ASSUME WInv, [Next]_vars PROVE TypeOK'
  OBVIOUS
<1> TypeOK
  BY DEF WInv
<1>1. ASSUME NEW p \in Procs, SubmitTask(p) PROVE TypeOK'
  <2>1. <<S("queued"), E("created"), E("queued")>> \in Seq(Statements)
    BY DEF S, E, Statements, Status
  <2>2. "created" \in Status
    BY DEF Status
  <2> QED
    BY <1>1, <2>1, <2>2, EnterTypes DEF SubmitTask, WriteStatus, Enter
<1>2. ASSUME NEW p \in Clis, RunDirect(p) PROVE TypeOK'
  <2>1. <<E("created"), S("queued"), E("queued"), S("assigned"), E("assigned"), S("running")>>
          \in Seq(Statements)
    BY DEF S, E, Statements, Status
  <2>2. "created" \in Status
    BY DEF Status
  <2> QED
    BY <1>2, <2>1, <2>2, EnterTypes DEF RunDirect, WriteStatus, Enter
<1>3. ASSUME NEW p \in Servers, Dequeue(p) PROVE TypeOK'
  <2>1. <<S("assigned"), E("assigned")>> \in Seq(Statements)
    BY DEF S, E, Statements, Status
  <2>2. status' \in Status \cup {"none"} /\ busy' = busy
    BY <1>3 DEF Dequeue, Enter, TypeOK
  <2> QED
    BY <1>3, <2>1, <2>2, EnterTypes DEF Dequeue
<1>4. ASSUME NEW p \in Servers, StartExecution(p) PROVE TypeOK'
  <2>1. <<S("running"), E("running")>> \in Seq(Statements)
    BY DEF S, E, Statements, Status
  <2>2. status' \in Status \cup {"none"} /\ UNCHANGED <<status, current, timers>>
    BY <1>4 DEF StartExecution, TypeOK
  <2>3. busy' = busy
    BY <1>4 DEF StartExecution, Enter, Refused
  <2> QED
    BY <1>4, <2>1, <2>2, <2>3, EnterTypes, RefusedTypes DEF StartExecution
<1>5. ASSUME NEW p \in Servers, Recover(p) PROVE TypeOK'
  <2>1. {<<S("retry_scheduled"), RETRY>>, <<S("failed"), S("dead_lettered"), E("dead_lettered")>>}
          \subseteq Seq(Statements) \ {<< >>}
    BY DEF S, E, RETRY, Statements, Status
  <2>2. status' \in Status \cup {"none"} /\ UNCHANGED <<status, current, timers>>
    BY <1>5 DEF Recover, TypeOK
  <2>3. busy' = busy
    BY <1>5 DEF Recover, Enter
  <2> QED
    BY <1>5, <2>1, <2>2, <2>3, EnterTypes DEF Recover
<1>6. ASSUME NEW p \in Procs, NEW r \in Results, Complete(p, r) PROVE TypeOK'
  <2>1. status' \in Status \cup {"none"} /\ UNCHANGED <<status, current, timers>>
    BY <1>6 DEF Complete, TypeOK
  <2>2. busy' = busy
    BY <1>6 DEF Complete, Enter, Refused
  <2> QED
    BY <1>6, <2>1, <2>2, Methods, EnterTypes, RefusedTypes DEF Complete
<1>7. ASSUME NEW p \in Procs, CancelExecution(p) PROVE TypeOK'
  <2>1. <<S("cancelled"), E("cancelled")>> \in Seq(Statements)
    BY DEF S, E, Statements, Status
  <2>2. status' \in Status \cup {"none"} /\ UNCHANGED <<status, current>>
    BY <1>7 DEF CancelExecution, TypeOK
  <2>3. busy' = busy
    BY <1>7 DEF CancelExecution, Enter
  <2> QED
    BY <1>7, <2>1, <2>2, <2>3, EnterTypes DEF CancelExecution
<1>8. ASSUME NEW p \in Procs, Validate(p) PROVE TypeOK'
  <2>1. call[p] # "none" /\ p \notin current
    BY <1>8 DEF Validate, NextIs, InTransaction, TypeOK
  <2>2. CASE Valid(status, Head(todo[p]).arg)
    <3>1. /\ read' = [read EXCEPT ![p] = 1]
          /\ UNCHANGED <<status, rows, numbers, current, call, todo, timers, runner, busy>>
      BY <1>8, <2>2 DEF Validate, unwritten
    <3> QED
      BY <2>1, <3>1 DEF TypeOK
  <2>3. CASE Throw(p)
    BY <1>8, <2>1, <2>3, ThrowTypes DEF Validate, TypeOK, unwritten
  <2> QED
    BY <1>8, <2>2, <2>3 DEF Validate
<1>9. ASSUME NEW p \in Procs, Write(p) PROVE TypeOK'
  <2>1. Head(todo[p]).arg \in Status
    <3>1. Head(todo[p]) \in Statements
      BY <1>9, Rest DEF Write, NextIs, TypeOK
    <3> QED
      BY <3>1 DEF Statements
  <2> QED
    BY <1>9, <2>1, AdvanceTypes DEF Write, NextIs, WriteStatus, TypeOK
<1>10. ASSUME NEW p \in Procs, CommitDequeue(p) PROVE TypeOK'
  <2>1. todo[p] # << >> /\ call[p] # "none" /\ "assigned" \in Status
    BY <1>10 DEF CommitDequeue, InTransaction, NextIs, Status
  <2> QED
    BY <1>10, <2>1, AdvanceTypes, ThrowTypes DEF CommitDequeue, WriteStatus, TypeOK
<1>11. ASSUME NEW p \in Procs, Number(p) PROVE TypeOK'
  <2>1. call[p] # "none" /\ read'[p] \in Nat
    BY <1>11 DEF Number, NextIs, TypeOK
  <2> QED
    BY <1>11, <2>1 DEF Number, TypeOK, unwritten
<1>12. ASSUME NEW p \in Procs, InsertEvent(p) PROVE TypeOK'
  <2>1. todo[p] # << >> /\ call[p] # "none" /\ read[p] # 0
    BY <1>12 DEF InsertEvent, NextIs, TypeOK
  <2>2. p \notin current
    BY <1>12 DEF InsertEvent, NextIs, InTransaction, WInv, SnapshotsShowQueued
  <2>3. status \in Status
    BY <2>1 DEF WInv, NothingBeforeInsert, TypeOK
  <2>4. busy' \in 0..MaxBusy /\ busy' = busy /\ status' = status
    BY <1>12 DEF InsertEvent, TypeOK
  <2>5. CASE Throw(p) /\ UNCHANGED <<rows, numbers, current>>
    BY <2>1, <2>2, <2>4, <2>5, ThrowTypes
  <2>6. CASE Advance(p) /\ rows' = rows + 1 /\ numbers' = numbers \cup {read[p]} /\ current' = {}
    <3>1. rows' \in Nat /\ read[p] \in Nat \ {0} /\ numbers \subseteq Nat \ {0}
      BY <2>1, <2>6 DEF TypeOK
    <3>2. numbers' \subseteq Nat \ {0}
      BY <2>6, <3>1
    <3> QED
      BY <2>1, <2>3, <2>4, <2>6, <3>1, <3>2, AdvanceTypes
  <2> QED
    BY <1>12, <2>5, <2>6 DEF InsertEvent
<1>13. ASSUME NEW p \in Procs, Busy(p) PROVE TypeOK'
  <2>1. call[p] # "none" /\ busy' \in 0..MaxBusy
    BY <1>13 DEF Busy, TypeOK
  <2> QED
    BY <1>13, <2>1, ThrowTypes DEF Busy
<1>14. ASSUME NEW p \in Procs, InsertRetry(p) PROVE TypeOK'
  <2>1. todo[p] # << >> /\ call[p] # "none"
    BY <1>14 DEF InsertRetry, NextIs, TypeOK
  <2>2. status' \in Status /\ rows' \in Nat /\ numbers' \subseteq Nat \ {0} /\ busy' = busy /\ current' = {}
    BY <1>14, <2>1 DEF InsertRetry, WInv, NothingBeforeInsert, TypeOK
  <2> QED
    BY <1>14, <2>1, <2>2, AdvanceTypes DEF InsertRetry
<1>15. ASSUME NEW p \in Servers, FireTimer(p) PROVE TypeOK'
  <2>1. <<RETRY>> \in Seq(Statements) /\ <<RETRY>> # << >>
    BY DEF RETRY, Statements, Status
  <2>2. status' \in Status \cup {"none"} /\ current' = current /\ timers' \subseteq timers
    BY <1>15 DEF FireTimer, TypeOK
  <2>3. CASE Enter(p, "fire", <<RETRY>>)
    <3>1. busy' = busy
      BY <2>3 DEF Enter
    <3> QED
      BY <2>1, <2>2, <2>3, <3>1, EnterTypes
  <2>4. CASE UNCHANGED <<rows, numbers, call, todo, read, runner, busy>>
    BY <1>15, <2>2, <2>4 DEF FireTimer, TypeOK
  <2> QED
    BY <1>15, <2>3, <2>4 DEF FireTimer
<1>16. CASE UNCHANGED vars
  BY <1>16 DEF vars, TypeOK
<1> QED
  BY <1>1, <1>2, <1>3, <1>4, <1>5, <1>6, <1>7, <1>8, <1>9, <1>10, <1>11, <1>12, <1>13, <1>14, <1>15, <1>16
     DEF Next

-------------------------------------------------------------------------------
(* The queue *)

\* A step adds nothing to what q has to do that puts the row in the queue.
Shrinks(q) ==
  \/ todo'[q] = todo[q]
  \/ todo[q] # << >> /\ todo'[q] = Tail(todo[q])
  \/ \A i \in Nat : ~Queues(q, i)'

\* What is still to come was to come.
LEMMA StillToCome ==
  ASSUME TypeOK, NEW q \in Procs, NEW i \in Nat, Queues(q, i)', Shrinks(q)
  PROVE  /\ Queues(q, i) \/ Queues(q, i + 1)
         /\ todo'[q] = todo[q] => Queues(q, i)
         /\ todo'[q] # todo[q] => Queues(q, i + 1) /\ todo[q] # << >> /\ todo'[q] = Tail(todo[q])
         /\ todo[q] # << >> /\ todo'[q] = Tail(todo[q]) => Queues(q, i + 1) /\ i # 0
<1>1. i \in DOMAIN todo'[q] /\ todo'[q][i] = S("queued")
  BY DEF Queues
<1>2. todo'[q] = todo[q] => Queues(q, i)
  BY <1>1 DEF Queues
<1>3. ASSUME todo[q] # << >>, todo'[q] = Tail(todo[q]) PROVE Queues(q, i + 1) /\ i # 0
  <2>1. i + 1 \in DOMAIN todo[q] /\ Tail(todo[q])[i] = todo[q][i + 1] /\ i # 0
    BY <1>1, <1>3, Rest DEF TypeOK
  <2> QED
    BY <1>1, <1>3, <2>1 DEF Queues
<1> QED
  BY <1>2, <1>3 DEF Shrinks

\* The row stays queued once and taken once if nothing is added to what will be
\* done, nobody takes the row, and only the statement for it puts it in the queue.
LEMMA QueueKept ==
  ASSUME TypeOK, QueuedOnce, NeverQueuedAgain, TakenOnce,
         \A q \in Procs : Shrinks(q),
         \A q \in Servers : Taken(q)' => Taken(q),
         \/ status' = "queued" => status = "queued"
         \/ \E p \in Procs : Queues(p, 1) /\ todo[p] # << >> /\ todo'[p] = Tail(todo[p])
  PROVE  QueuedOnce' /\ NeverQueuedAgain' /\ TakenOnce'
<1>1. \A q \in Procs, i \in Nat : Queues(q, i)' => Queues(q, i) \/ Queues(q, i + 1)
  BY StillToCome
<1>2. QueuedOnce'
  <2> SUFFICES ASSUME NEW p \in Procs, NEW q \in Procs, NEW i \in Nat, NEW j \in Nat,
                      Queues(p, i)', Queues(q, j)'
               PROVE  p = q /\ i = j
    BY DEF QueuedOnce
  <2>1. p = q
    BY <1>1 DEF QueuedOnce
  <2>2. CASE todo'[p] = todo[p]
    BY <2>1, <2>2, StillToCome DEF QueuedOnce
  <2>3. CASE todo'[p] # todo[p]
    <3>1. Queues(p, i + 1) /\ Queues(p, j + 1)
      BY <2>1, <2>3, StillToCome
    <3>2. i + 1 = j + 1
      BY <3>1 DEF QueuedOnce
    <3> QED
      BY <2>1, <3>2
  <2> QED
    BY <2>2, <2>3
<1>3. NeverQueuedAgain'
  <2>1. ASSUME status' = "queued", NEW p \in Procs, NEW i \in Nat PROVE ~Queues(p, i)'
    <3> SUFFICES ASSUME Queues(p, i)' PROVE FALSE
      OBVIOUS
    <3>1. Queues(p, i) \/ Queues(p, i + 1)
      BY <1>1
    <3>2. status # "queued"
      BY <3>1 DEF NeverQueuedAgain
    <3>3. PICK q \in Procs : Queues(q, 1) /\ todo[q] # << >> /\ todo'[q] = Tail(todo[q])
      BY <2>1, <3>2
    <3>4. p = q
      BY <3>1, <3>3 DEF QueuedOnce
    <3>5. Queues(p, i + 1) /\ i # 0
      BY <3>3, <3>4, StillToCome
    <3>6. i + 1 = 1
      BY <3>3, <3>4, <3>5 DEF QueuedOnce
    <3> QED
      BY <3>5, <3>6
  <2>2. ASSUME NEW p \in Servers, Taken(p)'
        PROVE  status' # "queued" /\ \A q \in Procs, i \in Nat : ~Queues(q, i)'
    <3>1. Taken(p)
      BY <2>2
    <3>2. status # "queued" /\ \A q \in Procs, i \in Nat : ~Queues(q, i)
      BY <3>1 DEF NeverQueuedAgain
    <3>3. status' # "queued"
      BY <3>2
    <3> QED
      BY <1>1, <3>2, <3>3
  <2> QED
    BY <2>1, <2>2 DEF NeverQueuedAgain
<1>4. TakenOnce'
  BY DEF TakenOnce
<1> QED
  BY <1>2, <1>3, <1>4

-------------------------------------------------------------------------------
(* Steps *)

\* A process that is in no call has nothing to do.
LEMMA IdleHasNothing ==
  ASSUME TypeOK, NEW p \in Procs, call[p] = "none"
  PROVE  todo[p] = << >> /\ read[p] = 0 /\ p \notin current /\ \A i \in Nat : ~Queues(p, i)
<1>1. todo[p] = << >> /\ read[p] = 0 /\ p \notin current
  BY DEF TypeOK
<1> QED
  BY <1>1 DEF Queues

\* A call begins that does not put the row in the queue.
LEMMA Entered ==
  ASSUME WInv, TypeOK', NEW p \in Procs, NEW m \in Seq(Statements),
         \A i \in DOMAIN m : m[i] # S("queued"),
         NEW c \in {"dequeue", "start", "report", "lastReport", "cancel", "recover", "fire"},
         Enter(p, c, m), status # "none", status' = status,
         c = "start" => runner[p] = "holding",
         IF c = "dequeue" THEN /\ runner[p] = "idle" /\ status = "queued"
                               /\ m = <<S("assigned"), E("assigned")>>
                               /\ current' = current \cup {p}
                          ELSE current' = current
  PROVE  WInv'
<1> TypeOK
  BY DEF WInv
<1>0. /\ p \notin current /\ read[p] = 0 /\ call' = [call EXCEPT ![p] = c]
      /\ todo' = [todo EXCEPT ![p] = m] /\ UNCHANGED <<rows, numbers, read, runner, busy>>
      /\ call \in [Procs -> {"none", "submit", "direct", "dequeue", "start",
                             "report", "lastReport", "cancel", "recover", "fire"}]
      /\ todo \in [Procs -> Seq(Statements)]
  BY IdleHasNothing DEF Enter, TypeOK
<1>1. LogIsSequence'
  BY <1>0 DEF WInv, LogIsSequence
<1>2. NumbersAreNext'
  BY <1>0 DEF WInv, NumbersAreNext, NextIs
<1>3. NothingBeforeInsert'
  BY DEF NothingBeforeInsert
<1>4. CallsOfRunner'
  BY <1>0 DEF WInv, CallsOfRunner
<1>5. \A q \in Procs : Shrinks(q)
  BY <1>0 DEF Shrinks, Queues
<1>6. ASSUME NEW q \in Servers, Taken(q)' PROVE Taken(q)
  <2>1. m # <<E("assigned")>> \/ c # "dequeue"
    OBVIOUS
  <2> QED
    BY <1>0, <1>6, <2>1 DEF Taken
<1>7. QueuedOnce' /\ NeverQueuedAgain' /\ TakenOnce'
  BY <1>5, <1>6, QueueKept DEF WInv
<1>8. SnapshotsShowQueued'
  <2>1. c = "dequeue" => (status = "queued" /\ InTransaction(p))'
    <3>1. SUFFICES ASSUME c = "dequeue" PROVE status' = "queued" /\ InTransaction(p)'
      OBVIOUS
    <3>2. call'[p] = "dequeue" /\ todo'[p] = <<S("assigned"), E("assigned")>>
      BY <1>0, <3>1
    <3>3. todo'[p] # << >> /\ Head(todo'[p]) = S("assigned")
      BY <3>2
    <3> QED
      BY <3>1, <3>2, <3>3 DEF InTransaction, NextIs, S
  <2> QED
    BY <1>0, <2>1 DEF WInv, SnapshotsShowQueued, InTransaction, NextIs
<1> QED
  BY <1>1, <1>2, <1>3, <1>4, <1>7, <1>8 DEF WInv

\* The call begins that creates the row and puts it in the queue.
LEMMA Created ==
  ASSUME WInv, TypeOK', NEW p \in Procs, NEW m \in Seq(Statements), NEW k \in Nat,
         \A i \in DOMAIN m : m[i] = S("queued") => i = k,
         NEW c \in {"submit", "direct"}, c = "direct" => p \in Clis,
         Enter(p, c, m), status = "none", WriteStatus("created")
  PROVE  WInv'
<1> TypeOK
  BY DEF WInv
<1>0. /\ status' = "created" /\ current' = {} /\ read[p] = 0 /\ call' = [call EXCEPT ![p] = c]
      /\ todo' = [todo EXCEPT ![p] = m] /\ UNCHANGED <<rows, numbers, read, runner, busy>>
      /\ call \in [Procs -> {"none", "submit", "direct", "dequeue", "start",
                             "report", "lastReport", "cancel", "recover", "fire"}]
      /\ todo \in [Procs -> Seq(Statements)]
  BY IdleHasNothing DEF Enter, TypeOK, WriteStatus
<1>1. \A q \in Procs : /\ call[q] = "none" /\ runner[q] = "idle" /\ \A i \in Nat : ~Queues(q, i)
  BY IdleHasNothing DEF WInv, NothingBeforeInsert
<1>2. LogIsSequence' /\ NumbersAreNext'
  BY <1>0 DEF WInv, LogIsSequence, NumbersAreNext, NextIs
<1>3. NothingBeforeInsert' /\ SnapshotsShowQueued'
  BY <1>0 DEF NothingBeforeInsert, SnapshotsShowQueued
<1>4. CallsOfRunner'
  BY <1>0, <1>1 DEF CallsOfRunner
<1>5. \A q \in Procs : \A i \in Nat : Queues(q, i)' => q = p /\ i = k
  BY <1>0, <1>1 DEF Queues
<1>6. \A q \in Servers : ~Taken(q)'
  BY <1>0, <1>1 DEF Taken
<1>7. QueuedOnce' /\ NeverQueuedAgain' /\ TakenOnce'
  BY <1>0, <1>5, <1>6 DEF QueuedOnce, NeverQueuedAgain, TakenOnce
<1> QED
  BY <1>2, <1>3, <1>4, <1>7 DEF WInv

\* A method is refused at its first look at the row, and its runner lets go.
LEMMA LetGo ==
  ASSUME WInv, TypeOK', NEW p \in Procs, NEW state \in {"idle", "failing"},
         Refused(p, state), UNCHANGED <<status, current>>, runner[p] # "idle"
  PROVE  WInv'
<1> TypeOK
  BY DEF WInv
<1>0. /\ call[p] = "none" /\ runner' = [runner EXCEPT ![p] = state]
      /\ UNCHANGED <<status, rows, numbers, call, todo, read, current, busy>>
      /\ runner \in [Procs -> {"idle", "holding", "working", "failing"}]
  BY DEF Refused, TypeOK
<1>1. LogIsSequence' /\ NumbersAreNext' /\ SnapshotsShowQueued'
  BY <1>0 DEF WInv, LogIsSequence, NumbersAreNext, NextIs, SnapshotsShowQueued, InTransaction
<1>2. NothingBeforeInsert' /\ CallsOfRunner'
  BY <1>0 DEF WInv, NothingBeforeInsert, CallsOfRunner
<1>3. (\A q \in Procs : Shrinks(q)) /\ \A q \in Servers : Taken(q)' => Taken(q)
  BY <1>0 DEF Shrinks, Taken
<1>4. QueuedOnce' /\ NeverQueuedAgain' /\ TakenOnce'
  BY <1>0, <1>3, QueueKept DEF WInv
<1> QED
  BY <1>1, <1>2, <1>4 DEF WInv

\* A statement reads what the next one uses.
LEMMA WasRead ==
  ASSUME WInv, TypeOK', NEW p \in Procs, NEW n \in Nat, todo[p] # << >>, ~InTransaction(p),
         read' = [read EXCEPT ![p] = n], NextIs(p, "event") => n <= rows + 1,
         UNCHANGED <<status, rows, numbers, call, todo, current, runner, busy>>
  PROVE  WInv'
<1> TypeOK
  BY DEF WInv
<1>0. read \in [Procs -> Nat] /\ rows \in Nat /\ call[p] # "none"
  BY DEF TypeOK
<1>1. LogIsSequence' /\ NothingBeforeInsert' /\ SnapshotsShowQueued'
  BY DEF WInv, LogIsSequence, NothingBeforeInsert, SnapshotsShowQueued, NextIs, InTransaction
<1>2. NumbersAreNext'
  BY <1>0 DEF WInv, NumbersAreNext, NextIs
<1>3. CallsOfRunner'
  <2>1. ~(call[p] = "dequeue" /\ todo[p] = <<S("assigned"), E("assigned")>>)
    BY DEF InTransaction, NextIs, S
  <2> QED
    BY <1>0, <2>1 DEF WInv, CallsOfRunner
<1>4. (\A q \in Procs : Shrinks(q)) /\ \A q \in Servers : Taken(q)' => Taken(q)
  BY DEF Shrinks, Taken
<1>5. QueuedOnce' /\ NeverQueuedAgain' /\ TakenOnce'
  BY <1>4, QueueKept DEF WInv
<1> QED
  BY <1>1, <1>2, <1>3, <1>5 DEF WInv

\* A statement throws, and so does its method.
LEMMA Thrown ==
  ASSUME WInv, TypeOK', NEW p \in Procs, todo[p] # << >>, Throw(p),
         UNCHANGED <<status, rows, numbers>>, p \notin current', current' \subseteq current
  PROVE  WInv'
<1> TypeOK
  BY DEF WInv
<1>0. /\ call' = [call EXCEPT ![p] = "none"] /\ todo' = [todo EXCEPT ![p] = << >>]
      /\ read' = [read EXCEPT ![p] = 0] /\ runner' = [runner EXCEPT ![p] = AfterThrow(p)]
      /\ call \in [Procs -> {"none", "submit", "direct", "dequeue", "start",
                             "report", "lastReport", "cancel", "recover", "fire"}]
      /\ todo \in [Procs -> Seq(Statements)] /\ read \in [Procs -> Nat] /\ call[p] # "none"
      /\ runner \in [Procs -> {"idle", "holding", "working", "failing"}]
  BY DEF Throw, TypeOK
<1>1. LogIsSequence' /\ NumbersAreNext'
  BY <1>0 DEF WInv, LogIsSequence, NumbersAreNext, NextIs
<1>2. NothingBeforeInsert' /\ CallsOfRunner'
  BY <1>0 DEF WInv, NothingBeforeInsert, CallsOfRunner
<1>3. SnapshotsShowQueued'
  BY <1>0 DEF WInv, SnapshotsShowQueued, InTransaction, NextIs
<1>4. \A q \in Procs : Shrinks(q)
  BY <1>0 DEF Shrinks, Queues
<1>5. AfterThrow(p) \in {"holding", "working"} => runner[p] = AfterThrow(p)
  BY DEF AfterThrow
<1>6. \A q \in Servers : Taken(q)' => Taken(q)
  BY <1>0, <1>5 DEF Taken
<1>7. QueuedOnce' /\ NeverQueuedAgain' /\ TakenOnce'
  BY <1>4, <1>6, QueueKept DEF WInv
<1> QED
  BY <1>1, <1>2, <1>3, <1>7 DEF WInv

\* A statement outside the transaction is done: the log has grown by the next
\* number, or the status was written.
LEMMA Done ==
  ASSUME WInv, TypeOK', NEW p \in Procs, todo[p] # << >>, Advance(p), ~InTransaction(p),
         current' = {}, status' \in Status,
         \/ status' = status
         \/ NextIs(p, "status") /\ status' = Head(todo[p]).arg,
         \/ rows' = rows /\ numbers' = numbers
         \/ rows' = rows + 1 /\ numbers' = numbers \cup {rows + 1}
  PROVE  WInv'
<1> TypeOK
  BY DEF WInv
<1>0. /\ call' = [call EXCEPT ![p] = IF Len(todo[p]) = 1 THEN "none" ELSE @]
      /\ todo' = [todo EXCEPT ![p] = Tail(@)]
      /\ read' = [read EXCEPT ![p] = 0]
      /\ runner' = [runner EXCEPT ![p] = IF Len(todo[p]) = 1 THEN After(p) ELSE @]
      /\ call \in [Procs -> {"none", "submit", "direct", "dequeue", "start",
                             "report", "lastReport", "cancel", "recover", "fire"}]
      /\ todo \in [Procs -> Seq(Statements)] /\ read \in [Procs -> Nat] /\ call[p] # "none"
      /\ runner \in [Procs -> {"idle", "holding", "working", "failing"}]
      /\ rows \in Nat
  BY DEF Advance, TypeOK
<1>1. LogIsSequence'
  <2>1. numbers = 1..rows
    BY DEF WInv, LogIsSequence
  <2>2. (1..rows) \cup {rows + 1} = 1..(rows + 1)
    BY <1>0
  <2> QED
    BY <2>1, <2>2 DEF LogIsSequence
<1>2. NumbersAreNext'
  BY <1>0 DEF WInv, NumbersAreNext, NextIs
<1>3. NothingBeforeInsert' /\ SnapshotsShowQueued'
  BY DEF NothingBeforeInsert, SnapshotsShowQueued, Status
<1>4. ASSUME call[p] = "dequeue" PROVE todo[p] = <<E("assigned")>> /\ Len(todo[p]) = 1
  <2>1. todo[p] # <<S("assigned"), E("assigned")>>
    BY <1>4 DEF InTransaction, NextIs, S
  <2>2. todo[p] = <<E("assigned")>>
    BY <1>4, <2>1 DEF WInv, CallsOfRunner
  <2> QED
    BY <2>2
<1>5. CallsOfRunner'
  <2> HIDE DEF S, E
  <2> QED
    BY <1>0, <1>4 DEF WInv, CallsOfRunner
<1>6. \A q \in Procs : Shrinks(q)
  BY <1>0 DEF Shrinks
<1>7. ASSUME NEW q \in Servers, Taken(q)' PROVE Taken(q)
  <2>1. CASE q # p
    BY <1>0, <1>7, <2>1 DEF Taken
  <2>2. CASE q = p /\ Len(todo[p]) # 1
    BY <1>0, <1>4, <1>7, <2>2 DEF Taken
  <2>3. CASE q = p /\ Len(todo[p]) = 1
    <3>1. runner'[p] = After(p) /\ After(p) \in {"holding", "working"}
      BY <1>0, <1>7, <2>3 DEF Taken
    <3>2. call[p] # "direct" /\ (call[p] = "start" => runner[p] = "holding")
      BY <2>3 DEF WInv, CallsOfRunner
    <3>3. CASE call[p] \in {"dequeue", "start"}
      BY <1>4, <2>3, <3>2, <3>3 DEF Taken
    <3>4. CASE call[p] \notin {"dequeue", "start"}
      BY <2>3, <3>1, <3>2, <3>4 DEF Taken, After
    <3> QED
      BY <3>3, <3>4
  <2> QED
    BY <2>1, <2>2, <2>3
<1>8. (status' = "queued" => status = "queued") \/ Queues(p, 1)
  <2> SUFFICES ASSUME NextIs(p, "status"), Head(todo[p]).arg = "queued" PROVE Queues(p, 1)
    OBVIOUS
  <2>1. Head(todo[p]) \in Statements /\ 1 \in DOMAIN todo[p] /\ todo[p][1] = Head(todo[p])
    BY <1>0, Rest
  <2>2. Head(todo[p]) = S("queued")
    BY <2>1 DEF Statements, NextIs, S
  <2> QED
    BY <2>1, <2>2 DEF Queues
<1>9. QueuedOnce' /\ NeverQueuedAgain' /\ TakenOnce'
  BY <1>0, <1>6, <1>7, <1>8, QueueKept DEF WInv
<1> QED
  BY <1>1, <1>2, <1>3, <1>5, <1>9 DEF WInv

\* A transaction commits: the row was queued until now, so that nobody else has
\* taken it and nobody will put it back.
LEMMA Committed ==
  ASSUME WInv, TypeOK', NEW p \in Procs, p \in current, WriteStatus("assigned"), Advance(p),
         UNCHANGED <<rows, numbers, busy>>
  PROVE  WInv'
<1> TypeOK
  BY DEF WInv
<1>1. status = "queued" /\ call[p] = "dequeue" /\ runner[p] = "idle"
      /\ todo[p] = <<S("assigned"), E("assigned")>>
  <2>1. status = "queued" /\ call[p] = "dequeue" /\ NextIs(p, "status")
    BY DEF WInv, SnapshotsShowQueued, InTransaction
  <2>2. todo[p] # <<E("assigned")>>
    BY <2>1 DEF NextIs, E
  <2> QED
    BY <2>1, <2>2 DEF WInv, CallsOfRunner
<1>2. Tail(todo[p]) = <<E("assigned")>> /\ Len(todo[p]) = 2
  BY <1>1
<1>3. /\ status' = "assigned" /\ current' = {} /\ call' = call /\ runner' = runner
      /\ todo' = [todo EXCEPT ![p] = <<E("assigned")>>]
      /\ read' = [read EXCEPT ![p] = 0] /\ UNCHANGED <<rows, numbers, busy>>
      /\ todo \in [Procs -> Seq(Statements)] /\ read \in [Procs -> Nat]
  <2>1. call' = call /\ runner' = runner
    BY <1>2 DEF Advance, TypeOK
  <2> QED
    BY <1>2, <2>1 DEF Advance, WriteStatus, TypeOK
<1> HIDE DEF S, E
<1>4. LogIsSequence' /\ NumbersAreNext' /\ NothingBeforeInsert' /\ SnapshotsShowQueued'
  BY <1>3 DEF WInv, LogIsSequence, NumbersAreNext, NextIs, NothingBeforeInsert, SnapshotsShowQueued
<1>5. CallsOfRunner'
  BY <1>1, <1>3 DEF WInv, CallsOfRunner
<1>6. \A q \in Procs : Shrinks(q)
  <2>1. todo[p] # << >>
    BY <1>2
  <2> QED
    BY <1>2, <1>3, <2>1 DEF Shrinks
<1>7. \A q \in Procs, i \in Nat : ~Queues(q, i)'
  <2>1. \A q \in Procs, i \in Nat : ~Queues(q, i)
    BY <1>1 DEF WInv, NeverQueuedAgain
  <2> QED
    BY <1>6, <2>1, StillToCome
<1>8. \A q \in Servers : Taken(q)' => q = p
  <2>1. \A q \in Servers : ~Taken(q)
    BY <1>1 DEF WInv, NeverQueuedAgain
  <2> QED
    BY <1>3, <2>1 DEF Taken
<1>9. QueuedOnce' /\ NeverQueuedAgain' /\ TakenOnce'
  BY <1>3, <1>7, <1>8 DEF QueuedOnce, NeverQueuedAgain, TakenOnce
<1> QED
  BY <1>4, <1>5, <1>9 DEF WInv

-------------------------------------------------------------------------------
(* The invariant *)

\* Every step preserves the invariant.
LEMMA WInvStep == WInv /\ [Next]_vars => WInv'
<1> SUFFICES ASSUME WInv, [Next]_vars PROVE WInv'
  OBVIOUS
<1> TypeOK /\ TypeOK'
  BY TypeStep DEF WInv
<1>0. \A p \in Procs : todo[p] # << >> \/ runner[p] # "idle" => status \in Status
  BY DEF WInv, NothingBeforeInsert, TypeOK
<1>1. ASSUME NEW p \in Procs, SubmitTask(p) PROVE WInv'
  <2> DEFINE m == <<S("queued"), E("created"), E("queued")>>
  <2>1. m \in Seq(Statements) /\ \A i \in DOMAIN m : m[i] = S("queued") => i = 1
    BY DEF S, E, Statements, Status
  <2> HIDE DEF m
  <2> QED
    BY <1>1, <2>1, Created DEF SubmitTask, m
<1>2. ASSUME NEW p \in Clis, RunDirect(p) PROVE WInv'
  <2> DEFINE m == <<E("created"), S("queued"), E("queued"), S("assigned"), E("assigned"), S("running")>>
  <2>1. m \in Seq(Statements) /\ \A i \in DOMAIN m : m[i] = S("queued") => i = 2
    BY DEF S, E, Statements, Status
  <2> HIDE DEF m
  <2> QED
    BY <1>2, <2>1, Created DEF RunDirect, m
<1>3. ASSUME NEW p \in Servers, Dequeue(p) PROVE WInv'
  <2> DEFINE m == <<S("assigned"), E("assigned")>>
  <2>1. m \in Seq(Statements) /\ \A i \in DOMAIN m : m[i] # S("queued")
    BY DEF S, E, Statements, Status
  <2> QED
    BY <1>3, <2>1, Entered DEF Dequeue
<1>4. ASSUME NEW p \in Servers, StartExecution(p) PROVE WInv'
  <2> DEFINE m == <<S("running"), E("running")>>
  <2>1. m \in Seq(Statements) /\ \A i \in DOMAIN m : m[i] # S("queued")
    BY DEF S, E, Statements, Status
  <2> QED
    BY <1>4, <2>1, Entered, LetGo DEF StartExecution
<1>5. ASSUME NEW p \in Servers, Recover(p) PROVE WInv'
  <2> DEFINE Ok(m) == m \in Seq(Statements) /\ \A i \in DOMAIN m : m[i] # S("queued")
  <2>1. Ok(<<S("retry_scheduled"), RETRY>>)
    BY DEF S, E, RETRY, Statements, Status
  <2>2. Ok(<<S("failed"), S("dead_lettered"), E("dead_lettered")>>)
    BY DEF S, E, Statements, Status
  <2>3. \A m \in {<<S("retry_scheduled"), RETRY>>, <<S("failed"), S("dead_lettered"), E("dead_lettered")>>} : Ok(m)
    BY <2>1, <2>2
  <2>4. PICK m \in {<<S("retry_scheduled"), RETRY>>, <<S("failed"), S("dead_lettered"), E("dead_lettered")>>} :
          Enter(p, "recover", m)
    BY <1>5 DEF Recover
  <2> QED
    BY <1>5, <2>3, <2>4, Entered DEF Recover
<1>6. ASSUME NEW p \in Procs, NEW r \in Results, Complete(p, r) PROVE WInv'
  <2>1. CASE status = "running"
    <3>1. PICK m \in Reports(r) : Enter(p, IF runner[p] = "failing" THEN "lastReport" ELSE "report", m)
      BY <1>6, <2>1 DEF Complete
    <3>2. m \in Seq(Statements) /\ \A i \in DOMAIN m : m[i] # S("queued")
      BY Methods
    <3> QED
      BY <1>6, <2>1, <3>1, <3>2, Entered DEF Complete
  <2>2. CASE status # "running"
    BY <1>6, <2>2, LetGo DEF Complete
  <2> QED
    BY <2>1, <2>2
<1>7. ASSUME NEW p \in Procs, CancelExecution(p) PROVE WInv'
  <2> DEFINE m == <<S("cancelled"), E("cancelled")>>
  <2>1. m \in Seq(Statements) /\ \A i \in DOMAIN m : m[i] # S("queued")
    BY DEF S, E, Statements, Status
  <2>2. status # "none"
    BY <1>7 DEF CancelExecution, Status
  <2> QED
    BY <1>7, <2>1, <2>2, Entered DEF CancelExecution
<1>8. ASSUME NEW p \in Procs, Validate(p) PROVE WInv'
  <2>1. todo[p] # << >> /\ p \notin current /\ ~NextIs(p, "event")
    BY <1>8 DEF Validate, NextIs, WInv, SnapshotsShowQueued
  <2>2. CASE Throw(p)
    BY <1>8, <2>1, <2>2, Thrown DEF Validate, unwritten
  <2>3. CASE read' = [read EXCEPT ![p] = 1] /\ UNCHANGED <<call, todo, runner>>
    BY <1>8, <2>1, <2>3, WasRead DEF Validate, unwritten
  <2> QED
    BY <1>8, <2>2, <2>3 DEF Validate
<1>9. ASSUME NEW p \in Procs, Write(p) PROVE WInv'
  <2>1. todo[p] # << >> /\ read[p] = 1
    BY <1>9 DEF Write, NextIs
  <2>2. ~InTransaction(p)
    <3>1. ~NextIs(p, "status") \/ todo[p] # <<E("assigned")>>
      BY DEF NextIs, E
    <3> QED
      BY <2>1, <3>1 DEF InTransaction, WInv, CallsOfRunner
  <2>3. Head(todo[p]).arg \in Status
    <3>1. Head(todo[p]) \in Statements
      BY <2>1, Rest DEF TypeOK
    <3> QED
      BY <3>1 DEF Statements
  <2> QED
    BY <1>9, <2>1, <2>2, <2>3, Done DEF Write, WriteStatus
<1>10. ASSUME NEW p \in Procs, CommitDequeue(p) PROVE WInv'
  <2>1. todo[p] # << >>
    BY <1>10 DEF CommitDequeue, InTransaction, NextIs
  <2> QED
    BY <1>10, <2>1, Committed, Thrown DEF CommitDequeue
<1>11. ASSUME NEW p \in Procs, Number(p) PROVE WInv'
  <2>1. PICK n \in {0} \cup numbers : read' = [read EXCEPT ![p] = n + 1]
    BY <1>11 DEF Number
  <2>2. n + 1 \in Nat /\ n + 1 <= rows + 1
    BY DEF TypeOK, WInv, LogIsSequence
  <2>3. todo[p] # << >> /\ ~InTransaction(p)
    BY <1>11 DEF Number, InTransaction, NextIs
  <2> QED
    BY <1>11, <2>1, <2>2, <2>3, WasRead DEF Number, unwritten
<1>12. ASSUME NEW p \in Procs, InsertEvent(p) PROVE WInv'
  <2>1. todo[p] # << >> /\ ~InTransaction(p) /\ read[p] # 0 /\ status \in Status
    BY <1>0, <1>12 DEF InsertEvent, InTransaction, NextIs
  <2>2. CASE read[p] \in numbers
    BY <1>12, <2>1, <2>2, Thrown DEF InsertEvent, WInv, SnapshotsShowQueued
  <2>3. CASE read[p] \notin numbers
    <3>1. read[p] \in Nat \ {0} /\ rows \in Nat
      BY <2>1 DEF TypeOK
    <3>2. read[p] <= rows + 1 /\ ~(read[p] \in 1..rows)
      BY <1>12, <2>1, <2>3 DEF InsertEvent, WInv, NumbersAreNext, LogIsSequence
    <3>3. read[p] = rows + 1
      BY <3>1, <3>2
    <3> QED
      BY <1>12, <2>1, <2>3, <3>3, Done DEF InsertEvent
  <2> QED
    BY <2>2, <2>3
<1>13. ASSUME NEW p \in Procs, Busy(p) PROVE WInv'
  BY <1>13, Thrown DEF Busy
<1>14. ASSUME NEW p \in Procs, InsertRetry(p) PROVE WInv'
  <2>1. todo[p] # << >> /\ ~InTransaction(p)
    BY <1>14 DEF InsertRetry, InTransaction, NextIs
  <2>2. status' \in Status /\ status' = status /\ current' = {} /\ rows' = rows /\ numbers' = numbers
    BY <1>0, <1>14, <2>1 DEF InsertRetry
  <2> QED
    BY <1>14, <2>1, <2>2, Done DEF InsertRetry
<1>15. ASSUME NEW p \in Servers, FireTimer(p) PROVE WInv'
  <2>1. CASE status = "retry_scheduled"
    <3> DEFINE m == <<RETRY>>
    <3>1. m \in Seq(Statements) /\ \A i \in DOMAIN m : m[i] # S("queued")
      BY DEF S, RETRY, Statements, Status
    <3> QED
      BY <1>15, <2>1, <3>1, Entered DEF FireTimer
  <2>2. CASE status # "retry_scheduled"
    <3>1. UNCHANGED <<status, rows, numbers, call, todo, read, current, runner, busy>>
      BY <1>15, <2>2 DEF FireTimer
    <3> QED
      BY <3>1 DEF WInv, LogIsSequence, NumbersAreNext, NothingBeforeInsert, CallsOfRunner,
         QueuedOnce, NeverQueuedAgain, TakenOnce, SnapshotsShowQueued, Queues, Taken, NextIs, InTransaction
  <2> QED
    BY <2>1, <2>2
<1>16. CASE UNCHANGED vars
  BY <1>16 DEF vars, WInv, LogIsSequence, NumbersAreNext, NothingBeforeInsert, CallsOfRunner,
     QueuedOnce, NeverQueuedAgain, TakenOnce, SnapshotsShowQueued, Queues, Taken, NextIs, InTransaction
<1> QED
  BY <1>1, <1>2, <1>3, <1>4, <1>5, <1>6, <1>7, <1>8, <1>9, <1>10, <1>11, <1>12, <1>13, <1>14, <1>15, <1>16
     DEF Next

\* The invariant holds in every reachable state.
THEOREM Invariance == Spec => []WInv
<1>1. Init => WInv
  BY DEF Init, WInv, TypeOK, LogIsSequence, NumbersAreNext, NothingBeforeInsert, CallsOfRunner,
     QueuedOnce, NeverQueuedAgain, TakenOnce, SnapshotsShowQueued, Queues, Taken, NextIs
<1> QED
  BY <1>1, WInvStep, PTL DEF Spec

-------------------------------------------------------------------------------
(* The properties *)

(* LogIsSequence: whatever processes write at the same time, no event number *)
(* is given twice and none is missing (nextSeq and UNIQUE(execution_id,      *)
(* event_seq)).                                                              *)
THEOREM EventsAreSequence == Spec => []LogIsSequence
<1>1. WInv => LogIsSequence
  BY DEF WInv
<1> QED
  BY <1>1, Invariance, PTL

(* OneAgentHoldsRow: of any number of servers that poll one database, one    *)
(* takes the row (dequeueExecution's transaction).                           *)
THEOREM OneAgent == Spec => []OneAgentHoldsRow
<1>1. WInv => OneAgentHoldsRow
  BY DEF WInv, TakenOnce, Taken, OneAgentHoldsRow
<1> QED
  BY <1>1, Invariance, PTL

\* A statement of the transaction is followed by the event only if it commits.
LEMMA CommitStep ==
  ASSUME WInv, [Next]_vars, NEW p \in Servers, InTransaction(p), NextIs(p, "event")'
  PROVE  p \in current
<1> SUFFICES ASSUME p \notin current PROVE FALSE
  OBVIOUS
<1>0. /\ call[p] = "dequeue" /\ todo[p] # << >> /\ Head(todo[p]).kind = "status" /\ read[p] = 0
      /\ todo \in [Procs -> Seq(Statements)] /\ todo'[p] # << >> /\ Head(todo'[p]).kind = "event"
  <2>1. todo[p] # <<E("assigned")>>
    BY DEF InTransaction, NextIs, E
  <2> QED
    BY <2>1 DEF InTransaction, NextIs, WInv, CallsOfRunner, TypeOK
<1>1. todo'[p] # todo[p] /\ todo'[p] # << >>
  BY <1>0
<1>2. ASSUME NEW q \in Procs, NEW c, NEW m, Enter(q, c, m) PROVE FALSE
  BY <1>0, <1>1, <1>2 DEF Enter
<1>3. ASSUME NEW q \in Procs, Throw(q) PROVE FALSE
  BY <1>0, <1>1, <1>3 DEF Throw
<1>4. ASSUME NEW q \in Procs, Advance(q) PROVE q = p
  BY <1>0, <1>1, <1>4 DEF Advance
<1>5. ASSUME NEW q \in Procs, SubmitTask(q) \/ RunDirect(q) \/ Dequeue(q)
                               \/ CancelExecution(q) \/ FireTimer(q)
      PROVE  FALSE
  BY <1>1, <1>2, <1>5 DEF SubmitTask, RunDirect, Dequeue, CancelExecution, FireTimer
<1>6. ASSUME NEW q \in Procs, StartExecution(q) \/ Recover(q) \/ \E r \in Results : Complete(q, r) PROVE FALSE
  BY <1>1, <1>2, <1>6 DEF StartExecution, Recover, Complete, Refused
<1>7. ASSUME NEW q \in Procs, Validate(q) \/ Number(q) \/ Busy(q) PROVE FALSE
  BY <1>1, <1>3, <1>7 DEF Validate, Number, Busy
<1>8. ASSUME NEW q \in Procs, Write(q) \/ InsertEvent(q) \/ InsertRetry(q) \/ CommitDequeue(q) PROVE FALSE
  BY <1>0, <1>3, <1>4, <1>8 DEF Write, InsertEvent, InsertRetry, CommitDequeue, NextIs
<1>9. CASE UNCHANGED vars
  BY <1>1, <1>9 DEF vars
<1> QED
  BY <1>5, <1>6, <1>7, <1>8, <1>9 DEF Next

(* OnlyQueuedIsDequeued: a poll never takes a row that is no longer queued,  *)
(* because what the transaction read cannot change before it writes.         *)
THEOREM DequeueIsAtomic == Spec => OnlyQueuedIsDequeued
<1>1. WInv /\ [Next]_vars =>
        [\A p \in Servers : InTransaction(p) /\ NextIs(p, "event")' => status = "queued"]_vars
  BY CommitStep DEF WInv, SnapshotsShowQueued
<1> QED
  BY <1>1, Invariance, PTL DEF Spec, OnlyQueuedIsDequeued

\* The insertion of a retry comes first in its method or after a write of the status.
Orderly(m) == \A i \in DOMAIN m : m[i].kind = "insert" => i = 1 \/ m[i - 1].kind = "status"

RetryFollowsStatus == \A p \in Procs : Orderly(todo[p])

\* Methods are orderly, and what is left of an orderly method is.
LEMMA OrderlyMethods ==
  /\ \A r \in Results : \A m \in Reports(r) : Orderly(m)
  /\ \A m \in Seq(Statements) : m # << >> /\ Orderly(m) => Orderly(Tail(m))
  /\ Orderly(<<S("queued"), E("created"), E("queued")>>)
  /\ Orderly(<<E("created"), S("queued"), E("queued"), S("assigned"), E("assigned"), S("running")>>)
  /\ Orderly(<<S("assigned"), E("assigned")>>) /\ Orderly(<<S("running"), E("running")>>)
  /\ Orderly(<<S("cancelled"), E("cancelled")>>) /\ Orderly(<<RETRY>>) /\ Orderly(<< >>)
  /\ Orderly(<<S("retry_scheduled"), RETRY>>)
  /\ Orderly(<<S("failed"), S("dead_lettered"), E("dead_lettered")>>)
<1>1. ASSUME NEW r \in Results, NEW m \in Reports(r) PROVE Orderly(m)
  <2>1. CASE r \in {"completed", "cancelled"}
    BY <2>1 DEF Reports, Orderly, S, E
  <2>2. CASE r \notin {"completed", "cancelled"}
    <3>1. PICK s \in {"retry_scheduled", "dead_lettered"} : m = <<S(r), E(r), S(s), E(s)>>
      BY <2>2 DEF Reports
    <3> QED
      BY <3>1 DEF Orderly, S, E
  <2> QED
    BY <2>1, <2>2
<1>2. ASSUME NEW m \in Seq(Statements), m # << >>, Orderly(m) PROVE Orderly(Tail(m))
  <2> SUFFICES ASSUME NEW i \in DOMAIN Tail(m), Tail(m)[i].kind = "insert", i # 1
               PROVE  Tail(m)[i - 1].kind = "status"
    BY DEF Orderly
  <2>1. DOMAIN m = 1 .. Len(m) /\ DOMAIN Tail(m) = 1 .. (Len(m) - 1) /\ Len(m) \in Nat
    BY Rest
  <2>2. i - 1 \in DOMAIN Tail(m) /\ i + 1 \in DOMAIN m /\ i + 1 # 1 /\ (i + 1) - 1 = (i - 1) + 1
    BY <2>1
  <2>3. Tail(m)[i] = m[i + 1] /\ Tail(m)[i - 1] = m[(i - 1) + 1]
    BY <2>2, Rest
  <2> QED
    <3>1. m[i + 1].kind = "insert" => i + 1 = 1 \/ m[(i + 1) - 1].kind = "status"
      BY <1>2, <2>2 DEF Orderly
    <3>2. m[(i + 1) - 1] = m[(i - 1) + 1]
      BY <2>2
    <3> QED
      BY <2>2, <2>3, <3>1, <3>2
<1>3. \A m : (\A i \in DOMAIN m : m[i].kind # "insert") => Orderly(m)
  BY DEF Orderly
<1>4. /\ Orderly(<<S("queued"), E("created"), E("queued")>>)
      /\ Orderly(<<E("created"), S("queued"), E("queued"), S("assigned"), E("assigned"), S("running")>>)
      /\ Orderly(<<S("assigned"), E("assigned")>>) /\ Orderly(<<S("running"), E("running")>>)
      /\ Orderly(<<S("cancelled"), E("cancelled")>>)
      /\ Orderly(<<S("failed"), S("dead_lettered"), E("dead_lettered")>>)
  <2>1. \A i \in 1..3 : <<S("queued"), E("created"), E("queued")>>[i].kind # "insert"
    BY DEF S, E
  <2>2. \A i \in 1..6 : <<E("created"), S("queued"), E("queued"), S("assigned"), E("assigned"), S("running")>>[i].kind # "insert"
    BY DEF S, E
  <2>3. \A i \in 1..2 : /\ <<S("assigned"), E("assigned")>>[i].kind # "insert"
                        /\ <<S("running"), E("running")>>[i].kind # "insert"
                        /\ <<S("cancelled"), E("cancelled")>>[i].kind # "insert"
    BY DEF S, E
  <2>4. \A i \in 1..3 : <<S("failed"), S("dead_lettered"), E("dead_lettered")>>[i].kind # "insert"
    BY DEF S, E
  <2> HIDE DEF S, E, Orderly
  <2> QED
    BY <1>3, <2>1, <2>2, <2>3, <2>4
<1>5. Orderly(<<RETRY>>) /\ Orderly(<< >>)
  BY DEF Orderly
<1>6. Orderly(<<S("retry_scheduled"), RETRY>>)
  <2>1. S("retry_scheduled").kind = "status"
    BY DEF S
  <2> HIDE DEF S
  <2> QED
    BY <2>1 DEF Orderly
<1> QED
  BY <1>1, <1>2, <1>4, <1>5, <1>6

\* Every step keeps the order.
LEMMA OrderStep == TypeOK /\ RetryFollowsStatus /\ [Next]_vars => RetryFollowsStatus'
<1> SUFFICES ASSUME TypeOK, RetryFollowsStatus, [Next]_vars PROVE RetryFollowsStatus'
  OBVIOUS
<1> HIDE DEF S, E, RETRY
<1>0. todo \in [Procs -> Seq(Statements)]
  BY DEF TypeOK
<1>1. ASSUME NEW p \in Procs, NEW c, NEW m, Orderly(m), Enter(p, c, m) PROVE RetryFollowsStatus'
  <2>1. todo' = [todo EXCEPT ![p] = m]
    BY <1>1 DEF Enter
  <2>2. \A q \in Procs : Orderly(todo'[q])
    BY <1>0, <1>1, <2>1 DEF RetryFollowsStatus
  <2> QED
    BY <2>2 DEF RetryFollowsStatus, Orderly
<1>2. ASSUME NEW p \in Procs, Throw(p) PROVE RetryFollowsStatus'
  <2>1. \A q \in Procs : Orderly(todo'[q])
    BY <1>0, <1>2, OrderlyMethods DEF RetryFollowsStatus, Throw
  <2> QED
    BY <2>1 DEF RetryFollowsStatus, Orderly
<1>3. ASSUME NEW p \in Procs, todo[p] # << >>, Advance(p) PROVE RetryFollowsStatus'
  <2>1. Orderly(Tail(todo[p]))
    BY <1>0, <1>3, OrderlyMethods DEF RetryFollowsStatus
  <2>2. \A q \in Procs : Orderly(todo'[q])
    BY <1>0, <1>3, <2>1 DEF RetryFollowsStatus, Advance
  <2> QED
    BY <2>2 DEF RetryFollowsStatus, Orderly
<1>4. CASE UNCHANGED todo
  BY <1>4 DEF RetryFollowsStatus, Orderly
<1>5. ASSUME NEW p \in Procs,
             \/ SubmitTask(p) \/ RunDirect(p) \/ Dequeue(p) \/ CancelExecution(p) \/ FireTimer(p)
             \/ StartExecution(p) \/ Recover(p) \/ \E r \in Results : Complete(p, r)
      PROVE  RetryFollowsStatus'
  BY <1>1, <1>4, <1>5, OrderlyMethods
     DEF SubmitTask, RunDirect, Dequeue, CancelExecution, FireTimer, StartExecution, Recover, Complete, Refused
<1>6. ASSUME NEW p \in Procs,
             \/ Validate(p) \/ Write(p) \/ CommitDequeue(p) \/ Number(p) \/ InsertEvent(p)
             \/ InsertRetry(p) \/ Busy(p)
      PROVE  RetryFollowsStatus'
  BY <1>2, <1>3, <1>4, <1>6
     DEF Validate, Write, CommitDequeue, Number, InsertEvent, InsertRetry, Busy, NextIs, InTransaction
<1> QED
  BY <1>4, <1>5, <1>6 DEF Next, vars

\* A settled row stays settled: every look finds a terminal status, and all that is
\* left of a method begins with a look or an event.
LEMMA SettledStep ==
  ASSUME WInv, RetryFollowsStatus, [Next]_vars, Settled
  PROVE  Settled' /\ status' = status
<1> DEFINE Quiet(q) == ~(NextIs(q, "status") /\ read[q] = 1) /\ ~NextIs(q, "insert")
<1> HIDE DEF S, E, RETRY
<1>0. /\ status \in TERMINAL_STATUSES /\ status \notin {"none", "queued", "running", "assigned", "retry_scheduled"}
      /\ \A q \in Procs : Quiet(q)
      /\ todo \in [Procs -> Seq(Statements)] /\ read \in [Procs -> Nat]
  BY DEF Settled, TERMINAL_STATUSES, WInv, TypeOK
<1> SUFFICES status' = status /\ \A q \in Procs : Quiet(q)'
  BY <1>0 DEF Settled
<1>1. ASSUME UNCHANGED <<status, todo, read>> PROVE status' = status /\ \A q \in Procs : Quiet(q)'
  BY <1>0, <1>1 DEF NextIs
<1>2. ASSUME NEW p \in Procs, Throw(p), status' = status PROVE status' = status /\ \A q \in Procs : Quiet(q)'
  BY <1>0, <1>2 DEF NextIs, Throw
<1>3. ASSUME NEW p \in Procs,
             \/ SubmitTask(p) \/ RunDirect(p) \/ Dequeue(p) \/ CancelExecution(p) \/ Recover(p)
             \/ Write(p) \/ InsertRetry(p)
      PROVE  FALSE
  BY <1>0, <1>3 DEF SubmitTask, RunDirect, Dequeue, CancelExecution, Recover, Write, InsertRetry
<1>4. ASSUME NEW p \in Procs, FireTimer(p) \/ StartExecution(p) \/ \E r \in Results : Complete(p, r)
      PROVE  UNCHANGED <<status, todo, read>>
  BY <1>0, <1>4 DEF FireTimer, StartExecution, Complete, Refused
<1>5. ASSUME NEW p \in Procs, Validate(p) PROVE Throw(p) /\ status' = status
  <2>1. \A to : ~Valid(status, to)
    BY <1>0 DEF TERMINAL_STATUSES, Valid, VALID_TRANSITIONS
  <2> QED
    BY <1>5, <2>1 DEF Validate, unwritten
<1>6. ASSUME NEW p \in Procs, CommitDequeue(p) PROVE Throw(p) /\ status' = status
  BY <1>0, <1>6 DEF CommitDequeue, WInv, SnapshotsShowQueued
<1>7. ASSUME NEW p \in Procs, Number(p) PROVE status' = status /\ \A q \in Procs : Quiet(q)'
  <2>1. PICK n \in {0} \cup numbers : read' = [read EXCEPT ![p] = n + 1]
    BY <1>7 DEF Number
  <2>2. NextIs(p, "event") /\ todo' = todo /\ status' = status
    BY <1>7 DEF Number, unwritten
  <2> QED
    BY <1>0, <2>1, <2>2 DEF NextIs
<1>8. ASSUME NEW p \in Procs, InsertEvent(p) PROVE status' = status /\ \A q \in Procs : Quiet(q)'
  <2>1. status' = status /\ todo[p] # << >> /\ Head(todo[p]).kind = "event"
    BY <1>8 DEF InsertEvent, NextIs
  <2>2. CASE Throw(p)
    BY <1>2, <2>1, <2>2
  <2>3. CASE Advance(p)
    <3>1. todo' = [todo EXCEPT ![p] = Tail(@)] /\ read' = [read EXCEPT ![p] = 0]
      BY <2>3 DEF Advance
    <3>2. ASSUME Tail(todo[p]) # << >> PROVE Head(Tail(todo[p])).kind # "insert"
      <4>1. /\ Tail(todo[p]) \in Seq(Statements) /\ Head(todo[p]) = todo[p][1]
            /\ \A i \in DOMAIN Tail(todo[p]) : i \in Nat /\ i + 1 \in DOMAIN todo[p] /\ Tail(todo[p])[i] = todo[p][i + 1]
        BY <1>0, <2>1, Rest
      <4>2. Head(Tail(todo[p])) = Tail(todo[p])[1] /\ 1 \in DOMAIN Tail(todo[p])
        BY <3>2, <4>1, Rest
      <4>3. Head(Tail(todo[p])) = todo[p][1 + 1] /\ 1 + 1 \in DOMAIN todo[p] /\ (1 + 1) - 1 = 1 /\ 1 + 1 # 1
        BY <4>1, <4>2
      <4> QED
        BY <2>1, <4>1, <4>3 DEF RetryFollowsStatus, Orderly
    <3>3. \A q \in Procs \ {p} : todo'[q] = todo[q] /\ read'[q] = read[q]
      BY <1>0, <3>1
    <3>4. todo'[p] = Tail(todo[p]) /\ read'[p] = 0
      BY <1>0, <3>1
    <3>5. Quiet(p)'
      BY <3>2, <3>4 DEF NextIs
    <3>6. \A q \in Procs \ {p} : Quiet(q)'
      BY <1>0, <3>3 DEF NextIs
    <3> QED
      BY <2>1, <3>5, <3>6
  <2> QED
    BY <1>8, <2>2, <2>3 DEF InsertEvent
<1>9. ASSUME NEW p \in Procs, Busy(p) PROVE Throw(p) /\ status' = status
  BY <1>9 DEF Busy
<1>10. CASE UNCHANGED vars
  BY <1>1, <1>10 DEF vars
<1> QED
  BY <1>1, <1>2, <1>3, <1>4, <1>5, <1>6, <1>7, <1>8, <1>9, <1>10 DEF Next

(* SettledStays: once a row is terminal and nothing that looked at it before *)
(* is under way, no process moves it again or begins to insert a retry.      *)
THEOREM SettledForGood == Spec => SettledStays
<1>1. Init => RetryFollowsStatus
  BY DEF Init, RetryFollowsStatus, Orderly
<1>2. WInv => TypeOK
  BY DEF WInv
<1>3. WInv /\ RetryFollowsStatus /\ [Next]_vars => [Settled => Settled' /\ status' = status]_vars
  BY SettledStep
<1> QED
  BY <1>1, <1>2, <1>3, OrderStep, Invariance, PTL DEF Spec, SettledStays

=============================================================================
