--------------------------- MODULE HumanInputProofs ---------------------------
(***************************************************************************)
(* Proofs of the safety properties of HumanInput for every number of asks  *)
(* and answers.                                                            *)
(*                                                                         *)
(* An answer is given to one ask because the two transports never mix.     *)
(* Over http an answer is found in the row it was written to, and no other *)
(* row ever holds it.  In the server's process it is handed on by the call *)
(* that wrote it, and the agent asks nothing between the two.              *)
(***************************************************************************)
EXTENDS HumanInput, FiniteSetTheorems, SequenceTheorems, WellFoundedInduction, TLAPS

\* The bounds, and an answer for everyone who is about to write one.
WithinBounds == Len(requests) <= MaxRequests /\ answers + Writing <= MaxAnswers

\* Only the transport in the server's process has entries in pendingInputs.
SlotOfDev == transport = "http" => slot = 0

\* Whatever refers to an answer refers to one that was written.
WereWritten ==
  /\ \A p \in Processes : answering[p].at = "resume" => answering[p].answer \in 1 .. answers
  /\ \A i \in DOMAIN requests : requests[i] \in 0 .. answers
  /\ \A i \in 1 .. MaxRequests : since[i] \in 0 .. answers
  /\ \A g \in DOMAIN got : got[g].answer \in 1 .. answers

\* A call that returned waits no longer.
ReturnedOnce == \A g \in DOMAIN got : got[g].ask \in DOMAIN requests /\ got[g].ask \notin waiting

\* An answer is in one row at most, and was written after that row was asked for.
OneRowPerAnswer ==
  \A i \in DOMAIN requests : requests[i] # 0 =>
    /\ requests[i] > since[i]
    /\ \A j \in DOMAIN requests : requests[i] = requests[j] => i = j

\* Over http an answer that was given is in no row but that of its ask.
GivenFromItsRow ==
  transport = "http" =>
    \A g \in DOMAIN got : \A j \in DOMAIN requests : requests[j] = got[g].answer => j = got[g].ask

\* What the server has written and not yet handed on is new to everyone.
NotYetGiven ==
  answering["server"].at = "resume" =>
    /\ \A g \in DOMAIN got : got[g].answer # answering["server"].answer
    /\ \A i \in 1 .. MaxRequests : since[i] < answering["server"].answer

AInv ==
  /\ TypeOK
  /\ WithinBounds
  /\ SlotOfDev
  /\ WereWritten
  /\ ReturnedOnce
  /\ OneRowPerAnswer
  /\ GivenFromItsRow
  /\ NotYetGiven
  /\ OneAnswerPerAsk
  /\ AnswersAreFresh

USE BoundsAssumption

-------------------------------------------------------------------------------
(* Rows, writers and what calls returned *)

\* A set of numbers that is not empty has a least one, and Min is it.
LEMMA MinOf ==
  ASSUME NEW X \in SUBSET Nat, X # {}
  PROVE  Min(X) \in X /\ \A x \in X : Min(X) <= x
<1> DEFINE Less == {ss \in Nat \X Nat : ss[1] < ss[2]}
<1>1. IsWellFoundedOn(Less, Nat)
  BY NatLessThanWellFounded DEF OpToRel
<1>2. PICK m \in X : \A x \in X : ~(<<x, m>> \in Less)
  <2> HIDE DEF Less
  <2> QED
    BY <1>1, WFMin
<1>3. ASSUME NEW x \in X PROVE m <= x
  <2>1. <<x, m>> \in Nat \X Nat /\ <<x, m>>[1] = x /\ <<x, m>>[2] = m
    OBVIOUS
  <2>2. ~(x < m)
    BY <1>2, <2>1
  <2> QED
    BY <2>2
<1> QED
  BY <1>3 DEF Min

\* The writers are counted.
LEMMA Writers ==
  ASSUME NEW p \in Processes, \A q \in Processes \ {p} : answering'[q] = answering[q]
  PROVE  /\ Writing \in Nat /\ Writing' \in Nat
         /\ answering[p].at # "write" /\ answering'[p].at = "write" => Writing' = Writing + 1
         /\ answering[p].at = "write" /\ answering'[p].at # "write" => Writing' = Writing - 1
         /\ (answering[p].at = "write" <=> answering'[p].at = "write") => Writing' = Writing
<1> DEFINE W == {q \in Processes : answering[q].at = "write"}
           V == {q \in Processes : answering'[q].at = "write"}
<1>1. IsFiniteSet(Processes)
  <2>1. Processes = {"server"} \cup {"other"}
    BY DEF Processes
  <2> QED
    BY <2>1, FS_AddElement, FS_Singleton
<1>2. /\ IsFiniteSet(W) /\ Cardinality(W) \in Nat /\ Writing = Cardinality(W)
      /\ IsFiniteSet(V) /\ Cardinality(V) \in Nat /\ Writing' = Cardinality(V)
  BY <1>1, FS_Subset, FS_CardinalityType DEF Writing
<1>3. /\ answering[p].at # "write" /\ answering'[p].at = "write" => V = W \cup {p} /\ p \notin W
      /\ answering[p].at = "write" /\ answering'[p].at # "write" => V = W \ {p} /\ p \in W
      /\ (answering[p].at = "write" <=> answering'[p].at = "write") => V = W
  OBVIOUS
<1> HIDE DEF W, V
<1> QED
  BY <1>2, <1>3, FS_AddElement, FS_RemoveElement

-------------------------------------------------------------------------------
(* Steps *)

\* A row is created and asked for, or asked for by nobody.
LEMMA Asked ==
  ASSUME AInv, ServerIsFree, Len(requests) < MaxRequests, CreateInputRequest,
         status' \in {"running", "waiting_for_input", "ended"},
         \/ Wait(Len(requests')) /\ (transport = "http" => slot' = slot)
         \/ UNCHANGED <<waiting, since, slot>>,
         UNCHANGED <<transport, got, answers, answering>>
  PROVE  AInv'
<1> DEFINE n == Len(requests) + 1
<1>0. /\ requests \in Seq(0 .. MaxAnswers) /\ requests' \in Seq(0 .. MaxAnswers)
      /\ Len(requests) \in Nat /\ n \in 1 .. MaxRequests
      /\ Len(requests') = n /\ DOMAIN requests = 1 .. (n - 1) /\ DOMAIN requests' = 1 .. n
      /\ requests'[n] = 0 /\ \A i \in DOMAIN requests : requests'[i] = requests[i]
      /\ n \notin DOMAIN requests /\ DOMAIN requests' = DOMAIN requests \cup {n}
      /\ answers \in 0 .. MaxAnswers /\ since \in [1 .. MaxRequests -> 0 .. MaxAnswers]
  BY DEF AInv, TypeOK, CreateInputRequest
<1>1. /\ \A i \in 1 .. MaxRequests : since'[i] = since[i] \/ since'[i] = answers
      /\ \A i \in 1 .. (n - 1) : since'[i] = since[i]
      /\ waiting' \in {waiting, waiting \cup {n}}
      /\ slot' \in {slot, n} /\ (slot' = n /\ slot # n => waiting' = waiting \cup {n})
      /\ (transport = "http" => slot' = slot)
      /\ since' \in [1 .. MaxRequests -> 0 .. MaxAnswers]
  <2> HIDE DEF n
  <2>1. CASE Wait(Len(requests')) /\ (transport = "http" => slot' = slot)
    <3>1. waiting' = waiting \cup {n} /\ since' = [since EXCEPT ![n] = answers] /\ slot' \in {slot, n}
      BY <1>0, <2>1 DEF Wait
    <3>2. 1 .. (n - 1) \subseteq 1 .. MaxRequests /\ n \notin 1 .. (n - 1)
      BY <1>0
    <3>3. \A i \in 1 .. (n - 1) : since'[i] = since[i]
      BY <1>0, <3>1, <3>2
    <3> QED
      BY <1>0, <2>1, <3>1, <3>3
  <2>2. CASE UNCHANGED <<waiting, since, slot>>
    BY <1>0, <2>2
  <2> QED
    BY <2>1, <2>2
<1> HIDE DEF n
<1>2. TypeOK'
  <2>1. slot \in waiting \cup {0}
    BY DEF AInv, TypeOK
  <2>2. waiting \subseteq waiting' /\ slot' \in waiting' \cup {0}
    BY <1>1, <2>1
  <2> QED
    BY <1>0, <1>1, <2>2 DEF AInv, TypeOK
<1>3. WithinBounds' /\ SlotOfDev'
  <2>1. Writing' = Writing
    BY DEF Writing
  <2> QED
    BY <1>0, <1>1, <2>1 DEF AInv, WithinBounds, SlotOfDev
<1>4. WereWritten'
  <2>1. answers' = answers /\ answers \in Nat /\ answering' = answering /\ got' = got
    BY <1>0
  <2>2. \A i \in DOMAIN requests' : requests'[i] \in 0 .. answers
    <3>1. \A i \in DOMAIN requests : requests[i] \in 0 .. answers
      BY DEF AInv, WereWritten
    <3>2. 0 \in 0 .. answers
      BY <2>1
    <3>3. \A i \in DOMAIN requests' : i \in DOMAIN requests \/ i = n
      BY <1>0
    <3>4. requests'[n] = 0 /\ \A i \in DOMAIN requests : requests'[i] = requests[i]
      BY <1>0
    <3> QED
      BY <3>1, <3>2, <3>3, <3>4
  <2>3. \A i \in 1 .. MaxRequests : since'[i] \in 0 .. answers
    BY <1>1, <2>1 DEF AInv, WereWritten
  <2> QED
    BY <2>1, <2>2, <2>3 DEF AInv, WereWritten
<1>5. ReturnedOnce'
  BY <1>0, <1>1 DEF AInv, ReturnedOnce
<1>6. OneRowPerAnswer'
  BY <1>0, <1>1 DEF AInv, OneRowPerAnswer
<1>7. GivenFromItsRow'
  <2>1. \A g \in DOMAIN got : got[g].answer # 0
    BY DEF AInv, WereWritten
  <2> QED
    BY <1>0, <2>1 DEF AInv, GivenFromItsRow
<1>8. NotYetGiven'
  BY DEF NotYetGiven, ServerIsFree, Idle
<1>9. OneAnswerPerAsk' /\ AnswersAreFresh'
  <2>1. \A g \in DOMAIN got : got[g].ask \in 1 .. (n - 1)
    BY <1>0 DEF AInv, ReturnedOnce
  <2> QED
    BY <1>1, <2>1 DEF AInv, OneAnswerPerAsk, AnswersAreFresh
<1> QED
  BY <1>2, <1>3, <1>4, <1>5, <1>6, <1>7, <1>8, <1>9 DEF AInv

\* A call of requestInput returns with an answer that no call was given before.
LEMMA Received ==
  ASSUME AInv, NEW i \in waiting, NEW k \in 1 .. answers, Receive(i, k), k > since[i],
         \A g \in DOMAIN got : got[g].answer # k,
         transport = "http" => \A j \in DOMAIN requests : requests[j] = k => j = i,
         answering'["server"].at # "resume",
         UNCHANGED <<transport, requests, since, answers>>
  PROVE  /\ SlotOfDev' /\ ReturnedOnce' /\ OneRowPerAnswer' /\ GivenFromItsRow'
         /\ NotYetGiven' /\ OneAnswerPerAsk' /\ AnswersAreFresh'
         /\ slot' = 0 /\ waiting' \subseteq waiting
         /\ \A g \in DOMAIN got' : got'[g].answer \in 1 .. answers
         /\ got' \in Seq([ask: 1 .. MaxRequests, answer: 1 .. MaxAnswers])
<1> DEFINE r == [ask |-> i, answer |-> k]
           n == Len(got) + 1
<1>0. /\ got \in Seq([ask: 1 .. MaxRequests, answer: 1 .. MaxAnswers])
      /\ r \in [ask: 1 .. MaxRequests, answer: 1 .. MaxAnswers] /\ i \in DOMAIN requests
  <2>1. i \in DOMAIN requests /\ requests \in Seq(0 .. MaxAnswers) /\ answers \in 0 .. MaxAnswers
    BY DEF AInv, TypeOK
  <2>2. i \in 1 .. MaxRequests /\ k \in 1 .. MaxAnswers
    BY <2>1 DEF AInv, WithinBounds
  <2> QED
    BY <2>1, <2>2 DEF AInv, TypeOK
<1>1. /\ DOMAIN got' = DOMAIN got \cup {n} /\ n \notin DOMAIN got
      /\ got'[n] = r /\ \A g \in DOMAIN got : got'[g] = got[g]
      /\ got' \in Seq([ask: 1 .. MaxRequests, answer: 1 .. MaxAnswers])
  <2> HIDE DEF r
  <2>1. got' = Append(got, r)
    BY DEF Receive, r
  <2> QED
    BY <1>0, <2>1
<1>2. waiting' = waiting \ {i} /\ slot' = 0
  BY DEF Receive
<1>3. r.ask = i /\ r.answer = k
  OBVIOUS
<1> HIDE DEF r, n
<1>4. \A g \in DOMAIN got : got[g].ask # i /\ got[g].ask \in DOMAIN requests /\ got[g].ask \notin waiting
  BY DEF AInv, ReturnedOnce
<1>5. ReturnedOnce'
  BY <1>0, <1>1, <1>2, <1>3, <1>4 DEF ReturnedOnce
<1>6. GivenFromItsRow'
  BY <1>1, <1>3 DEF AInv, GivenFromItsRow
<1>7. OneAnswerPerAsk'
  BY <1>1, <1>3, <1>4 DEF AInv, OneAnswerPerAsk
<1>8. AnswersAreFresh'
  BY <1>1, <1>3 DEF AInv, AnswersAreFresh
<1>9. \A g \in DOMAIN got' : got'[g].answer \in 1 .. answers
  BY <1>1, <1>3 DEF AInv, WereWritten
<1> QED
  BY <1>1, <1>2, <1>5, <1>6, <1>7, <1>8, <1>9 DEF AInv, SlotOfDev, OneRowPerAnswer, NotYetGiven

\* An answer is written: a number no row and no call has seen.
LEMMA Answered ==
  ASSUME AInv, NEW p \in Processes, RespondToInput(p)
  PROVE  AInv'
<1> DEFINE i == answering[p].row
           k == answers + 1
<1>0. /\ requests \in Seq(0 .. MaxAnswers) /\ answers \in 0 .. MaxAnswers
      /\ answering \in [Processes -> [at: {"idle", "write", "resume"},
                                      row: 0 .. MaxRequests, answer: 0 .. MaxAnswers]]
      /\ answering[p].at = "write" /\ answers' = k
      /\ UNCHANGED <<transport, status, waiting, slot, since, got>>
  BY DEF AInv, TypeOK, RespondToInput
<1>1. /\ answering' = [answering EXCEPT ![p].at = "resume", ![p].answer = k]
      /\ requests' = [requests EXCEPT ![i] = k]
  BY DEF RespondToInput
<1>2. /\ answering'[p].at = "resume" /\ answering'[p].answer = k /\ answering'[p].row = i
      /\ \A q \in Processes \ {p} : answering'[q] = answering[q]
  BY <1>0, <1>1
<1>3. Writing' = Writing - 1 /\ Writing' \in Nat /\ Writing \in Nat
  BY <1>0, <1>2, Writers
<1>4. k \in 1 .. MaxAnswers /\ answers \in Nat
  BY <1>0, <1>3 DEF AInv, WithinBounds
<1>5. /\ DOMAIN requests' = DOMAIN requests /\ requests' \in Seq(0 .. MaxAnswers)
      /\ Len(requests') = Len(requests)
      /\ \A j \in DOMAIN requests : requests'[j] = IF j = i THEN k ELSE requests[j]
  <2> HIDE DEF i, k
  <2>1. CASE i \in 1 .. Len(requests)
    <3>1. k \in 0 .. MaxAnswers
      BY <1>4
    <3> QED
      BY <1>0, <1>1, <2>1, <3>1, ExceptSeq
  <2>2. CASE i \notin 1 .. Len(requests)
    <3>1. DOMAIN requests = 1 .. Len(requests) /\ requests' = requests
      BY <1>0, <1>1, <2>2
    <3> QED
      BY <1>0, <2>2, <3>1
  <2> QED
    BY <2>1, <2>2
<1> HIDE DEF i, k
<1>6. TypeOK'
  <2>1. answering'[p] \in [at: {"idle", "write", "resume"}, row: 0 .. MaxRequests, answer: 0 .. MaxAnswers]
    <3>1. answering'[p] = [answering[p] EXCEPT !.at = "resume", !.answer = k]
      BY <1>0, <1>1
    <3>2. k \in 0 .. MaxAnswers
      BY <1>4
    <3> QED
      BY <1>0, <3>1, <3>2
  <2>2. answering' \in [Processes -> [at: {"idle", "write", "resume"},
                                      row: 0 .. MaxRequests, answer: 0 .. MaxAnswers]]
    BY <1>0, <1>1, <1>2, <2>1
  <2> QED
    BY <1>0, <1>4, <1>5, <2>2 DEF AInv, TypeOK
<1>7. WithinBounds' /\ SlotOfDev'
  <2>1. k = answers + 1
    BY DEF k
  <2> QED
    BY <1>0, <1>3, <1>5, <2>1 DEF AInv, WithinBounds, SlotOfDev
<1>8. /\ \A j \in DOMAIN requests : requests[j] < k
      /\ \A j \in 1 .. MaxRequests : since[j] < k
      /\ \A g \in DOMAIN got : got[g].answer < k /\ got[g].answer # 0
  BY <1>4 DEF AInv, WereWritten, k
<1>9. WereWritten'
  <2>1. 0 .. answers \subseteq 0 .. k /\ 1 .. answers \subseteq 1 .. k /\ k \in 0 .. k /\ k \in 1 .. k
    BY <1>4 DEF k
  <2> QED
    BY <1>0, <1>2, <1>5, <2>1 DEF AInv, WereWritten
<1>10. ReturnedOnce'
  BY <1>0, <1>5 DEF AInv, ReturnedOnce
<1>11. OneRowPerAnswer'
  <2>1. DOMAIN requests \subseteq 1 .. MaxRequests
    BY <1>0 DEF AInv, WithinBounds
  <2>2. k # 0 /\ \A j \in DOMAIN requests : requests[j] # k
    BY <1>4, <1>8
  <2> QED
    BY <1>0, <1>5, <1>8, <2>1, <2>2 DEF AInv, OneRowPerAnswer
<1>12. GivenFromItsRow'
  <2>1. \A g \in DOMAIN got : got[g].answer # k
    BY <1>4, <1>8 DEF AInv, WereWritten
  <2> QED
    BY <1>0, <1>5, <2>1 DEF AInv, GivenFromItsRow
<1>13. NotYetGiven'
  <2>1. \A g \in DOMAIN got : got[g].answer # k
    BY <1>4, <1>8 DEF AInv, WereWritten
  <2>2. CASE p = "server"
    BY <1>0, <1>2, <1>8, <2>1, <2>2 DEF NotYetGiven
  <2>3. CASE p # "server"
    BY <1>0, <1>2, <2>3 DEF AInv, NotYetGiven, Processes
  <2> QED
    BY <2>2, <2>3
<1>14. OneAnswerPerAsk' /\ AnswersAreFresh'
  BY <1>0 DEF AInv, OneAnswerPerAsk, AnswersAreFresh
<1> QED
  BY <1>6, <1>7, <1>9, <1>10, <1>11, <1>12, <1>13, <1>14 DEF AInv

-------------------------------------------------------------------------------
(* The invariant *)

\* A call of requestInput ends, answered or not, or the execution ends.
LEMMA WaitsLess ==
  ASSUME AInv, waiting' \subseteq waiting, slot' = 0 \/ (slot' = slot /\ waiting' = waiting),
         status' \in {"running", "waiting_for_input", "ended"},
         UNCHANGED <<transport, requests, since, got, answers, answering>>
  PROVE  AInv'
<1>1. TypeOK'
  BY DEF AInv, TypeOK
<1>2. WithinBounds' /\ SlotOfDev'
  BY DEF AInv, WithinBounds, SlotOfDev, Writing
<1>3. WereWritten' /\ ReturnedOnce' /\ OneRowPerAnswer'
  BY DEF AInv, WereWritten, ReturnedOnce, OneRowPerAnswer
<1>4. GivenFromItsRow' /\ NotYetGiven' /\ OneAnswerPerAsk' /\ AnswersAreFresh'
  BY DEF AInv, GivenFromItsRow, NotYetGiven, OneAnswerPerAsk, AnswersAreFresh
<1> QED
  BY <1>1, <1>2, <1>3, <1>4 DEF AInv

\* Who is idle writes nothing.
LEMMA IdleIs ==
  Idle.at = "idle" /\ Idle \in [at: {"idle", "write"}, row: 0 .. MaxRequests, answer: 0 .. MaxAnswers]
BY DEF Idle

\* Somebody goes back to idle, or begins to answer.
LEMMA Turns ==
  ASSUME AInv, NEW p \in Processes,
         NEW r \in [at: {"idle", "write"}, row: 0 .. MaxRequests, answer: 0 .. MaxAnswers],
         answering' = [answering EXCEPT ![p] = r],
         r.at = "write" => answering[p].at # "write" /\ answers + Writing < MaxAnswers,
         status' \in {"running", "waiting_for_input", "ended"},
         UNCHANGED <<transport, requests, since, answers>>,
         UNCHANGED <<waiting, slot, got>>
  PROVE  AInv'
<1>0. /\ answering \in [Processes -> [at: {"idle", "write", "resume"},
                                      row: 0 .. MaxRequests, answer: 0 .. MaxAnswers]]
      /\ answers \in Nat /\ answering'[p].at = r.at /\ r.at # "resume"
      /\ \A q \in Processes \ {p} : answering'[q] = answering[q]
  BY DEF AInv, TypeOK
<1>1. TypeOK'
  <2>1. r \in [at: {"idle", "write", "resume"}, row: 0 .. MaxRequests, answer: 0 .. MaxAnswers]
    OBVIOUS
  <2> QED
    BY <1>0, <2>1 DEF AInv, TypeOK
<1>2. WithinBounds' /\ SlotOfDev'
  <2>1. answers + Writing <= MaxAnswers /\ answers + Writing' <= MaxAnswers
    BY <1>0, Writers DEF AInv, WithinBounds
  <2> QED
    BY <2>1 DEF AInv, WithinBounds, SlotOfDev
<1>3. WereWritten'
  BY <1>0 DEF AInv, WereWritten
<1>4. ReturnedOnce' /\ OneRowPerAnswer' /\ GivenFromItsRow'
  BY DEF AInv, ReturnedOnce, OneRowPerAnswer, GivenFromItsRow
<1>5. NotYetGiven'
  BY <1>0 DEF AInv, NotYetGiven, Processes
<1>6. OneAnswerPerAsk' /\ AnswersAreFresh'
  BY DEF AInv, OneAnswerPerAsk, AnswersAreFresh
<1> QED
  BY <1>1, <1>2, <1>3, <1>4, <1>5, <1>6 DEF AInv

\* The agent finds the answer in its row.
LEMMA Polled == ASSUME AInv, NEW i \in 1 .. MaxRequests, Poll(i) PROVE AInv'
<1> DEFINE k == requests[i]
<1>0. /\ i \in waiting /\ i \in DOMAIN requests /\ requests[i] # 0 /\ transport = "http"
      /\ answering["server"].at = "idle"
      /\ UNCHANGED <<transport, status, requests, since, answers, answering>>
  BY DEF Poll, AInv, TypeOK, ServerIsFree, Idle
<1>1. k \in 1 .. answers /\ k > since[i]
  <2>1. k \in 0 .. answers /\ k # 0 /\ k > since[i]
    BY <1>0 DEF AInv, WereWritten, OneRowPerAnswer
  <2> QED
    BY <2>1
<1>2. \A g \in DOMAIN got : got[g].answer # k
  BY <1>0 DEF AInv, GivenFromItsRow, ReturnedOnce
<1>3. \A j \in DOMAIN requests : requests[j] = k => j = i
  BY <1>0 DEF AInv, OneRowPerAnswer
<1>4. Receive(i, k)
  BY DEF Poll
<1> HIDE DEF k
<1>5. /\ SlotOfDev' /\ ReturnedOnce' /\ OneRowPerAnswer' /\ GivenFromItsRow'
      /\ NotYetGiven' /\ OneAnswerPerAsk' /\ AnswersAreFresh'
      /\ slot' = 0 /\ waiting' \subseteq waiting
      /\ \A g \in DOMAIN got' : got'[g].answer \in 1 .. answers
      /\ got' \in Seq([ask: 1 .. MaxRequests, answer: 1 .. MaxAnswers])
  BY <1>0, <1>1, <1>2, <1>3, <1>4, Received
<1>6. TypeOK' /\ WithinBounds' /\ WereWritten'
  BY <1>0, <1>5 DEF AInv, TypeOK, WithinBounds, Writing, WereWritten
<1> QED
  BY <1>5, <1>6 DEF AInv

\* The execution is resumed, and the server hands on what it wrote.
LEMMA Resumed == ASSUME AInv, NEW p \in Processes, Resume(p) PROVE AInv'
<1> DEFINE k == answering[p].answer
<1>0. /\ answering[p].at = "resume" /\ answering' = [answering EXCEPT ![p] = Idle]
      /\ answering \in [Processes -> [at: {"idle", "write", "resume"},
                                      row: 0 .. MaxRequests, answer: 0 .. MaxAnswers]]
      /\ UNCHANGED <<transport, requests, since, answers>>
      /\ status' \in {"running", "waiting_for_input", "ended"}
  BY DEF Resume, AInv, TypeOK
<1>1. CASE UNCHANGED <<waiting, slot, got>>
  BY <1>0, <1>1, IdleIs, Turns
<1>2. CASE p = "server" /\ slot # 0 /\ Receive(slot, k)
  <2>1. slot \in waiting /\ slot \in DOMAIN requests /\ slot \in 1 .. MaxRequests
    <3>1. slot \in waiting /\ slot \in DOMAIN requests /\ requests \in Seq(0 .. MaxAnswers)
      BY <1>2 DEF AInv, TypeOK
    <3> QED
      BY <3>1 DEF AInv, WithinBounds
  <2>2. k \in 1 .. answers /\ k > since[slot] /\ \A g \in DOMAIN got : got[g].answer # k
    <3>1. k \in 1 .. answers /\ answers \in Nat /\ since[slot] \in 0 .. answers
      BY <1>0, <2>1 DEF AInv, WereWritten, TypeOK
    <3>2. since[slot] < k /\ \A g \in DOMAIN got : got[g].answer # k
      BY <1>0, <1>2, <2>1 DEF AInv, NotYetGiven
    <3> QED
      BY <3>1, <3>2
  <2>3. transport # "http" /\ answering'["server"].at # "resume"
    BY <1>0, <1>2 DEF AInv, SlotOfDev, Idle
  <2> HIDE DEF k
  <2>4. /\ SlotOfDev' /\ ReturnedOnce' /\ OneRowPerAnswer' /\ GivenFromItsRow'
        /\ NotYetGiven' /\ OneAnswerPerAsk' /\ AnswersAreFresh'
        /\ slot' = 0 /\ waiting' \subseteq waiting
        /\ \A g \in DOMAIN got' : got'[g].answer \in 1 .. answers
        /\ got' \in Seq([ask: 1 .. MaxRequests, answer: 1 .. MaxAnswers])
    BY <1>0, <1>2, <2>1, <2>2, <2>3, Received
  <2>5. Writing' = Writing
    BY <1>0, Writers DEF Idle
  <2>6. Idle \in [at: {"idle", "write", "resume"}, row: 0 .. MaxRequests, answer: 0 .. MaxAnswers]
    BY DEF Idle
  <2>7. TypeOK'
    BY <1>0, <2>4, <2>6 DEF AInv, TypeOK
  <2>8. WithinBounds'
    BY <1>0, <2>5 DEF AInv, WithinBounds
  <2>9. WereWritten'
    BY <1>0, <2>4 DEF AInv, WereWritten, Idle
  <2> QED
    BY <2>4, <2>7, <2>8, <2>9 DEF AInv
<1> QED
  BY <1>1, <1>2 DEF Resume

\* Every step preserves the invariant.
LEMMA AInvStep == AInv /\ [Next]_vars => AInv'
<1> SUFFICES ASSUME AInv, [Next]_vars PROVE AInv'
  OBVIOUS
<1>0. status \in {"running", "waiting_for_input", "ended"}
  BY DEF AInv, TypeOK
<1>1. CASE RequestInput
  <2>1. Wait(Len(requests')) => (transport = "http" => slot' = slot)
    BY DEF Wait
  <2> QED
    BY <1>0, <1>1, <2>1, Asked DEF RequestInput
<1>2. CASE ReplyLost
  BY <1>2, Asked DEF ReplyLost
<1>3. CASE End
  BY <1>3, WaitsLess DEF End
<1>4. ASSUME NEW i \in 1 .. MaxRequests, GiveUp(i) PROVE AInv'
  BY <1>0, <1>4, WaitsLess DEF GiveUp
<1>5. ASSUME NEW p \in Processes, ReadRequest(p) PROVE AInv'
  <2>1. InputRequest \in 0 .. MaxRequests
    <3>1. /\ Pending \subseteq DOMAIN requests /\ Pending # {}
          /\ DOMAIN requests = 1 .. Len(requests) /\ Len(requests) \in Nat
      BY <1>5 DEF ReadRequest, Pending, AInv, TypeOK
    <3>2. Pending \in SUBSET Nat
      BY <3>1
    <3>3. InputRequest \in DOMAIN requests
      BY <3>1, <3>2, MinOf DEF InputRequest
    <3> QED
      BY <3>1, <3>3 DEF AInv, WithinBounds
  <2>2. /\ answering[p].at # "write" /\ answers + Writing < MaxAnswers
        /\ UNCHANGED <<transport, status, requests, waiting, slot, since, got, answers>>
    BY <1>5 DEF ReadRequest, Idle
  <2> DEFINE r == [Idle EXCEPT !.at = "write", !.row = InputRequest]
  <2>3. /\ answering' = [answering EXCEPT ![p] = r]
        /\ r \in [at: {"idle", "write"}, row: 0 .. MaxRequests, answer: 0 .. MaxAnswers]
    <3>1. r \in [at: {"idle", "write"}, row: 0 .. MaxRequests, answer: 0 .. MaxAnswers]
      BY <2>1, IdleIs
    <3> QED
      BY <1>5, <3>1 DEF ReadRequest
  <2> HIDE DEF r
  <2> QED
    BY <1>0, <2>2, <2>3, Turns
<1>6. CASE KillElsewhere
  <2>1. "other" \in Processes
    BY DEF Processes
  <2> QED
    BY <1>0, <1>6, <2>1, IdleIs, Turns DEF KillElsewhere
<1>7. CASE UNCHANGED vars
  BY <1>0, <1>7, WaitsLess DEF vars
<1> QED
  BY <1>1, <1>2, <1>3, <1>4, <1>5, <1>6, <1>7, Polled, Answered, Resumed DEF Next

\* The invariant holds in every reachable state.
THEOREM Invariance == Spec => []AInv
<1>1. Init => AInv
  <2> SUFFICES ASSUME Init PROVE AInv
    OBVIOUS
  <2>1. Writing = 0
    <3>1. {p \in Processes : answering[p].at = "write"} = {}
      BY DEF Init, Idle
    <3> QED
      BY <3>1, FS_EmptySet DEF Writing
  <2>2. TypeOK
    BY DEF Init, TypeOK, Idle
  <2>3. WithinBounds /\ SlotOfDev
    BY <2>1 DEF Init, WithinBounds, SlotOfDev
  <2> QED
    BY <2>2, <2>3 DEF Init, AInv, Idle, WereWritten, ReturnedOnce, OneRowPerAnswer,
       GivenFromItsRow, NotYetGiven, OneAnswerPerAsk, AnswersAreFresh, Processes
<1> QED
  BY <1>1, AInvStep, PTL DEF Spec

(* OneAnswerPerAsk: whoever answers, in the server or in other processes, at *)
(* once, late or twice, no answer is given to two calls of requestInput, and *)
(* no call returns twice.                                                    *)
THEOREM OneAnswer == Spec => []OneAnswerPerAsk
<1>1. AInv => OneAnswerPerAsk
  BY DEF AInv
<1> QED
  BY <1>1, Invariance, PTL

(* AnswersAreFresh: an agent never goes on with an answer that was written   *)
(* before it asked.                                                          *)
THEOREM FreshAnswers == Spec => []AnswersAreFresh
<1>1. AInv => AnswersAreFresh
  BY DEF AInv
<1> QED
  BY <1>1, Invariance, PTL

=============================================================================
