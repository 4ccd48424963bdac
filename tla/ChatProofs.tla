------------------------------ MODULE ChatProofs ------------------------------
(***************************************************************************)
(* Proofs of the safety properties of Chat for any number of streams,      *)
(* threads, calls and tools; and, in the second half, of Threads, for any  *)
(* number of threads, messages, turns and requests under way.              *)
(*                                                                         *)
(* That a call which ran was consented to is not inductive: its answer may *)
(* be on its way, and the consent may be that of another call of the       *)
(* stream.  Consent adds that what is on its way was said by the user,     *)
(* that a stream approves only what its user allowed for the task, and     *)
(* that a call keeps the stream, and with it the mode, it was made under.  *)
(***************************************************************************)
EXTENDS Chat, Threads, SequenceTheorems, FiniteSetTheorems, TLAPS

PostsWereSaid == \A p \in posts : <<p.call, p.decision>> \in said

ApprovedWasSaid ==
  \A s \in Streams, t \in Tools : t \in approved[s] =>
    \E b \in Calls : caller[b] = s /\ Tool[b] = t /\ <<b, "allow_task">> \in said

CallersWereOpened == \A c \in Calls : caller[c] # None => phase[caller[c]] # "none"

Consent ==
  TypeOK /\ PostsWereSaid /\ ApprovedWasSaid /\ CallersWereOpened /\ NothingRunsUnasked

USE ChatAssumption DEF ChatAssumption

-------------------------------------------------------------------------------
(* Types *)

\* What a stream may send is well formed, and of one kind.
LEMMA EventKinds ==
  /\ \A t \in ThreadIds, i \in Sessions : System(t, i) \in Events
  /\ \A c \in Calls : Request(c) \in Events
  /\ Done \in Events
  /\ \A e \in Events :
       /\ e.kind = "system" => e.thread \in ThreadIds /\ e.session \in Sessions
       /\ e.kind = "permission_request" => e.call \in Calls
<1>1. \A t \in ThreadIds, i \in Sessions : System(t, i) \in Events
  BY DEF Events, System
<1>2. \A c \in Calls : Request(c) \in Events
  BY DEF Events, Request
<1>3. Done \in Events
  BY DEF Events, Done
<1>4. ASSUME NEW e \in Events, e.kind = "system"
      PROVE  e.thread \in ThreadIds /\ e.session \in Sessions
  BY <1>4 DEF Events
<1>5. ASSUME NEW e \in Events, e.kind = "permission_request" PROVE e.call \in Calls
  BY <1>5 DEF Events
<1> QED
  BY <1>1, <1>2, <1>3, <1>4, <1>5

\* Emitting an event keeps the wires typed.
LEMMA EmitType ==
  ASSUME wire \in [Streams -> Seq(Events)], NEW s \in Streams, NEW e \in Events, Emit(s, e)
  PROVE  wire' \in [Streams -> Seq(Events)]
BY DEF Emit

\* So does reading and losing events.
LEMMA WireType ==
  ASSUME wire \in [Streams -> Seq(Events)], NEW s \in Streams
  PROVE  /\ [wire EXCEPT ![s] = << >>] \in [Streams -> Seq(Events)]
         /\ wire[s] # << >> =>
              /\ Head(wire[s]) \in Events
              /\ [wire EXCEPT ![s] = Tail(@)] \in [Streams -> Seq(Events)]
<1>1. << >> \in Seq(Events)
  OBVIOUS
<1>2. wire[s] # << >> => Head(wire[s]) \in Events /\ Tail(wire[s]) \in Seq(Events)
  BY HeadTailProperties
<1> QED
  BY <1>1, <1>2

\* Every step preserves the types.
LEMMA TypeStep == TypeOK /\ [Next]_vars => TypeOK'
<1> SUFFICES ASSUME TypeOK, [Next]_vars PROVE TypeOK'
  OBVIOUS
<1> USE DEF TypeOK, vars, serverVars, clientVars
<1>1. ASSUME NEW s \in Streams, NEW m \in Modes, SendMessage(s, m) PROVE TypeOK'
  <2>1. Resolved(s) \in Sessions
    BY DEF Resolved, Sessions
  <2>2. thread'[s] \in ThreadIds /\ session'[s] \in Sessions
    BY <1>1, <2>1 DEF SendMessage, ThreadIds
  <2>3. <<s, "reported">> \in Sessions
    BY DEF Sessions
  <2>4. \A events \in Handshakes(s, thread'[s], session'[s]) : events \in Seq(Events)
    <3> DEFINE A == System(thread'[s], session'[s])
               B == System(thread'[s], <<s, "reported">>)
    <3>1. A \in Events
      BY <2>2, EventKinds
    <3>2. B \in Events
      BY <2>2, <2>3, EventKinds
    <3>3. <<A>> \in Seq(Events) /\ <<A, B>> \in Seq(Events)
      <4> HIDE DEF A, B
      <4> QED
        BY <3>1, <3>2
    <3> SUFFICES ASSUME NEW events \in Handshakes(s, thread'[s], session'[s])
                 PROVE  events \in Seq(Events)
      OBVIOUS
    <3>4. events = <<A>> \/ events = <<A, B>>
      BY DEF Handshakes
    <3> QED
      BY <3>3, <3>4
  <2>5. wire' \in [Streams -> Seq(Events)]
    BY <1>1, <2>4 DEF SendMessage
  <2>6. /\ thread' \in [Streams -> ThreadIds \cup {None}]
        /\ session' \in [Streams -> Sessions \cup {None}]
    BY <1>1, <2>1 DEF SendMessage, ThreadIds
  <2>7. (\A r \in Streams : phase[r] # "none" => session[r] # None /\ thread[r] # None)'
    BY <1>1, <2>1, <2>2 DEF SendMessage
  <2> QED
    BY <1>1, <2>5, <2>6, <2>7 DEF SendMessage
<1>2. ASSUME NEW s \in Streams, Finish(s) PROVE TypeOK'
  BY <1>2, EventKinds, EmitType DEF Finish
<1>3. ASSUME NEW s \in Streams, Fail(s) PROVE TypeOK'
  BY <1>3, EventKinds, EmitType DEF Fail
<1>4. ASSUME NEW s \in Streams, Abort(s) PROVE TypeOK'
  BY <1>4 DEF Abort
<1>5. ASSUME NEW s \in Streams, Leave(s) PROVE TypeOK'
  BY <1>5, WireType DEF Leave
<1>6. ASSUME NEW s \in Streams, Receive(s) PROVE TypeOK'
  <2>1. Head(wire[s]) \in Events /\ wire' \in [Streams -> Seq(Events)]
    BY <1>6, WireType DEF Receive
  <2>2. CASE ReceiveSystem(s)
    BY <1>6, <2>1, <2>2, EventKinds DEF Receive, ReceiveSystem
  <2>3. CASE ReceiveRequest(s)
    BY <1>6, <2>1, <2>3, EventKinds DEF Receive, ReceiveRequest
  <2>4. CASE ReceiveDone(s)
    BY <1>6, <2>1, <2>4 DEF Receive, ReceiveDone
  <2> QED
    BY <1>6, <2>2, <2>3, <2>4 DEF Receive
<1>7. ASSUME NEW s \in Streams, NEW c \in Calls, CallTool(s, c) PROVE TypeOK'
  <2>1. wire' \in [Streams -> Seq(Events)]
    BY <1>7, EventKinds, EmitType DEF CallTool
  <2> QED
    BY <1>7, <2>1 DEF CallTool, ThreadIds
<1>8. ASSUME NEW c \in Calls, PermissionTimeout(c) PROVE TypeOK'
  BY <1>8 DEF PermissionTimeout
<1>9. ASSUME NEW p \in posts, HandlePermission(p) PROVE TypeOK'
  <2>1. CASE Answerable(p)
    <3>1. p.call \in Calls /\ Tool[p.call] \in Tools /\ state[p.call] = "asked"
      BY <2>1 DEF Answerable
    <3>2. caller[p.call] \in Streams
      BY <3>1
    <3>3. /\ Settle(p.call, p.decision)
          /\ posts' = posts \ {p}
          /\ UNCHANGED <<phase, mode, session, thread, caller, wire, clientVars>>
      BY <1>9, <2>1 DEF HandlePermission
    <3>4. approved' \in [Streams -> SUBSET Tools]
      <4>1. approved[caller[p.call]] \cup {Tool[p.call]} \in SUBSET Tools
        BY <3>1, <3>2
      <4> QED
        BY <3>3, <4>1 DEF Settle
    <3>5. /\ state' \in [Calls -> {"none", "asked", "ran", "refused"}]
          /\ \A c \in Calls : state'[c] = "none" <=> caller[c] = None
      BY <3>1, <3>2, <3>3 DEF Settle, ThreadIds
    <3> QED
      BY <3>3, <3>4, <3>5
  <2>2. CASE ~Answerable(p)
    BY <1>9, <2>2 DEF HandlePermission
  <2> QED
    BY <2>1, <2>2
<1>10. ASSUME NEW d \in Decisions, Respond(d) PROVE TypeOK'
  BY <1>10 DEF Respond
<1>11. ASSUME NEW t \in Threads, LoadThread(t) PROVE TypeOK'
  BY <1>11 DEF LoadThread, ThreadIds
<1>12. ASSUME NEW t \in Threads, ShowHistory(t) PROVE TypeOK'
  BY <1>12 DEF ShowHistory
<1>13. CASE ClearChat
  BY <1>13 DEF ClearChat
<1>14. CASE UNCHANGED vars
  BY <1>14
<1> QED
  BY <1>1, <1>2, <1>3, <1>4, <1>5, <1>6, <1>7, <1>8, <1>9, <1>10, <1>11, <1>12, <1>13, <1>14
     DEF Next

\* The initial states are typed.
LEMMA InitTypes == Init => TypeOK
<1>1. << >> \in Seq(Events)
  OBVIOUS
<1>2. ASSUME Init PROVE
      /\ phase \in [Streams -> {"none", "open", "broken", "ended"}]
      /\ mode \in [Streams -> Modes]
      /\ session \in [Streams -> Sessions \cup {None}]
      /\ thread \in [Streams -> ThreadIds \cup {None}]
      /\ approved \in [Streams -> SUBSET Tools]
      /\ caller \in [Calls -> Streams \cup {None}]
      /\ state \in [Calls -> {"none", "asked", "ran", "refused"}]
      /\ wire \in [Streams -> Seq(Events)]
  BY <1>1, <1>2 DEF Init, Modes
<1> QED
  BY <1>2 DEF Init, TypeOK

(* The types of server, wires and store are kept by every step.              *)
THEOREM ChatTypes == Spec => []TypeOK
BY InitTypes, TypeStep, PTL DEF Spec

-------------------------------------------------------------------------------
(* Consent *)

\* What a stream approves was allowed for the task under one of its calls.
LEMMA ApprovalHasSource ==
  ASSUME ApprovedWasSaid, NEW s \in Streams, NEW t \in Tools, t \in approved[s]
  PROVE  \E b \in Calls : caller[b] = s /\ Tool[b] = t /\ <<b, "allow_task">> \in said
BY DEF ApprovedWasSaid

\* What was said and approved stays said and approved.
LEMMA ApprovalIsKept ==
  ASSUME ApprovedWasSaid, said \subseteq said', approved' = approved,
         \A c \in Calls : caller[c] # None => caller'[c] = caller[c],
         None \notin Streams
  PROVE  ApprovedWasSaid'
<1> SUFFICES ASSUME NEW s \in Streams, NEW t \in Tools, t \in approved[s]
             PROVE  \E b \in Calls : caller'[b] = s /\ Tool[b] = t /\ <<b, "allow_task">> \in said'
  BY DEF ApprovedWasSaid
<1>1. PICK b \in Calls : caller[b] = s /\ Tool[b] = t /\ <<b, "allow_task">> \in said
  BY ApprovalHasSource
<1> QED
  BY <1>1

\* Consent once given stays given while calls keep their streams.
LEMMA ConsentIsKept ==
  ASSUME NEW c \in Calls, Consented(c), caller[c] # None, said \subseteq said',
         \A b \in Calls : caller[b] # None => caller'[b] = caller[b]
  PROVE  Consented(c)'
<1>1. CASE <<c, "allow">> \in said
  BY <1>1 DEF Consented
<1>2. CASE \E b \in Calls : caller[b] = caller[c] /\ Tool[b] = Tool[c] /\ <<b, "allow_task">> \in said
  <2>1. PICK b \in Calls : caller[b] = caller[c] /\ Tool[b] = Tool[c] /\ <<b, "allow_task">> \in said
    BY <1>2
  <2>2. caller'[b] = caller'[c] /\ <<b, "allow_task">> \in said'
    BY <2>1
  <2> QED
    BY <2>1, <2>2 DEF Consented
<1> QED
  BY <1>1, <1>2 DEF Consented

\* A step in which no call starts to run under another stream or mode.
LEMMA NothingStarts ==
  ASSUME TypeOK, NothingRunsUnasked, said \subseteq said', caller' = caller,
         \A c \in Calls : caller[c] # None => mode'[caller[c]] = mode[caller[c]],
         \A c \in Calls : state'[c] = "ran" => state[c] = "ran"
  PROVE  NothingRunsUnasked'
<1> SUFFICES ASSUME NEW c \in Calls, state'[c] = "ran", mode'[caller[c]] # "auto"
             PROVE  Consented(c)'
  BY DEF NothingRunsUnasked
<1>1. state[c] = "ran" /\ caller[c] # None
  BY DEF TypeOK
<1>2. Consented(c)
  BY <1>1 DEF NothingRunsUnasked
<1> QED
  BY <1>1, <1>2, ConsentIsKept

\* Consent is kept where calls keep their stream and mode, no call starts to
\* run and no tool becomes approved.
LEMMA ConsentFrame ==
  ASSUME Consent,
         said \subseteq said', approved' = approved, caller' = caller,
         \A c \in Calls : caller[c] # None => mode'[caller[c]] = mode[caller[c]],
         \A c \in Calls : state'[c] = "ran" => state[c] = "ran",
         \A r \in Streams : phase'[r] = "none" => phase[r] = "none",
         \A p \in posts' : p \in posts \/ <<p.call, p.decision>> \in said'
  PROVE  PostsWereSaid' /\ ApprovedWasSaid' /\ CallersWereOpened' /\ NothingRunsUnasked'
<1>1. TypeOK /\ PostsWereSaid /\ ApprovedWasSaid /\ CallersWereOpened /\ NothingRunsUnasked
  BY DEF Consent
<1>2. PostsWereSaid'
  BY <1>1 DEF PostsWereSaid
<1>3. ApprovedWasSaid'
  BY <1>1, ApprovalIsKept DEF ThreadIds
<1>4. \A c \in Calls : caller[c] \in Streams \cup {None}
  BY <1>1 DEF TypeOK
<1>5. CallersWereOpened'
  BY <1>1, <1>4 DEF CallersWereOpened
<1>6. NothingRunsUnasked'
  BY <1>1, NothingStarts
<1> QED
  BY <1>2, <1>3, <1>5, <1>6

\* A call that runs without being asked about was consented to before.
LEMMA MayRunIsConsented ==
  ASSUME Consent, NEW s \in Streams, NEW c \in Calls, CallTool(s, c)
  PROVE  PostsWereSaid' /\ ApprovedWasSaid' /\ CallersWereOpened' /\ NothingRunsUnasked'
<1>1. TypeOK /\ PostsWereSaid /\ ApprovedWasSaid /\ CallersWereOpened /\ NothingRunsUnasked
  BY DEF Consent
<1>2. /\ UNCHANGED <<phase, mode, approved, posts, said>>
      /\ phase[s] = "open" /\ state[c] = "none"
      /\ caller' = [caller EXCEPT ![c] = s]
      /\ \A b \in Calls : b # c => state'[b] = state[b]
      /\ state'[c] = "ran" => MayRun(s, c)
  BY <1>1 DEF CallTool, clientVars, TypeOK
<1>3. caller[c] = None /\ caller \in [Calls -> Streams \cup {None}] /\ None \notin Streams
  BY <1>1, <1>2 DEF TypeOK, ThreadIds
<1>4. \A b \in Calls : caller[b] # None => caller'[b] = caller[b]
  BY <1>2, <1>3
<1>5. PostsWereSaid'
  BY <1>1, <1>2 DEF PostsWereSaid
<1>6. ApprovedWasSaid'
  BY <1>1, <1>2, <1>3, <1>4, ApprovalIsKept
<1>7. CallersWereOpened'
  BY <1>1, <1>2, <1>3 DEF CallersWereOpened
<1>8. ASSUME NEW b \in Calls, state'[b] = "ran", mode'[caller'[b]] # "auto"
      PROVE  Consented(b)'
  <2>1. CASE b = c
    <3>1. caller'[c] = s /\ Tool[c] \in approved[s] /\ Tool[c] \in Tools
      BY <1>2, <1>3, <1>8, <2>1 DEF MayRun
    <3>2. PICK a \in Calls : caller[a] = s /\ Tool[a] = Tool[c] /\ <<a, "allow_task">> \in said
      BY <1>1, <3>1, ApprovalHasSource
    <3>3. caller'[a] = s
      BY <1>3, <1>4, <3>2
    <3> QED
      BY <1>2, <2>1, <3>1, <3>2, <3>3 DEF Consented
  <2>2. CASE b # c
    <3>1. state[b] = "ran" /\ caller[b] # None
      BY <1>1, <1>2, <1>8, <2>2 DEF TypeOK
    <3>2. Consented(b)
      BY <1>1, <1>2, <1>4, <1>8, <3>1 DEF NothingRunsUnasked
    <3> QED
      BY <1>2, <1>4, <3>1, <3>2, ConsentIsKept
  <2> QED
    BY <2>1, <2>2
<1> QED
  BY <1>5, <1>6, <1>7, <1>8 DEF NothingRunsUnasked

\* A call that runs because of an answer was consented to by that answer.
LEMMA AnswerIsConsent ==
  ASSUME Consent, NEW p \in posts, HandlePermission(p)
  PROVE  PostsWereSaid' /\ ApprovedWasSaid' /\ CallersWereOpened' /\ NothingRunsUnasked'
<1> USE DEF Consent, clientVars
<1>1. UNCHANGED <<phase, mode, caller, said>> /\ posts' \subseteq posts
  BY DEF HandlePermission
<1>2. PostsWereSaid' /\ CallersWereOpened'
  BY <1>1 DEF PostsWereSaid, CallersWereOpened
<1>3. CASE ~Answerable(p)
  <2>1. UNCHANGED <<state, approved>>
    BY <1>3 DEF HandlePermission
  <2> QED
    BY <1>1, <2>1, ConsentFrame
<1>4. CASE Answerable(p)
  <2> DEFINE c == p.call
  <2>1. c \in Calls /\ state[c] = "asked" /\ caller[c] \in Streams /\ p.decision \in Decisions
    BY <1>4 DEF Answerable, TypeOK
  <2>2. <<c, p.decision>> \in said
    BY DEF PostsWereSaid
  <2>3. Settle(c, p.decision)
    BY <1>4 DEF HandlePermission
  <2>4. ApprovedWasSaid'
    <3> SUFFICES ASSUME NEW s \in Streams, NEW t \in Tools, t \in approved'[s]
                 PROVE  \E b \in Calls : caller[b] = s /\ Tool[b] = t /\ <<b, "allow_task">> \in said
      BY <1>1 DEF ApprovedWasSaid
    <3>1. CASE t \in approved[s]
      BY <3>1 DEF ApprovedWasSaid
    <3>2. CASE t \notin approved[s]
      <4>1. p.decision = "allow_task" /\ caller[c] = s /\ Tool[c] = t
        BY <2>1, <2>3, <3>2 DEF Settle, TypeOK
      <4> QED
        BY <2>1, <2>2, <4>1
    <3> QED
      BY <3>1, <3>2
  <2>5. Consented(c) \/ p.decision = "deny"
    BY <2>1, <2>2 DEF Consented, Decisions
  <2>6. NothingRunsUnasked'
    <3> SUFFICES ASSUME NEW b \in Calls, state'[b] = "ran", mode[caller[b]] # "auto"
                 PROVE  Consented(b)
      BY <1>1 DEF NothingRunsUnasked, Consented
    <3>1. CASE b = c
      BY <2>1, <2>3, <2>5, <3>1 DEF Settle, TypeOK
    <3>2. CASE b # c
      BY <2>1, <2>3, <3>2 DEF Settle, TypeOK, NothingRunsUnasked
    <3> QED
      BY <3>1, <3>2
  <2> QED
    BY <1>2, <2>4, <2>6
<1> QED
  BY <1>3, <1>4

\* Every step preserves consent.
LEMMA ConsentStep == Consent /\ [Next]_vars => Consent'
<1> SUFFICES ASSUME Consent, [Next]_vars PROVE Consent'
  OBVIOUS
<1>1. TypeOK /\ TypeOK'
  BY TypeStep DEF Consent
<1> DEFINE Kept == PostsWereSaid' /\ ApprovedWasSaid' /\ CallersWereOpened' /\ NothingRunsUnasked'
<1>2. ASSUME NEW s \in Streams, NEW m \in Modes, SendMessage(s, m) PROVE Kept
  <2>1. UNCHANGED <<approved, caller, state, posts, said>> /\ phase[s] = "none"
    BY <1>2 DEF SendMessage
  <2>2. /\ phase' = [phase EXCEPT ![s] = "open"]
        /\ mode' = [mode EXCEPT ![s] = m]
    BY <1>2 DEF SendMessage
  <2>3. \A c \in Calls : caller[c] # s
    BY <2>1 DEF Consent, CallersWereOpened, ChatAssumption, ThreadIds
  <2>4. \A c \in Calls : caller[c] # None =>
          mode'[caller[c]] = mode[caller[c]] /\ phase'[caller[c]] = phase[caller[c]]
    BY <1>1, <2>2, <2>3 DEF TypeOK
  <2>5. PostsWereSaid' /\ ApprovedWasSaid' /\ CallersWereOpened'
    BY <2>1, <2>4 DEF Consent, PostsWereSaid, ApprovedWasSaid, CallersWereOpened
  <2>6. \A c \in Calls : state[c] = "ran" => caller[c] # None
    BY <1>1 DEF TypeOK
  <2>7. NothingRunsUnasked'
    BY <2>1, <2>4, <2>6 DEF Consent, NothingRunsUnasked, Consented
  <2> QED
    BY <2>5, <2>7
<1>3. ASSUME NEW s \in Streams, Finish(s) \/ Fail(s) \/ Abort(s) PROVE Kept
  <2>1. /\ UNCHANGED <<mode, approved, caller, posts, said>>
        /\ \A c \in Calls : state'[c] = "ran" => state[c] = "ran"
        /\ \A r \in Streams : phase'[r] = "none" => phase[r] = "none"
    BY <1>1, <1>3 DEF Finish, Fail, Abort, TypeOK, clientVars
  <2>2. \A c \in Calls : caller[c] # None => caller[c] \in Streams
    BY <1>1 DEF TypeOK
  <2> QED
    BY <2>1, <2>2, ConsentFrame
<1>4. ASSUME NEW s \in Streams, Leave(s) \/ Receive(s) PROVE Kept
  BY <1>4, ConsentFrame DEF Leave, Receive, serverVars
<1>5. ASSUME NEW s \in Streams, NEW c \in Calls, CallTool(s, c) PROVE Kept
  BY <1>5, MayRunIsConsented
<1>6. ASSUME NEW c \in Calls, PermissionTimeout(c) PROVE Kept
  <2>1. /\ UNCHANGED <<phase, mode, approved, caller, posts, said>>
        /\ \A b \in Calls : state'[b] = "ran" => state[b] = "ran"
    BY <1>1, <1>6 DEF PermissionTimeout, TypeOK, clientVars
  <2> QED
    BY <2>1, ConsentFrame
<1>7. ASSUME NEW p \in posts, HandlePermission(p) PROVE Kept
  BY <1>7, AnswerIsConsent
<1>8. ASSUME NEW d \in Decisions, Respond(d) PROVE Kept
  <2>1. UNCHANGED serverVars /\ said \subseteq said'
    BY <1>8 DEF Respond
  <2>2. \A p \in posts' : p \in posts \/ <<p.call, p.decision>> \in said'
    BY <1>8 DEF Respond
  <2> QED
    BY <2>1, <2>2, ConsentFrame DEF serverVars
<1>9. ASSUME NEW t \in Threads, LoadThread(t) \/ ShowHistory(t) PROVE Kept
  BY <1>9, ConsentFrame DEF LoadThread, ShowHistory, serverVars
<1>10. ASSUME ClearChat PROVE Kept
  BY <1>10, ConsentFrame DEF ClearChat, serverVars
<1>11. ASSUME UNCHANGED vars PROVE Kept
  BY <1>11, ConsentFrame DEF vars, serverVars, clientVars
<1>12. Kept
  BY <1>2, <1>3, <1>4, <1>5, <1>6, <1>7, <1>8, <1>9, <1>10, <1>11 DEF Next
<1> QED
  BY <1>1, <1>12 DEF Consent

(* Outside auto mode no tool runs without the user's consent, however many   *)
(* streams, calls, answers and sessions there are.                           *)
THEOREM ToolsRunWithConsent == Spec => []NothingRunsUnasked
<1>1. Init => Consent
  <2>1. Init => TypeOK
    BY InitTypes
  <2> QED
    BY <2>1 DEF Init, Consent, PostsWereSaid, ApprovedWasSaid, CallersWereOpened, NothingRunsUnasked
<1>2. Consent => NothingRunsUnasked
  BY DEF Consent
<1> QED
  BY <1>1, <1>2, ConsentStep, PTL DEF Spec

-------------------------------------------------------------------------------
(* Requests and history *)

(* The timeout, the abort listener and the answers settle a request once.    *)
THEOREM RequestsAreSettledOnce == Spec => SettledOnce
<1>1. ASSUME TypeOK, [Next]_vars
      PROVE  \A c \in Calls : state[c] \in {"ran", "refused"} => state'[c] = state[c]
  <2> SUFFICES ASSUME NEW c \in Calls, state[c] \in {"ran", "refused"} PROVE state'[c] = state[c]
    OBVIOUS
  <2> USE <1>1 DEF TypeOK
  <2>1. ASSUME NEW s \in Streams, NEW b \in Calls, CallTool(s, b) PROVE state'[c] = state[c]
    BY <2>1 DEF CallTool
  <2>2. ASSUME NEW b \in Calls, PermissionTimeout(b) PROVE state'[c] = state[c]
    BY <2>2 DEF PermissionTimeout
  <2>3. ASSUME NEW p \in posts, HandlePermission(p) PROVE state'[c] = state[c]
    BY <2>3 DEF HandlePermission, Answerable, Settle
  <2>4. ASSUME NEW s \in Streams, Abort(s) PROVE state'[c] = state[c]
    BY <2>4 DEF Abort
  <2>5. CASE UNCHANGED state
    BY <2>5
  <2> QED
    BY <2>1, <2>2, <2>3, <2>4, <2>5
       DEF Next, vars, serverVars, SendMessage, Finish, Fail, Leave, Receive, Respond,
           LoadThread, ShowHistory, ClearChat
<1> QED
  BY <1>1, ChatTypes, PTL DEF Spec, SettledOnce

(* Whatever is displayed of a thread's past is the current thread's.         *)
THEOREM HistoryFollowsThread == Spec => []HistoryIsOfThread
<1>1. Init => HistoryIsOfThread
  BY DEF Init, HistoryIsOfThread
<1>2. ASSUME TypeOK, HistoryIsOfThread, [Next]_vars PROVE HistoryIsOfThread'
  <2> USE <1>2 DEF HistoryIsOfThread
  <2>1. ASSUME NEW s \in Streams, Receive(s) PROVE HistoryIsOfThread'
    <3>1. shown' = shown /\ (threadId' = threadId \/ threadId = None)
      BY <2>1 DEF Receive, ReceiveSystem, ReceiveRequest, ReceiveDone
    <3> QED
      BY <3>1
  <2>2. ASSUME NEW t \in Threads, LoadThread(t) \/ ShowHistory(t) PROVE HistoryIsOfThread'
    BY <2>2 DEF LoadThread, ShowHistory
  <2>3. CASE ClearChat
    BY <2>3 DEF ClearChat
  <2>4. CASE UNCHANGED <<shown, threadId>>
    BY <2>4
  <2> QED
    BY <2>1, <2>2, <2>3, <2>4
       DEF Next, vars, clientVars, SendMessage, Finish, Fail, Abort, Leave, CallTool,
           PermissionTimeout, HandlePermission, Respond
<1> QED
  BY <1>1, <1>2, ChatTypes, PTL DEF Spec
-------------------------------------------------------------------------------
(***************************************************************************)
(* The threads, their titles and the conversation of `baara chat`.         *)
(*                                                                         *)
(* A title is the first message because whoever may set one has a thread   *)
(* that exists: the chat's, or the one a request for a new thread was      *)
(* answered with (IdsAreKnown).                                            *)
(***************************************************************************)

\* The store.
StoreTypes ==
  /\ threads \in Seq(0 .. Otherwise)
  /\ messages \in Seq([thread : Nat, role : {"user", "agent"}])
  /\ Len(messages) <= MaxMessages
  /\ \A m \in DOMAIN messages : messages[m].thread \in Ids
  /\ replying \subseteq DOMAIN messages /\ passed \subseteq DOMAIN messages

\* The messages that thread x may be named after.
Candidates(x) == Messages(x, "user") \ passed

\* The page.
PageTypes ==
  /\ chat \in [thread : Nat, streaming : BOOLEAN]
  /\ requests \in [Requests -> [kind : {"none", "count", "seen", "new"}, served : BOOLEAN,
                                answer : Nat]]

\* The threads the page knows of are there.
IdsAreKnown ==
  /\ chat.thread \in Ids \cup {0}
  /\ \A r \in Requests : requests[r].kind = "new" /\ requests[r].served => requests[r].answer \in Ids

TInv == StoreTypes /\ PageTypes /\ IdsAreKnown /\ NamedAfterFirstMessage

USE ThreadsAssumption

-------------------------------------------------------------------------------
(* Titles *)

\* A message that is stored is the latest of its thread.
LEMMA MessageAdded ==
  ASSUME StoreTypes, NEW t \in Nat, NEW role \in {"user", "agent"},
         Len(messages) < MaxMessages, AppendThreadMessage(t, role)
  PROVE  /\ messages' \in Seq([thread : Nat, role : {"user", "agent"}])
         /\ Len(messages') = Len(messages) + 1 /\ Len(messages') \in 1 .. MaxMessages
         /\ \A m \in DOMAIN messages' : messages'[m].thread \in Ids \cup {t}
         /\ DOMAIN messages \subseteq DOMAIN messages'
         /\ \A x \in Nat : Messages(x, "user")' =
              IF x = t /\ role = "user" THEN Messages(x, "user") \cup {Len(messages')}
              ELSE Messages(x, "user")
<1>0. /\ messages \in Seq([thread : Nat, role : {"user", "agent"}]) /\ Len(messages) \in Nat
      /\ \A m \in DOMAIN messages : messages[m].thread \in Ids
  BY DEF StoreTypes, Ids
<1> DEFINE new == [thread |-> t, role |-> role]
<1>1. new \in [thread : Nat, role : {"user", "agent"}] /\ messages' = Append(messages, new)
      /\ new.thread = t /\ new.role = role
  BY <1>0 DEF AppendThreadMessage
<1> HIDE DEF new
<1>2. /\ messages' \in Seq([thread : Nat, role : {"user", "agent"}])
      /\ Len(messages') = Len(messages) + 1
      /\ DOMAIN messages' = DOMAIN messages \cup {Len(messages) + 1}
      /\ \A m \in DOMAIN messages : messages'[m] = messages[m]
      /\ messages'[Len(messages) + 1] = new
      /\ Len(messages) + 1 \notin DOMAIN messages
  BY <1>0, <1>1
<1>3. \A m \in DOMAIN messages' : messages'[m].thread \in Ids \cup {t}
  BY <1>0, <1>1, <1>2
<1>4. ASSUME NEW x \in Nat
      PROVE  Messages(x, "user")' =
               IF x = t /\ role = "user" THEN Messages(x, "user") \cup {Len(messages')}
               ELSE Messages(x, "user")
  BY <1>1, <1>2 DEF Messages
<1>5. Len(messages') \in 1 .. MaxMessages
  BY <1>0, <1>2
<1> QED
  BY <1>2, <1>3, <1>4, <1>5

\* A thread that is created comes after the others and has no messages.
LEMMA ThreadAdded ==
  ASSUME StoreTypes, NEW title \in 0 .. Otherwise, threads' = Append(threads, title)
  PROVE  /\ threads' \in Seq(0 .. Otherwise) /\ Len(threads') \in Nat \ {0}
         /\ Ids' = Ids \cup {Len(threads')} /\ Len(threads') \notin Ids
         /\ \A t \in Ids : threads'[t] = threads[t]
         /\ threads'[Len(threads')] = title
         /\ Messages(Len(threads'), "user") = {}
<1>1. /\ threads \in Seq(0 .. Otherwise) /\ Ids = 1 .. Len(threads) /\ Len(threads) \in Nat
      /\ \A m \in DOMAIN messages : messages[m].thread \in Ids
  BY DEF StoreTypes, Ids
<1>2. /\ threads' \in Seq(0 .. Otherwise) /\ Len(threads') = Len(threads) + 1
      /\ \A t \in 1 .. Len(threads) : threads'[t] = threads[t]
      /\ threads'[Len(threads) + 1] = title
  BY <1>1, AppendProperties
<1>3. Ids' = 1 .. Len(threads') /\ 1 .. Len(threads) + 1 = (1 .. Len(threads)) \cup {Len(threads) + 1}
  BY <1>1, <1>2 DEF Ids
<1>4. Len(threads') \notin Ids
  BY <1>1, <1>2
<1>5. Messages(Len(threads'), "user") = {}
  BY <1>1, <1>4 DEF Messages
<1> QED
  BY <1>1, <1>2, <1>3, <1>4, <1>5

\* The messages of a thread are numbers of messages.
LEMMA MessageNumbers ==
  ASSUME StoreTypes, NEW t, NEW m \in Messages(t, "user")
  PROVE  m \in 1 .. Len(messages) /\ Len(messages) \in Nat
BY DEF StoreTypes, Messages

\* The property, thread by thread.
TitleIsFirst(x) ==
  threads[x] # Otherwise =>
    IF Candidates(x) = {} THEN threads[x] = Untitled
    ELSE threads[x] \in Candidates(x) /\ \A m \in Candidates(x) : threads[x] <= m

LEMMA TitlesOneByOne == NamedAfterFirstMessage <=> \A x \in Ids : TitleIsFirst(x)
BY DEF NamedAfterFirstMessage, TitleIsFirst, Candidates

\* A person's message names its thread if nothing did before.
LEMMA SendNames ==
  ASSUME StoreTypes, NamedAfterFirstMessage, IdsAreKnown, PageTypes, PostMessage
  PROVE  /\ StoreTypes' /\ NamedAfterFirstMessage' /\ Ids \subseteq Ids'
         /\ chat' \in [thread : Nat, streaming : BOOLEAN] /\ chat'.thread \in Ids'
<1>t. PICK t : t = chat'.thread
  OBVIOUS
<1> DEFINE n == Len(messages) + 1
           Waits == t \in Ids => threads[t] = Untitled
<1>0. /\ Len(messages) < MaxMessages /\ AppendThreadMessage(t, "user") /\ replying' = replying \cup {Len(messages')}
      /\ threads \in Seq(0 .. Otherwise) /\ Len(messages) \in Nat /\ Otherwise \in Nat
      /\ Ids = 1 .. Len(threads) /\ Len(threads) \in Nat /\ passed \subseteq 1 .. Len(messages)
  BY <1>t DEF PostMessage, StoreTypes, Otherwise, Ids
<1>1. n \in 1 .. MaxMessages /\ n \in 0 .. Otherwise /\ n # Otherwise /\ n # Untitled /\ Untitled # Otherwise
      /\ Otherwise \in 0 .. Otherwise /\ Untitled \in 0 .. Otherwise /\ n \in Nat /\ n \notin passed
  BY <1>0 DEF Otherwise, Untitled
<1>2. PICK title \in {n, Untitled} :
        /\ passed' = IF title = Untitled /\ (chat.thread # 0 => threads[chat.thread] = Untitled)
                     THEN passed \cup {n} ELSE passed
        /\ IF chat.thread # 0
           THEN threads' = Named(chat.thread, title) /\ chat' = [chat EXCEPT !.streaming = TRUE]
           ELSE /\ threads' = Append(threads, title)
                /\ chat' = [thread |-> Len(threads'), streaming |-> TRUE]
  BY DEF PostMessage, Naming
<1> HIDE DEF n
<1>u. title \in 0 .. Otherwise
  BY <1>1, <1>2
\* Who is named, and how.
<1>3. /\ chat' \in [thread : Nat, streaming : BOOLEAN] /\ t \in Ids' /\ t \in Nat
      /\ threads' \in Seq(0 .. Otherwise) /\ Ids \subseteq Ids' /\ Ids' \subseteq Ids \cup {t}
      /\ \A x \in Ids : x # t => threads'[x] = threads[x]
      /\ Waits => threads'[t] = title
      /\ ~Waits => t \in Ids /\ threads'[t] = threads[t]
      /\ t \notin Ids => Messages(t, "user") = {}
      /\ passed' = IF title = Untitled /\ Waits THEN passed \cup {n} ELSE passed
  <2>1. CASE chat.thread # 0
    <3>1. t = chat.thread /\ chat' = [chat EXCEPT !.streaming = TRUE] /\ threads' = Named(t, title) /\ t \in Ids
      BY <1>t, <1>2, <2>1 DEF PageTypes, IdsAreKnown
    <3>2. threads' = IF threads[t] = Untitled THEN [threads EXCEPT ![t] = title] ELSE threads
      BY <3>1 DEF Named, Titled
    <3>3. threads' \in Seq(0 .. Otherwise) /\ Len(threads') = Len(threads)
      BY <1>0, <1>u, <3>1, <3>2
    <3>4. Ids' = Ids
      BY <1>0, <3>3 DEF Ids
    <3>5. \A x \in Ids : threads'[x] = IF x = t /\ threads[t] = Untitled THEN title ELSE threads[x]
      BY <1>0, <3>1, <3>2
    <3>6. chat' \in [thread : Nat, streaming : BOOLEAN] /\ t \in Nat
      BY <3>1 DEF PageTypes
    <3>7. Waits <=> threads[t] = Untitled
      BY <3>1
    <3> HIDE DEF Waits
    <3> QED
      BY <1>2, <2>1, <3>1, <3>3, <3>4, <3>5, <3>6, <3>7
  <2>2. CASE chat.thread = 0
    <3>1. threads' = Append(threads, title) /\ chat' = [thread |-> Len(threads'), streaming |-> TRUE]
      BY <1>2, <2>2
    <3>2. t = Len(threads')
      BY <1>t, <3>1
    <3>3. /\ threads' \in Seq(0 .. Otherwise) /\ Len(threads') \in Nat \ {0}
          /\ Ids' = Ids \cup {Len(threads')} /\ Len(threads') \notin Ids
          /\ \A x \in Ids : threads'[x] = threads[x]
          /\ threads'[Len(threads')] = title
          /\ Messages(Len(threads'), "user") = {}
      BY <1>u, <3>1, ThreadAdded
    <3>4. Waits
      BY <3>2, <3>3
    <3>5. passed' = IF title = Untitled THEN passed \cup {n} ELSE passed
      BY <1>2, <2>2
    <3> HIDE DEF Waits
    <3> QED
      BY <3>1, <3>2, <3>3, <3>4, <3>5
  <2> QED
    BY <2>1, <2>2
<1>4. /\ messages' \in Seq([thread : Nat, role : {"user", "agent"}])
      /\ Len(messages') = n /\ Len(messages') \in 1 .. MaxMessages
      /\ \A m \in DOMAIN messages' : messages'[m].thread \in Ids \cup {t}
      /\ DOMAIN messages \subseteq DOMAIN messages'
      /\ \A x \in Nat : Messages(x, "user")' =
           IF x = t THEN Messages(x, "user") \cup {n} ELSE Messages(x, "user")
  BY <1>0, <1>3, MessageAdded DEF n
<1>5. StoreTypes'
  <2>1. Len(messages') <= MaxMessages /\ n \in DOMAIN messages'
    BY <1>1, <1>4
  <2>2. replying' \subseteq DOMAIN messages'
    BY <1>0, <1>4, <2>1 DEF StoreTypes
  <2>3. passed' \subseteq DOMAIN messages'
    <3>1. passed' \subseteq passed \cup {n} /\ passed \subseteq DOMAIN messages
      BY <1>3 DEF StoreTypes
    <3> QED
      BY <1>4, <2>1, <3>1
  <2>4. Otherwise' = Otherwise
    BY DEF Otherwise
  <2> QED
    BY <1>3, <1>4, <2>1, <2>2, <2>3, <2>4 DEF StoreTypes
<1>6. ASSUME NEW x \in Nat
      PROVE  /\ n \notin Messages(x, "user") /\ Untitled \notin Messages(x, "user")
             /\ \A m \in Candidates(x) : m \in Nat /\ m < n
  BY <1>0, MessageNumbers DEF n, Untitled, Candidates
<1>7. \A x \in Nat : x # t => Candidates(x)' = Candidates(x)
  BY <1>3, <1>4, <1>6 DEF Candidates
<1>8. TitleIsFirst(t)'
  <2>0. UNCHANGED <<Otherwise, Untitled>>
    BY DEF Otherwise, Untitled
  <2>1. CASE Waits
    <3>1. Candidates(t) = {}
      <4>1. CASE t \in Ids
        <5>1. Untitled \notin Candidates(t) /\ threads[t] = Untitled /\ threads[t] # Otherwise
          BY <1>1, <1>3, <1>6, <2>1, <4>1 DEF Candidates
        <5>2. TitleIsFirst(t)
          BY <4>1, TitlesOneByOne
        <5> QED
          BY <5>1, <5>2 DEF TitleIsFirst
      <4> QED
        BY <1>3, <4>1 DEF Candidates
    <3>2. Candidates(t)' = IF title = Untitled THEN {} ELSE {n}
      <4>1. Messages(t, "user") \subseteq passed
        BY <3>1 DEF Candidates
      <4>2. Messages(t, "user")' = Messages(t, "user") \cup {n}
        BY <1>3, <1>4
      <4> QED
        BY <1>1, <1>3, <2>1, <4>1, <4>2 DEF Candidates
    <3>3. threads'[t] = title
      BY <1>3, <2>1
    <3> QED
      BY <1>1, <1>2, <2>0, <3>2, <3>3 DEF TitleIsFirst
  <2>2. CASE ~Waits
    <3>1. threads'[t] = threads[t] /\ t \in Ids /\ threads[t] # Untitled /\ passed' = passed
      BY <1>3, <2>2
    <3>2. Candidates(t)' = Candidates(t) \cup {n}
      BY <1>1, <1>3, <1>4, <3>1 DEF Candidates
    <3>3. TitleIsFirst(t)
      BY <3>1, TitlesOneByOne
    <3>4. CASE threads[t] # Otherwise
      <4>1. threads[t] \in Candidates(t) /\ \A m \in Candidates(t) : threads[t] <= m
        BY <3>1, <3>3, <3>4 DEF TitleIsFirst
      <4>2. threads[t] \in Nat /\ threads[t] < n
        BY <1>3, <1>6, <4>1
      <4>3. \A m \in Candidates(t)' : threads'[t] <= m
        BY <1>1, <3>1, <3>2, <4>1, <4>2
      <4> QED
        BY <3>1, <3>2, <4>1, <4>3 DEF TitleIsFirst
    <3> QED
      BY <2>0, <3>1, <3>4 DEF TitleIsFirst
  <2> QED
    BY <2>1, <2>2
<1>9. NamedAfterFirstMessage'
  <2>1. ASSUME NEW x \in Ids' PROVE TitleIsFirst(x)'
    <3>1. CASE x # t
      <4>1. x \in Ids /\ x \in Nat /\ threads'[x] = threads[x]
        BY <1>0, <1>3, <2>1, <3>1
      <4>2. Candidates(x)' = Candidates(x) /\ TitleIsFirst(x)
        BY <1>7, <3>1, <4>1, TitlesOneByOne
      <4> QED
        BY <4>1, <4>2 DEF TitleIsFirst, Otherwise, Untitled
    <3> QED
      BY <1>8, <3>1
  <2> QED
    BY <2>1 DEF NamedAfterFirstMessage, TitleIsFirst, Candidates
<1> QED
  BY <1>t, <1>3, <1>5, <1>9

\* A message of an agent names nothing.
LEMMA AgentNamesNothing ==
  ASSUME StoreTypes, NamedAfterFirstMessage, NEW t \in Ids, UNCHANGED <<threads, passed>>,
         Len(messages) < MaxMessages, AppendThreadMessage(t, "agent"), replying' \subseteq replying
  PROVE  StoreTypes' /\ NamedAfterFirstMessage' /\ Ids' = Ids
<1>0. Ids' = Ids /\ Ids \subseteq Nat
  BY DEF Ids, StoreTypes
<1>1. /\ messages' \in Seq([thread : Nat, role : {"user", "agent"}])
      /\ Len(messages') \in 1 .. MaxMessages
      /\ \A m \in DOMAIN messages' : messages'[m].thread \in Ids
      /\ DOMAIN messages \subseteq DOMAIN messages'
      /\ \A x \in Ids : Messages(x, "user")' = Messages(x, "user")
  BY <1>0, MessageAdded
<1>2. StoreTypes'
  BY <1>0, <1>1 DEF StoreTypes, Otherwise
<1>3. NamedAfterFirstMessage'
  BY <1>0, <1>1 DEF NamedAfterFirstMessage, Otherwise, Untitled
<1> QED
  BY <1>0, <1>2, <1>3

\* A thread created without a message has no name, or one that is no message.
LEMMA CreatedNamesNothing ==
  ASSUME StoreTypes, NamedAfterFirstMessage, NEW title \in {Untitled, Otherwise},
         threads' = Append(threads, title), UNCHANGED <<messages, passed, replying>>
  PROVE  StoreTypes' /\ NamedAfterFirstMessage' /\ Ids \subseteq Ids' /\ Len(threads') \in Ids'
<1>0. title \in 0 .. Otherwise /\ Untitled' = Untitled /\ Otherwise' = Otherwise
  BY DEF Untitled, Otherwise
<1>1. /\ threads' \in Seq(0 .. Otherwise)
      /\ Ids' = Ids \cup {Len(threads')} /\ Len(threads') \notin Ids
      /\ \A t \in Ids : threads'[t] = threads[t]
      /\ threads'[Len(threads')] = title
      /\ Messages(Len(threads'), "user") = {}
  BY <1>0, ThreadAdded
<1>2. \A x : Messages(x, "user")' = Messages(x, "user")
  BY DEF Messages
<1>3. StoreTypes'
  BY <1>0, <1>1 DEF StoreTypes
<1>4. NamedAfterFirstMessage'
  <2> SUFFICES ASSUME NEW x \in Ids', threads'[x] # Otherwise
               PROVE  IF Candidates(x) = {} THEN threads'[x] = Untitled
                      ELSE threads'[x] \in Candidates(x) /\ \A m \in Candidates(x) : threads'[x] <= m
    BY <1>0, <1>2 DEF NamedAfterFirstMessage, Candidates
  <2>1. CASE x \in Ids
    BY <1>1, <2>1 DEF NamedAfterFirstMessage, Candidates
  <2>2. CASE x = Len(threads')
    BY <1>1, <2>2 DEF Candidates
  <2> QED
    BY <1>1, <2>1, <2>2
<1> QED
  BY <1>1, <1>3, <1>4

\* A thread that gets a name from elsewhere is out of the property.
LEMMA TakenAway ==
  ASSUME StoreTypes, NamedAfterFirstMessage, UNCHANGED <<messages, passed, replying>>,
         threads' \in Seq(0 .. Otherwise), Ids' = Ids,
         \A x \in Ids : threads'[x] # Otherwise => threads'[x] = threads[x]
  PROVE  StoreTypes' /\ NamedAfterFirstMessage'
<1>1. \A x : Messages(x, "user")' = Messages(x, "user")
  BY DEF Messages
<1>2. UNCHANGED <<Otherwise, Untitled>>
  BY DEF Otherwise, Untitled
<1>3. StoreTypes'
  BY <1>2 DEF StoreTypes
<1> QED
  BY <1>1, <1>2, <1>3 DEF NamedAfterFirstMessage

\* Renaming a thread takes it out of the property, or makes it wait for a message.
LEMMA RenamedByHand ==
  ASSUME StoreTypes, NamedAfterFirstMessage, NEW t \in Ids, RenameThread(t)
  PROVE  StoreTypes' /\ NamedAfterFirstMessage' /\ Ids' = Ids
<1>0. /\ UNCHANGED <<messages, replying>> /\ Untitled' = Untitled /\ Otherwise' = Otherwise
      /\ Otherwise \in 0 .. Otherwise /\ Untitled \in 0 .. Otherwise /\ Otherwise # Untitled
      /\ threads \in Seq(0 .. Otherwise) /\ Ids = DOMAIN threads
  BY DEF RenameThread, Otherwise, Untitled, StoreTypes, Ids
<1>1. CASE threads' = [threads EXCEPT ![t] = Otherwise] /\ passed' = passed
  <2>1. threads' \in Seq(0 .. Otherwise) /\ Ids' = Ids
    BY <1>0, <1>1 DEF Ids
  <2>2. \A x \in Ids : threads'[x] # Otherwise => threads'[x] = threads[x]
    BY <1>0, <1>1
  <2> QED
    BY <1>0, <1>1, <2>1, <2>2, TakenAway
<1>2. CASE threads' = [threads EXCEPT ![t] = Untitled] /\ passed' = passed \cup Messages(t, "user")
  <2>1. threads' \in Seq(0 .. Otherwise) /\ Ids' = Ids
    BY <1>0, <1>2 DEF Ids
  <2>2. \A x : Messages(x, "user")' = Messages(x, "user")
    BY <1>0 DEF Messages
  <2>3. Messages(t, "user") \subseteq DOMAIN messages
    BY DEF Messages
  <2>4. StoreTypes'
    BY <1>0, <1>2, <2>1, <2>3 DEF StoreTypes
  <2>5. ASSUME NEW x \in Ids PROVE TitleIsFirst(x)'
    <3>1. CASE x = t
      <4>1. Candidates(x)' = {} /\ threads'[x] = Untitled
        BY <1>0, <1>2, <2>2, <3>1 DEF Candidates
      <4> QED
        BY <1>0, <4>1 DEF TitleIsFirst
    <3>2. CASE x # t
      <4>1. Candidates(x)' = Candidates(x) /\ threads'[x] = threads[x]
        BY <1>0, <1>2, <2>2, <3>2 DEF Candidates, Messages
      <4>2. TitleIsFirst(x)
        BY TitlesOneByOne
      <4> QED
        BY <1>0, <4>1, <4>2 DEF TitleIsFirst
    <3> QED
      BY <3>1, <3>2
  <2>6. NamedAfterFirstMessage'
    BY <2>1, <2>5 DEF NamedAfterFirstMessage, TitleIsFirst, Candidates
  <2> QED
    BY <2>1, <2>4, <2>6
<1> QED
  BY <1>1, <1>2 DEF RenameThread, Titled

\* A message that is lost leaves its thread with a name from elsewhere, or as it was.
LEMMA LostMessage ==
  ASSUME TInv, PostFails
  PROVE  StoreTypes' /\ NamedAfterFirstMessage' /\ Ids \subseteq Ids'
<1>0. /\ StoreTypes /\ PageTypes /\ IdsAreKnown /\ NamedAfterFirstMessage
      /\ UNCHANGED <<messages, passed, replying>> /\ threads \in Seq(0 .. Otherwise)
      /\ Otherwise \in 0 .. Otherwise /\ Ids = DOMAIN threads
  BY DEF TInv, PostFails, Otherwise, StoreTypes, Ids
<1>1. CASE chat.thread = 0
  BY <1>0, <1>1, CreatedNamesNothing DEF PostFails, Naming
<1>2. CASE chat.thread # 0
  <2>1. PICK t \in Ids : t = chat.thread
    BY <1>0, <1>2 DEF IdsAreKnown
  <2>2. \/ threads' = threads
        \/ threads' = [threads EXCEPT ![t] = Otherwise]
        \/ threads' = [threads EXCEPT ![t] = Untitled] /\ threads[t] = Untitled
    BY <1>2, <2>1 DEF PostFails, Naming, Named, Titled
  <2>3. CASE threads' = threads
    <3>1. Ids' = Ids
      BY <2>3 DEF Ids
    <3> QED
      BY <1>0, <2>3, <3>1, TakenAway
  <2>4. ASSUME NEW title \in {Otherwise, Untitled}, threads' = [threads EXCEPT ![t] = title],
               title = Untitled => threads[t] = Untitled
        PROVE  StoreTypes' /\ NamedAfterFirstMessage' /\ Ids \subseteq Ids'
    <3>1. title \in 0 .. Otherwise
      BY <1>0 DEF Otherwise, Untitled
    <3>2. threads' \in Seq(0 .. Otherwise) /\ Ids' = Ids
      BY <1>0, <2>4, <3>1 DEF Ids
    <3>3. \A x \in Ids : threads'[x] # Otherwise => threads'[x] = threads[x]
      BY <1>0, <2>4
    <3> QED
      BY <1>0, <3>2, <3>3, TakenAway
  <2>5. CASE threads' = [threads EXCEPT ![t] = Otherwise]
    <3>1. Otherwise # Untitled
      BY DEF Otherwise, Untitled
    <3> QED
      BY <2>4, <2>5, <3>1
  <2>6. CASE threads' = [threads EXCEPT ![t] = Untitled] /\ threads[t] = Untitled
    BY <2>4, <2>6
  <2> QED
    BY <2>2, <2>3, <2>5, <2>6
<1> QED
  BY <1>1, <1>2

\* The store is not touched.
LEMMA StoreAtRest ==
  ASSUME StoreTypes, NamedAfterFirstMessage, UNCHANGED store, replying' = replying
  PROVE  StoreTypes' /\ NamedAfterFirstMessage' /\ Ids' = Ids
<1>1. UNCHANGED <<threads, messages, passed>>
  BY DEF store
<1>2. \A x : Messages(x, "user")' = Messages(x, "user")
  BY <1>1 DEF Messages
<1>3. UNCHANGED <<Ids, Otherwise, Untitled>>
  BY <1>1 DEF Ids, Otherwise, Untitled
<1>4. StoreTypes'
  BY <1>1, <1>3 DEF StoreTypes
<1>5. NamedAfterFirstMessage'
  BY <1>1, <1>2, <1>3 DEF NamedAfterFirstMessage
<1> QED
  BY <1>3, <1>4, <1>5

\* What the server counts is a number.
LEMMA CompletionsCount == StoreTypes => Completions \in Nat
<1>1. ASSUME StoreTypes PROVE IsFiniteSet(Messages(Main, "agent"))
  <2>1. Len(messages) \in Nat /\ Messages(Main, "agent") \subseteq 1 .. Len(messages)
    BY <1>1 DEF StoreTypes, Messages
  <2>2. IsFiniteSet(1 .. Len(messages))
    BY <2>1, FS_Interval
  <2> QED
    BY <2>1, <2>2, FS_Subset
<1> QED
  BY <1>1, FS_CardinalityType DEF Completions

\* What a request of the sidebar may become.
Records == [kind : {"none", "count", "seen", "new"}, served : BOOLEAN, answer : Nat]

\* Sending, answering and forgetting a request keeps what is known.
LEMMA RequestMoves ==
  ASSUME PageTypes, IdsAreKnown, NEW r \in Requests, Ids \subseteq Ids',
         NEW q \in Records, requests' = [requests EXCEPT ![r] = q],
         q.kind = "new" /\ q.served => q.answer \in Ids'
  PROVE  /\ requests' \in [Requests -> Records]
         /\ \A s \in Requests : requests'[s].kind = "new" /\ requests'[s].served =>
              requests'[s].answer \in Ids'
<1>1. requests \in [Requests -> Records]
  BY DEF PageTypes, Records
<1>2. \A s \in Requests : requests'[s] = IF s = r THEN q ELSE requests[s]
  BY <1>1
<1>3. requests' \in [Requests -> Records]
  BY <1>1
<1> QED
  BY <1>2, <1>3 DEF IdsAreKnown

\* The sidebar's steps.
LEMMA SidebarKeeps ==
  ASSUME TInv, NEW r \in Requests,
         \/ RefreshMainUnread(r) \/ HandleNewThread(r) \/ ListThreadMessages(r) \/ CreateThread(r)
         \/ TakeCount(r) \/ TakeSeen(r) \/ TakeNew(r) \/ Lose(r)
         \/ \E t \in Ids : HandleSelectThread(r, t)
  PROVE  TInv'
<1>0. /\ StoreTypes /\ PageTypes /\ IdsAreKnown /\ NamedAfterFirstMessage
      /\ requests[r] \in Records /\ Free \in Records /\ Ids \subseteq Nat
  BY DEF TInv, PageTypes, Records, Free, Ids, StoreTypes
<1>1. ASSUME NEW q \in Records, requests' = [requests EXCEPT ![r] = q],
             q.kind = "new" /\ q.served => q.answer \in Ids',
             StoreTypes', NamedAfterFirstMessage', Ids \subseteq Ids',
             chat'.thread \in Ids' \cup {0}, chat' \in [thread : Nat, streaming : BOOLEAN]
      PROVE  TInv'
  BY <1>0, <1>1, RequestMoves DEF TInv, PageTypes, IdsAreKnown, Records
<1>2. ASSUME UNCHANGED Elsewhere PROVE StoreTypes' /\ NamedAfterFirstMessage' /\ Ids' = Ids
  BY <1>0, <1>2, StoreAtRest DEF Elsewhere
<1>3. chat.thread \in Ids \cup {0} /\ chat \in [thread : Nat, streaming : BOOLEAN]
  BY <1>0 DEF IdsAreKnown, PageTypes
<1>4. ASSUME NEW kind \in {"count", "seen", "new"}, Send(r, kind)
      PROVE  \E q \in Records : requests' = [requests EXCEPT ![r] = q] /\ ~q.served
  <2>1. requests' = [requests EXCEPT ![r] = [requests[r] EXCEPT !.kind = kind]]
        /\ requests[r] = Free
    BY <1>4 DEF Send
  <2>2. [requests[r] EXCEPT !.kind = kind] \in Records /\ ~[requests[r] EXCEPT !.kind = kind].served
    BY <1>0, <2>1 DEF Records, Free
  <2> QED
    BY <2>1, <2>2
<1>5. CASE RefreshMainUnread(r) \/ HandleNewThread(r)
  <2>1. UNCHANGED Elsewhere /\ chat' = chat /\ \E kind \in {"count", "seen", "new"} : Send(r, kind)
    BY <1>5 DEF RefreshMainUnread, HandleNewThread
  <2> QED
    BY <1>1, <1>2, <1>3, <1>4, <2>1
<1>6. CASE ListThreadMessages(r)
  <2>1. /\ UNCHANGED Elsewhere /\ chat' = chat /\ requests[r].kind # "new"
        /\ requests' = [requests EXCEPT ![r] = [requests[r] EXCEPT !.served = TRUE, !.answer = Completions]]
    BY <1>6 DEF ListThreadMessages, Serve
  <2>2. /\ [requests[r] EXCEPT !.served = TRUE, !.answer = Completions] \in Records
        /\ [requests[r] EXCEPT !.served = TRUE, !.answer = Completions].kind # "new"
    BY <1>0, <2>1, CompletionsCount DEF Records
  <2> QED
    BY <1>1, <1>2, <1>3, <2>1, <2>2
<1>7. CASE CreateThread(r)
  <2>1. /\ chat' = chat /\ threads' = Append(threads, Untitled) /\ UNCHANGED <<messages, passed, replying>>
        /\ requests' = [requests EXCEPT ![r] = [requests[r] EXCEPT !.served = TRUE, !.answer = Len(threads')]]
    BY <1>7 DEF CreateThread, Serve
  <2>2. StoreTypes' /\ NamedAfterFirstMessage' /\ Ids \subseteq Ids' /\ Len(threads') \in Ids'
    BY <1>0, <2>1, CreatedNamesNothing
  <2>3. Len(threads') \in Nat
    BY <2>2 DEF StoreTypes
  <2>4. /\ [requests[r] EXCEPT !.served = TRUE, !.answer = Len(threads')] \in Records
        /\ [requests[r] EXCEPT !.served = TRUE, !.answer = Len(threads')].answer \in Ids'
    BY <1>0, <2>2, <2>3 DEF Records
  <2> QED
    BY <1>1, <1>3, <2>1, <2>2, <2>4
<1>8. ~Free.served
  BY DEF Free
<1>9. CASE TakeCount(r) \/ TakeSeen(r)
  <2>1. UNCHANGED Elsewhere /\ chat' = chat /\ requests' = [requests EXCEPT ![r] = Free]
    BY <1>9 DEF TakeCount, TakeSeen, Answered
  <2> QED
    BY <1>0, <1>1, <1>2, <1>3, <1>8, <2>1
<1>10. CASE TakeNew(r)
  <2>1. /\ UNCHANGED Elsewhere /\ requests' = [requests EXCEPT ![r] = Free]
        /\ chat' = [thread |-> requests[r].answer, streaming |-> FALSE]
        /\ requests[r].answer \in Ids
    BY <1>0, <1>10 DEF TakeNew, Answered, IdsAreKnown
  <2>2. chat'.thread \in Ids \cup {0} /\ chat' \in [thread : Nat, streaming : BOOLEAN]
    BY <1>0, <2>1
  <2> QED
    BY <1>0, <1>1, <1>2, <1>8, <2>1, <2>2
<1>11. CASE Lose(r)
  <2>1. /\ UNCHANGED Elsewhere /\ requests' = [requests EXCEPT ![r] = Free]
        /\ chat' \in {chat, [thread |-> 0, streaming |-> FALSE]}
    BY <1>11 DEF Lose
  <2>2. chat'.thread \in Ids \cup {0} /\ chat' \in [thread : Nat, streaming : BOOLEAN]
    <3>1. CASE chat' = chat
      BY <1>3, <3>1
    <3>2. CASE chat' = [thread |-> 0, streaming |-> FALSE]
      BY <3>2
    <3> QED
      BY <2>1, <3>1, <3>2
  <2> QED
    BY <1>0, <1>1, <1>2, <1>8, <2>1, <2>2
<1>12. ASSUME NEW t \in Ids, HandleSelectThread(r, t) PROVE TInv'
  <2>1. UNCHANGED Elsewhere /\ chat' = [thread |-> t, streaming |-> FALSE]
    BY <1>12 DEF HandleSelectThread
  <2>2. chat'.thread \in Ids \cup {0} /\ chat' \in [thread : Nat, streaming : BOOLEAN]
    BY <1>0, <2>1
  <2>3. CASE t = Main
    <3>1. Send(r, "seen")
      BY <1>12, <2>3 DEF HandleSelectThread
    <3> QED
      BY <1>1, <1>2, <1>4, <2>1, <2>2, <3>1
  <2>4. CASE t # Main
    <3>1. requests' = requests
      BY <1>12, <2>4 DEF HandleSelectThread
    <3> QED
      BY <1>0, <1>2, <2>1, <2>2, <3>1 DEF TInv, PageTypes, IdsAreKnown
  <2> QED
    BY <2>3, <2>4
<1> QED
  BY <1>5, <1>6, <1>7, <1>9, <1>10, <1>11, <1>12

\* The other steps.
LEMMA TInvStep == TInv /\ [ThreadsNext]_threadsVars => TInv'
<1> SUFFICES ASSUME TInv, [ThreadsNext]_threadsVars PROVE TInv'
  OBVIOUS
<1>0. StoreTypes /\ PageTypes /\ IdsAreKnown /\ NamedAfterFirstMessage
  BY DEF TInv
<1>1. ASSUME StoreTypes', NamedAfterFirstMessage', Ids \subseteq Ids', requests' = requests,
             chat'.thread \in Ids' \cup {0}, chat' \in [thread : Nat, streaming : BOOLEAN]
      PROVE  TInv'
  BY <1>0, <1>1 DEF TInv, PageTypes, IdsAreKnown
<1>2. chat.thread \in Ids \cup {0} /\ chat \in [thread : Nat, streaming : BOOLEAN]
  BY <1>0 DEF IdsAreKnown, PageTypes
<1>3. CASE PostMessage
  BY <1>0, <1>1, <1>3, SendNames DEF PostMessage, sidebar
<1>4. ASSUME NEW m, Reply(m) PROVE TInv'
  <2>1. /\ replying' \subseteq replying /\ chat' = [chat EXCEPT !.streaming = FALSE]
        /\ UNCHANGED <<threads, passed>> /\ requests' = requests /\ messages[m].thread \in Ids
        /\ \/ Len(messages) < MaxMessages /\ AppendThreadMessage(messages[m].thread, "agent")
           \/ messages' = messages
    BY <1>0, <1>4 DEF Reply, StoreTypes, sidebar
  <2>2. StoreTypes' /\ NamedAfterFirstMessage' /\ Ids' = Ids
    <3>1. CASE messages' = messages
      <4>1. StoreTypes'
        BY <1>0, <2>1, <3>1 DEF StoreTypes, Ids, Otherwise
      <4>2. \A x : Messages(x, "user")' = Messages(x, "user")
        BY <3>1 DEF Messages
      <4> QED
        BY <1>0, <2>1, <4>1, <4>2 DEF NamedAfterFirstMessage, Ids, Otherwise, Untitled
    <3> QED
      BY <1>0, <2>1, <3>1, AgentNamesNothing
  <2>3. chat'.thread \in Ids \cup {0} /\ chat' \in [thread : Nat, streaming : BOOLEAN]
    BY <1>2, <2>1
  <2> QED
    BY <1>1, <2>1, <2>2, <2>3
<1>5. ASSUME NEW t \in Ids, TaskTells(t) PROVE TInv'
  BY <1>0, <1>1, <1>2, <1>5, AgentNamesNothing DEF TaskTells, sidebar
<1>6. ASSUME NEW t \in Ids, RenameThread(t) PROVE TInv'
  <2>1. requests' = requests /\ chat' = chat
    BY <1>6 DEF RenameThread, sidebar
  <2> QED
    BY <1>0, <1>1, <1>2, <1>6, <2>1, RenamedByHand
<1>p. CASE PostFails
  <2>1. requests' = requests /\ chat' = chat
    BY <1>p DEF PostFails, sidebar
  <2> QED
    BY <1>1, <1>2, <1>p, <2>1, LostMessage
<1>7. CASE Turn
  <2>1. UNCHANGED <<messages, passed, replying, chat, requests>>
        /\ (threads' = threads \/ \E title \in {Untitled, Otherwise} : threads' = Append(threads, title))
    BY <1>7 DEF Turn, Web, Naming
  <2>2. CASE threads' = threads
    BY <1>0, <1>1, <1>2, <2>1, <2>2, StoreAtRest DEF store
  <2>3. CASE \E title \in {Untitled, Otherwise} : threads' = Append(threads, title)
    BY <1>0, <1>1, <1>2, <2>1, <2>3, CreatedNamesNothing
  <2> QED
    BY <2>1, <2>2, <2>3
<1>8. ASSUME TurnFails \/ (\E t \in Ids \cup {0} : SwitchThread(t)) \/ UNCHANGED threadsVars PROVE TInv'
  <2>1. UNCHANGED <<threads, messages, passed, replying, chat, requests>>
    BY <1>8 DEF TurnFails, SwitchThread, Web, threadsVars
  <2> QED
    BY <1>0, <1>1, <1>2, <2>1, StoreAtRest DEF store
<1> QED
  BY <1>3, <1>p, <1>4, <1>5, <1>6, <1>7, <1>8, SidebarKeeps DEF ThreadsNext

\* The invariant holds in every reachable state.
LEMMA TInvariance == ThreadsSpec => []TInv
<1>1. ThreadsInit => TInv
  <2> SUFFICES ASSUME ThreadsInit PROVE TInv
    OBVIOUS
  <2>1. /\ threads = <<Otherwise>> /\ messages = << >> /\ replying = {} /\ passed = {}
        /\ chat = [thread |-> 0, streaming |-> FALSE] /\ requests = [r \in Requests |-> Free]
    BY DEF ThreadsInit
  <2>2. Otherwise \in 0 .. Otherwise /\ Len(messages) = 0
    BY <2>1 DEF Otherwise
  <2>3. Ids = {1} /\ \A t \in Ids : threads[t] = Otherwise
    BY <2>1 DEF Ids
  <2>4. StoreTypes
    BY <2>1, <2>2 DEF StoreTypes
  <2>5. PageTypes /\ IdsAreKnown
    BY <2>1 DEF PageTypes, IdsAreKnown, Free
  <2>6. NamedAfterFirstMessage
    BY <2>3 DEF NamedAfterFirstMessage
  <2> QED
    BY <2>4, <2>5, <2>6 DEF TInv
<1> QED
  BY <1>1, TInvStep, PTL DEF ThreadsSpec

(* NamedAfterFirstMessage: whichever way a thread of the page was created,   *)
(* whatever was sent, lost, answered or appended by tasks, a title that does *)
(* not come from elsewhere is the first message that could name the thread   *)
(* (routes/chat.ts: the placeholder, and titles that cannot be saved).       *)
THEOREM TitlesAreFirstMessages == ThreadsSpec => []NamedAfterFirstMessage
<1>1. TInv => NamedAfterFirstMessage
  BY DEF TInv
<1> QED
  BY <1>1, TInvariance, PTL

-------------------------------------------------------------------------------
(* The terminal *)

\* The property is inductive once the terminal has its type.
SInv == terminal \in [thread : Nat, session : SUBSET Nat] /\ SessionStaysInThread

\* A turn adds its thread to the session; what it knows of has that thread or none.
LEMMA TurnTells ==
  ASSUME SInv, terminal'.session = Told,
         terminal'.thread = terminal.thread \/ terminal.thread = 0
  PROVE  SessionStaysInThread'
BY DEF SInv, SessionStaysInThread, Told

\* Every step of the terminal keeps it; no other step touches the terminal.
LEMMA SInvStep == TInv' /\ SInv /\ [ThreadsNext]_threadsVars => SInv'
<1> SUFFICES ASSUME TInv', SInv, [ThreadsNext]_threadsVars PROVE SInv'
  OBVIOUS
<1>0. terminal \in [thread : Nat, session : SUBSET Nat] /\ Told \in SUBSET Nat /\ Len(threads') \in Nat
  BY DEF SInv, Told, TInv, StoreTypes
<1>1. ASSUME UNCHANGED terminal PROVE SInv'
  BY <1>1 DEF SInv, SessionStaysInThread
<1>2. ASSUME terminal' = [terminal EXCEPT !.session = Told] PROVE SInv'
  <2>1. terminal' \in [thread : Nat, session : SUBSET Nat] /\ terminal'.session = Told
        /\ terminal'.thread = terminal.thread
    BY <1>0, <1>2
  <2> QED
    BY <2>1, TurnTells DEF SInv
<1>3. CASE Turn
  <2>1. CASE terminal.thread # 0
    BY <1>2, <1>3, <2>1 DEF Turn
  <2>2. CASE terminal.thread = 0
    <3>1. terminal' = [thread |-> Len(threads'), session |-> Told]
      BY <1>3, <2>2 DEF Turn
    <3>2. terminal' \in [thread : Nat, session : SUBSET Nat] /\ terminal'.session = Told
      BY <1>0, <3>1
    <3> QED
      BY <2>2, <3>2, TurnTells DEF SInv
  <2> QED
    BY <2>1, <2>2
<1>4. CASE TurnFails
  BY <1>2, <1>4 DEF TurnFails
<1>5. ASSUME NEW t \in Ids \cup {0}, SwitchThread(t) PROVE SInv'
  <2>1. terminal' = [thread |-> t, session |-> {}] /\ threads' = threads
    BY <1>5 DEF SwitchThread, Fresh
  <2>2. t \in Nat
    BY <1>0, <2>1 DEF Ids
  <2>3. terminal' \in [thread : Nat, session : SUBSET Nat] /\ terminal'.session = {}
    BY <2>1, <2>2
  <2> QED
    BY <2>3 DEF SInv, SessionStaysInThread
<1>6. CASE PostMessage \/ PostFails \/ UNCHANGED threadsVars
  BY <1>1, <1>6 DEF PostMessage, PostFails, threadsVars
<1>7. ASSUME NEW m, Reply(m) \/ TaskTells(m) \/ RenameThread(m) PROVE SInv'
  BY <1>1, <1>7 DEF Reply, TaskTells, RenameThread
<1>8. ASSUME NEW r \in Requests, CreateThread(r) PROVE SInv'
  BY <1>1, <1>8 DEF CreateThread
<1>9. ASSUME NEW r \in Requests,
             \/ RefreshMainUnread(r) \/ HandleNewThread(r) \/ ListThreadMessages(r)
             \/ TakeCount(r) \/ TakeSeen(r) \/ TakeNew(r) \/ Lose(r)
             \/ \E t \in Ids : HandleSelectThread(r, t)
      PROVE  SInv'
  <2>1. UNCHANGED Elsewhere
    BY <1>9 DEF RefreshMainUnread, HandleNewThread, ListThreadMessages, TakeCount, TakeSeen, TakeNew,
                Lose, HandleSelectThread
  <2> QED
    BY <1>1, <2>1 DEF Elsewhere
<1> QED
  BY <1>3, <1>4, <1>5, <1>6, <1>7, <1>8, <1>9 DEF ThreadsNext

(* SessionStaysInThread: the session that `baara chat` resumes knows of the  *)
(* thread of its next turn only, after turns that failed early or late and   *)
(* after every change of thread (cli/src/commands/chat.ts).                  *)
THEOREM SessionsStay == ThreadsSpec => []SessionStaysInThread
<1>1. ThreadsInit => SInv
  <2> SUFFICES ASSUME ThreadsInit PROVE SInv
    OBVIOUS
  <2>1. terminal = [thread |-> 0, session |-> {}]
    BY DEF ThreadsInit, Fresh
  <2>2. terminal \in [thread : Nat, session : SUBSET Nat] /\ terminal.session = {}
    BY <2>1
  <2> QED
    BY <2>2 DEF SInv, SessionStaysInThread
<1>2. SInv => SessionStaysInThread
  BY DEF SInv
<1> QED
  BY <1>1, <1>2, SInvStep, TInvariance, PTL DEF ThreadsSpec
=============================================================================
