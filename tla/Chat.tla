--------------------------------- MODULE Chat ---------------------------------
(***************************************************************************)
(* The chat: POST /api/chat streams, whose tool handlers may have to ask   *)
(* the user, composed with the chat store of the web UI, which reads the   *)
(* streams, shows one request at a time and answers through                *)
(* POST /api/chat/permission.  The agent SDK, which decides what tools are *)
(* called and when a stream ends, is external.                             *)
(***************************************************************************)
EXTENDS Integers, Sequences, FiniteSets

CONSTANTS
  Streams,  \* calls of POST /api/chat
  Threads,  \* threads that exist already
  Calls,    \* invocations of a tool handler, with the requestId it draws
  Tools,
  Tool,     \* the tool a call is of
  None      \* null: no session, no thread, no request

Modes     == {"auto", "ask", "locked"}
Decisions == {"allow", "allow_task", "deny"}

\* A stream may draw a session id of its own, the SDK may report another; a
\* message without a thread creates one, which is named after its stream.
Sessions  == Streams \X {"drawn", "reported"}
ThreadIds == Threads \cup Streams

ASSUME ChatAssumption ==
  /\ Tool \in [Calls -> Tools]
  /\ None \notin Sessions \cup ThreadIds \cup Calls
  /\ Threads \cap Streams = {}

VARIABLES
  (* server *)
  phase,      \* of a stream: "none", "open", "ended", "broken" (aborted or failed)
  mode,       \* permissionMode of the request body
  session,    \* resolvedSessionId
  thread,     \* threadId of the handler
  approved,   \* approvedTools of the stream
  caller,     \* the stream whose agent made a call
  state,      \* of a call: "none", "asked" (in pendingPermissions), "ran", "refused"
  (* between *)
  wire,       \* server-sent events under way
  posts,      \* permission answers under way
  (* client *)
  streaming, sessionId, threadId, pendingPermission,
  approvedTools,  \* of the chat store
  reading,        \* streams whose generator loop is alive
  fetching,       \* threads whose messages are being fetched
  shown,          \* the thread whose persisted messages are displayed
  said            \* history: the answers the user gave, as <<call, decision>>

serverVars == <<phase, mode, session, thread, approved, caller, state>>
clientVars == <<streaming, sessionId, threadId, pendingPermission, approvedTools,
                reading, fetching, shown, said>>
vars == <<serverVars, wire, posts, clientVars>>

System(t, i) == [kind |-> "system", thread |-> t, session |-> i]
Request(c)   == [kind |-> "permission_request", call |-> c]
Done         == [kind |-> "done"]

Events == [kind : {"system"}, thread : ThreadIds, session : Sessions]
            \cup [kind : {"permission_request"}, call : Calls]
            \cup [kind : {"done"}]

TypeOK ==
  /\ phase \in [Streams -> {"none", "open", "broken", "ended"}]
  /\ mode \in [Streams -> Modes]
  /\ session \in [Streams -> Sessions \cup {None}]
  /\ thread \in [Streams -> ThreadIds \cup {None}]
  /\ approved \in [Streams -> SUBSET Tools]
  /\ caller \in [Calls -> Streams \cup {None}]
  /\ state \in [Calls -> {"none", "asked", "ran", "refused"}]
  /\ wire \in [Streams -> Seq(Events)]
  /\ posts \subseteq [call : Calls, session : Sessions, decision : Decisions]
  /\ streaming \in BOOLEAN
  /\ sessionId \in Sessions \cup {None} /\ threadId \in ThreadIds \cup {None}
  /\ pendingPermission \in Calls \cup {None}
  /\ approvedTools \subseteq Tools
  /\ reading \subseteq Streams /\ fetching \subseteq Threads
  /\ shown \in Threads \cup {None}
  /\ said \subseteq Calls \X Decisions
  /\ \A s \in Streams : phase[s] # "none" => session[s] # None /\ thread[s] # None
  /\ \A c \in Calls : state[c] = "none" <=> caller[c] = None

Init ==
  /\ phase = [s \in Streams |-> "none"] /\ mode = [s \in Streams |-> "auto"]
  /\ session = [s \in Streams |-> None] /\ thread = [s \in Streams |-> None]
  /\ approved = [s \in Streams |-> {}]
  /\ caller = [c \in Calls |-> None] /\ state = [c \in Calls |-> "none"]
  /\ wire = [s \in Streams |-> << >>] /\ posts = {}
  /\ streaming = FALSE /\ sessionId = None /\ threadId = None
  /\ pendingPermission = None /\ approvedTools = {}
  /\ reading = {} /\ fetching = {} /\ shown = None
  /\ said = {}

-------------------------------------------------------------------------------
(* The handler of POST /api/chat *)

\* What is written to a stream nobody reads any more is lost.
Emit(s, event) ==
  wire' = IF s \in reading THEN [wire EXCEPT ![s] = Append(@, event)] ELSE wire

\* What the client is told first: the handshake and, from an SDK that resumed
\* the session under another id, that id.
Handshakes(s, t, i) ==
  {<<System(t, i)>>} \cup
  (IF sessionId # None THEN {<<System(t, i), System(t, <<s, "reported">>)>>} ELSE {})

\* resolvedSessionId.
Resolved(s) == IF sessionId = None THEN <<s, "drawn">> ELSE sessionId

\* sendMessage() of the store and the handler it reaches, up to the first tool.
SendMessage(s, m) ==
  /\ ~streaming /\ phase[s] = "none"
  /\ phase' = [phase EXCEPT ![s] = "open"]
  /\ mode' = [mode EXCEPT ![s] = m]
  /\ session' = [session EXCEPT ![s] = Resolved(s)]
  /\ thread' = [thread EXCEPT ![s] = IF threadId = None THEN s ELSE threadId]
  /\ \E events \in Handshakes(s, thread'[s], session'[s]) : wire' = [wire EXCEPT ![s] = events]
  /\ streaming' = TRUE
  /\ reading' = reading \cup {s}
  /\ UNCHANGED <<approved, caller, state, posts, sessionId, threadId, pendingPermission,
                 approvedTools, fetching, shown, said>>

\* A call that the handler lets through without asking.
MayRun(s, c) == mode[s] = "auto" \/ Tool[c] \in approved[s]

\* The SDK calls a tool; several calls of a stream may be under way.
CallTool(s, c) ==
  /\ phase[s] = "open" /\ state[c] = "none"
  /\ caller' = [caller EXCEPT ![c] = s]
  /\ \/ MayRun(s, c) /\ state' = [state EXCEPT ![c] = "ran"] /\ UNCHANGED wire
     \/ /\ ~MayRun(s, c) /\ mode[s] = "locked"
        /\ state' = [state EXCEPT ![c] = "refused"] /\ UNCHANGED wire
     \/ /\ ~MayRun(s, c) /\ mode[s] = "ask"
        /\ state' = [state EXCEPT ![c] = "asked"] /\ Emit(s, Request(c))
  /\ UNCHANGED <<phase, mode, session, thread, approved, posts, clientVars>>

\* Five minutes without an answer.
PermissionTimeout(c) ==
  /\ state[c] = "asked"
  /\ state' = [state EXCEPT ![c] = "refused"]
  /\ UNCHANGED <<phase, mode, session, thread, approved, caller, wire, posts, clientVars>>

\* Mutation of Settle: the decision is not looked at.
SettleAny(c, d) ==
  /\ state' = [state EXCEPT ![c] = "ran"]
  /\ approved' = IF d = "allow_task" THEN [approved EXCEPT ![caller[c]] = @ \cup {Tool[c]}]
                                     ELSE approved

\* The handler goes on with decision d.
Settle(c, d) ==
  /\ state' = [state EXCEPT ![c] = IF d = "deny" THEN "refused" ELSE "ran"]
  /\ approved' = IF d = "allow_task" THEN [approved EXCEPT ![caller[c]] = @ \cup {Tool[c]}]
                                     ELSE approved

\* Mutation of Answerable: an entry outlives its decision.
AnswerableAgain(p) == state[p.call] # "none" /\ session[caller[p.call]] = p.session

\* The entry is in pendingPermissions (else 404) and of that session (else 403).
Answerable(p) == state[p.call] = "asked" /\ session[caller[p.call]] = p.session

\* POST /api/chat/permission.
HandlePermission(p) ==
  /\ p \in posts
  /\ posts' = posts \ {p}
  /\ IF Answerable(p) THEN Settle(p.call, p.decision) ELSE UNCHANGED <<state, approved>>
  /\ UNCHANGED <<phase, mode, session, thread, caller, wire, clientVars>>

Waiting(s) == \E c \in Calls : caller[c] = s /\ state[c] = "asked"

\* The agent has its answer, or the query raised while no handler was waiting.
Finish(s) ==
  /\ phase[s] = "open" /\ ~Waiting(s)
  /\ phase' = [phase EXCEPT ![s] = "ended"]
  /\ Emit(s, Done)
  /\ UNCHANGED <<mode, session, thread, approved, caller, state, posts, clientVars>>

\* The query raised under handlers that wait: they wait on.
Fail(s) ==
  /\ phase[s] = "open" /\ Waiting(s)
  /\ phase' = [phase EXCEPT ![s] = "broken"]
  /\ Emit(s, Done)
  /\ UNCHANGED <<mode, session, thread, approved, caller, state, posts, clientVars>>

\* stream.onAbort(): the client of an open stream is gone; what it was asked
\* is refused.
Abort(s) ==
  /\ phase[s] = "open" /\ s \notin reading
  /\ phase' = [phase EXCEPT ![s] = "broken"]
  /\ state' = [c \in Calls |-> IF caller[c] = s /\ state[c] = "asked" THEN "refused" ELSE state[c]]
  /\ UNCHANGED <<mode, session, thread, approved, caller, wire, posts, clientVars>>

-------------------------------------------------------------------------------
(* The chat store *)

\* The next event of a stream, whatever the store shows by now.
ReceiveSystem(s) ==
  /\ Head(wire[s]).kind = "system"
  /\ sessionId' = Head(wire[s]).session
  /\ threadId' = IF threadId = None THEN Head(wire[s]).thread ELSE threadId
  /\ UNCHANGED <<pendingPermission, streaming, reading>>

ReceiveRequest(s) ==
  /\ Head(wire[s]).kind = "permission_request"
  /\ pendingPermission' = Head(wire[s]).call
  /\ UNCHANGED <<sessionId, threadId, streaming, reading>>

ReceiveDone(s) ==
  /\ Head(wire[s]).kind = "done"
  /\ reading' = reading \ {s} /\ streaming' = FALSE
  /\ UNCHANGED <<sessionId, threadId, pendingPermission>>

Receive(s) ==
  /\ s \in reading /\ wire[s] # << >>
  /\ wire' = [wire EXCEPT ![s] = Tail(@)]
  /\ ReceiveSystem(s) \/ ReceiveRequest(s) \/ ReceiveDone(s)
  /\ UNCHANGED <<serverVars, posts, approvedTools, fetching, shown, said>>

\* The input is unmounted or the connection drops: the loop ends in its finally.
Leave(s) ==
  /\ s \in reading
  /\ wire' = [wire EXCEPT ![s] = << >>]
  /\ reading' = reading \ {s} /\ streaming' = FALSE
  /\ UNCHANGED <<serverVars, posts, sessionId, threadId, pendingPermission, approvedTools,
                 fetching, shown, said>>

\* respondToPermission(): without a session id the answer is dropped.
Respond(d) ==
  LET c == pendingPermission IN
  /\ c # None
  /\ pendingPermission' = None
  /\ IF sessionId = None THEN UNCHANGED <<posts, approvedTools, said>>
     ELSE /\ posts' = posts \cup {[call |-> c, session |-> sessionId, decision |-> d]}
          /\ approvedTools' = IF d = "allow_task" THEN approvedTools \cup {Tool[c]} ELSE approvedTools
          /\ said' = said \cup {<<c, d>>}
  /\ UNCHANGED <<serverVars, wire, streaming, sessionId, threadId, reading, fetching, shown>>

\* loadThread(): the streams being read go on.
LoadThread(t) ==
  /\ threadId' = t /\ sessionId' = None /\ streaming' = FALSE
  /\ shown' = None
  /\ fetching' = fetching \cup {t}
  /\ UNCHANGED <<serverVars, wire, posts, pendingPermission, approvedTools, reading, said>>

\* Mutation of ShowHistory: whatever was fetched last is displayed.
ShowHistoryAlways(t) ==
  /\ t \in fetching
  /\ fetching' = fetching \ {t}
  /\ shown' = t
  /\ UNCHANGED <<serverVars, wire, posts, streaming, sessionId, threadId, pendingPermission,
                 approvedTools, reading, said>>

\* The fetched messages arrive.
ShowHistory(t) ==
  /\ t \in fetching
  /\ fetching' = fetching \ {t}
  /\ shown' = IF threadId = t THEN t ELSE shown
  /\ UNCHANGED <<serverVars, wire, posts, streaming, sessionId, threadId, pendingPermission,
                 approvedTools, reading, said>>

ClearChat ==
  /\ threadId' = None /\ sessionId' = None /\ streaming' = FALSE
  /\ shown' = None /\ pendingPermission' = None /\ approvedTools' = {}
  /\ UNCHANGED <<serverVars, wire, posts, reading, fetching, said>>

Next ==
  \/ \E s \in Streams, m \in Modes : SendMessage(s, m)
  \/ \E s \in Streams : Finish(s) \/ Fail(s) \/ Abort(s) \/ Leave(s) \/ Receive(s)
  \/ \E s \in Streams, c \in Calls : CallTool(s, c)
  \/ \E c \in Calls : PermissionTimeout(c)
  \/ \E p \in posts : HandlePermission(p)
  \/ \E d \in Decisions : Respond(d)
  \/ \E t \in Threads : LoadThread(t) \/ ShowHistory(t)
  \/ ClearChat

Spec == Init /\ [][Next]_vars

-------------------------------------------------------------------------------
(* Properties *)

\* The user allowed call c, or tool Tool[c] for the rest of the stream of c.
Consented(c) ==
  \/ <<c, "allow">> \in said
  \/ \E b \in Calls : caller[b] = caller[c] /\ Tool[b] = Tool[c] /\ <<b, "allow_task">> \in said

(* Outside auto mode no tool of the wrapped MCP server runs without the      *)
(* user's consent, given for that call or for that tool in that stream,      *)
(* whatever answers are late, lost, or for another session                   *)
(* (createPermissionAwareMcpServer, POST /permission).  Tools the SDK brings *)
(* along do not pass this gate and are not among the calls.                  *)
NothingRunsUnasked ==
  \A c \in Calls : state[c] = "ran" /\ mode[caller[c]] # "auto" => Consented(c)

(* A request is settled once: a late answer neither runs a refused tool nor  *)
(* revokes one that ran (the timeout, the abort listener and the answer each *)
(* take the entry out of pendingPermissions).                                *)
SettledOnce ==
  [][\A c \in Calls : state[c] \in {"ran", "refused"} => state'[c] = state[c]]_vars

(* The persisted messages on display are those of the current thread,        *)
(* whichever fetch arrives last (loadThread).                                *)
HistoryIsOfThread == shown # None => shown = threadId

=============================================================================
