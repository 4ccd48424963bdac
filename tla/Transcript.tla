------------------------------- MODULE Transcript -------------------------------
(***************************************************************************)
(* What a person reads in the chat window: the agent message that the chat *)
(* store builds from the events of a stream, next to the record of the     *)
(* same reply that the route builds from the same messages of the agent    *)
(* SDK and appends to the thread, and the reload of a thread, which        *)
(* replaces the one by the other.                                          *)
(*                                                                         *)
(* Sessions and permissions are modelled in Chat, titles in Threads.  The  *)
(* agent SDK is external: a reply is a sequence of text blocks (which may  *)
(* be announced by a delta), tool calls and their results; the text of     *)
(* block k is k.  Here a message takes three steps, the click, the POST    *)
(* and the events, and nothing orders it with the fetch of a thread.       *)
(***************************************************************************)
EXTENDS Integers, Sequences, SequencesExt, FiniteSets

CONSTANTS Tools,
          MaxSends,   \* bound: messages sent from the page
          MaxSteps,   \* bound: what the agent does in the reply to each
          MaxEvents,  \* bound: events of a stream under way
          MaxSwitches \* bound: threads opened or left

Sends == 1 .. MaxSends

ASSUME TranscriptAssumption ==
  /\ {MaxSends, MaxEvents, MaxSwitches} \subseteq Nat
  /\ MaxSteps \in [Sends -> Nat]

Main == 0
None == -1
Threads == Sends \cup {Main}  \* those that messages create are named after them

\* The output of a tool call: not there yet, taken for granted, or the result of
\* the i-th call of its reply.
NoOutput  == 0
Completed == -1

VARIABLES
  (* server *)
  handler,     \* of a message: what its reply has come to
  stored,      \* thread_messages: [thread, of, role, text, calls]
  (* between *)
  wire,        \* events under way
  (* page *)
  chat,        \* [thread, streaming]
  transcript,  \* messages: [of, role, live, text, calls, streaming, usage]
  reading,     \* messages whose loop over the events goes on
  closed,      \* history: those whose stream was closed before it said that it was done
  switches,    \* threads opened or left, for the bound
  fetches      \* fetches of a thread: [thread, served, rows: where they are in stored]

server == <<handler, stored>>
page   == <<chat, transcript, reading, closed, switches, fetches>>
vars   == <<server, wire, page>>

Message(s, role) ==
  [of |-> s, role |-> role, live |-> TRUE, text |-> << >>, calls |-> << >>,
   streaming |-> role = "agent", usage |-> FALSE]

Row(s, role, text, calls) ==
  [thread |-> handler'[s].thread, of |-> s, role |-> role, text |-> text, calls |-> calls]

\* What the handler of a request builds: agentText and agentToolCalls; and where the
\* SDK is: the last text block, whether the next has begun, the results that are due.
Local(phase, thread, limited) ==
  [phase |-> phase, thread |-> thread, limited |-> limited, text |-> << >>, calls |-> << >>,
   last |-> 0, partial |-> FALSE, due |-> {}, steps |-> 0]

Init ==
  /\ handler = [s \in Sends |-> Local("none", None, FALSE)]
  /\ stored = << >> /\ wire = [s \in Sends |-> << >>]
  /\ chat = [thread |-> None, streaming |-> FALSE] /\ transcript = << >>
  /\ reading = {} /\ closed = {} /\ switches = 0 /\ fetches = << >>
-------------------------------------------------------------------------------
(***************************************************************************)
(* Messages are sent: by the input, a suggestion or a card.                *)
(***************************************************************************)
\* sendMessage(), up to the request.
SendMessage(s) ==
  /\ ~chat.streaming
  /\ handler[s].phase = "none" /\ \A r \in 1 .. s - 1 : handler[r].phase # "none"
  /\ transcript' = transcript \o <<Message(s, "user"), Message(s, "agent")>>
  /\ chat' = [chat EXCEPT !.streaming = TRUE] /\ reading' = reading \cup {s}
  /\ handler' = [handler EXCEPT ![s].phase = "sent", ![s].thread = chat.thread]
  /\ UNCHANGED <<stored, wire, closed, switches, fetches>>

\* What is written to a stream nobody reads any more is lost.
Emit(s, event) ==
  /\ Len(wire[s]) < MaxEvents
  /\ wire' = IF s \in reading THEN [wire EXCEPT ![s] = Append(@, event)] ELSE wire

\* POST /api/chat up to the handshake: the message is stored before the reply.
HandleMessage(s) ==
  /\ handler[s].phase = "sent"
  /\ handler' = [handler EXCEPT ![s].phase = "open", ![s].thread = IF @ = None THEN s ELSE @]
  /\ stored' = Append(stored, Row(s, "user", <<s>>, << >>))
  /\ Emit(s, [kind |-> "system", thread |-> handler'[s].thread])
  /\ UNCHANGED page
-------------------------------------------------------------------------------
(***************************************************************************)
(* The loop of the route over what the SDK says.                           *)
(***************************************************************************)
Step(s, h, event) ==
  /\ handler[s].phase = "open" /\ handler[s].steps < MaxSteps[s]
  /\ handler' = [handler EXCEPT ![s] = [h EXCEPT !.steps = @ + 1]]
  /\ Emit(s, event) /\ UNCHANGED <<stored, page>>

\* stream_event: a block begins to come.
TextDelta(s) ==
  LET h == handler[s] IN
  /\ ~h.partial
  /\ Step(s, [h EXCEPT !.partial = TRUE, !.text = Append(@, h.last + 1)],
             [kind |-> "text_delta", block |-> h.last + 1])

\* assistant: a block is complete.
Text(s) ==
  LET h == handler[s] IN
  Step(s, [h EXCEPT !.partial = FALSE, !.last = @ + 1], [kind |-> "text", block |-> h.last + 1])

ToolUse(s, t) ==
  LET h == handler[s] IN
  /\ ~h.partial
  /\ Step(s, [h EXCEPT !.calls = Append(@, [name |-> t, output |-> NoOutput]),
                       !.due = @ \cup {Len(h.calls) + 1}],
             [kind |-> "tool_use", name |-> t])

Open(calls, t) == {i \in DOMAIN calls : calls[i].name = t /\ calls[i].output = NoOutput}

\* A result goes to the latest call of that name that has none.
Filled(calls, t, output) ==
  IF Open(calls, t) = {} THEN calls ELSE [calls EXCEPT ![Max(Open(calls, t))].output = output]

\* Results of calls that are under way together come in any order.
ToolResult(s, i) ==
  LET h == handler[s] IN
  /\ i \in h.due /\ ~h.partial
  /\ Step(s, [h EXCEPT !.calls = Filled(@, h.calls[i].name, i), !.due = @ \ {i}],
             [kind |-> "tool_result", name |-> h.calls[i].name, output |-> i])

\* The reply is stored unless it is empty; that it cannot be is not fatal.
Persist(s, text) ==
  \/ /\ text # << >> \/ handler[s].calls # << >>
     /\ stored' = Append(stored, Row(s, "agent", text, handler[s].calls))
  \/ UNCHANGED stored

\* The last text of the reply, or, when a limit was reached, the deltas.
FinalText(h, ok) ==
  IF ~ok THEN h.text ELSE IF h.last = 0 THEN << >> ELSE <<h.last>>

Result(s) ==
  /\ handler[s].phase = "open"
  /\ \E ok \in BOOLEAN :
       /\ ok => ~handler[s].partial
       /\ handler' = [handler EXCEPT ![s].phase = "told", ![s].limited = ~ok]
       /\ Persist(s, FinalText(handler[s], ok))
  /\ Emit(s, [kind |-> "result"]) /\ UNCHANGED page

\* The query raised.
Raise(s) ==
  /\ handler[s].phase \in {"open", "told"}
  /\ handler' = [handler EXCEPT ![s].phase = "raised"] /\ Emit(s, [kind |-> "error"])
  /\ UNCHANGED <<stored, page>>

\* The query is over; the stream is told that it is done.
Finish(s) ==
  /\ handler[s].phase \in {"open", "told", "raised"}
  /\ handler' = [handler EXCEPT ![s] = Local("ended", None, @.limited)]
  /\ Emit(s, [kind |-> "done"])
  /\ UNCHANGED <<stored, page>>
-------------------------------------------------------------------------------
(***************************************************************************)
(* The loop of the store over the events: they change the agent message of *)
(* their own reply, if it is still there.                                  *)
(***************************************************************************)
Granted(calls) ==
  [i \in DOMAIN calls |->
     [calls[i] EXCEPT !.output = IF @ = NoOutput THEN Completed ELSE @]]

\* Mutation of Stopped: the result is relied on.
StoppedBefore(m) == m

\* The reply has come to its end, well or not; there may have been no result.
Stopped(m) == [m EXCEPT !.streaming = FALSE]

\* Mutation of FullText: what was announced is kept.
FullTextAfterDeltas(m, block) == [m EXCEPT !.text = Append(@, block), !.calls = Granted(@)]

\* The SDK may report no results: a text or another call means that there are.
FullText(m, block) == [m EXCEPT !.text = <<block>>, !.calls = Granted(@)]

Applied(e, m) ==
  CASE e.kind = "text"        -> FullText(m, e.block)
    [] e.kind = "text_delta"  -> [m EXCEPT !.text = Append(@, e.block)]
    [] e.kind = "tool_use"    ->
         [m EXCEPT !.calls = Append(Granted(@), [name |-> e.name, output |-> NoOutput])]
    [] e.kind = "tool_result" -> [m EXCEPT !.calls = Filled(@, e.name, e.output)]
    [] e.kind = "result"      -> [m EXCEPT !.streaming = FALSE, !.usage = TRUE]
    [] e.kind \in {"error", "done"} -> Stopped(m)
    [] OTHER -> m

\* Mutation of IsReply: the last message on display is taken for the reply.
IsLastMessage(s, i) == i = Len(transcript) /\ transcript[i].role = "agent"

IsReply(s, i) ==
  transcript[i].live /\ transcript[i].of = s /\ transcript[i].role = "agent"

Apply(s, e) ==
  transcript' = [i \in DOMAIN transcript |->
                   IF IsReply(s, i) THEN Applied(e, transcript[i]) ELSE transcript[i]]

Receive(s) ==
  /\ s \in reading /\ wire[s] # << >>
  /\ wire' = [wire EXCEPT ![s] = Tail(@)]
  /\ Apply(s, Head(wire[s]))
  /\ CASE Head(wire[s]).kind = "system" ->
            /\ chat' = [chat EXCEPT !.thread = IF @ = None THEN Head(wire[s]).thread ELSE @]
            /\ UNCHANGED reading
       [] Head(wire[s]).kind = "done" ->
            chat' = [chat EXCEPT !.streaming = FALSE] /\ reading' = reading \ {s}
       [] OTHER -> UNCHANGED <<chat, reading>>
  /\ UNCHANGED <<server, closed, switches, fetches>>

\* The request is aborted, refused or cut off: the loop ends in its catch.
Break(s) ==
  /\ s \in reading /\ reading' = reading \ {s}
  /\ wire' = [wire EXCEPT ![s] = << >>]
  /\ Apply(s, [kind |-> "error"])
  /\ chat' = [chat EXCEPT !.streaming = FALSE]
  /\ UNCHANGED <<server, closed, switches, fetches>>

\* The server closes the stream without saying that it is done (it stops, or the route
\* raises outside its try), and all it has said has come: the loop is over without an
\* exception, and the message is left as it is.
Close(s) ==
  /\ s \in reading /\ wire[s] = << >> /\ handler[s].phase \in {"open", "told", "raised"}
  /\ handler' = [handler EXCEPT ![s] = Local("ended", None, @.limited)]
  /\ reading' = reading \ {s} /\ closed' = closed \cup {s}
  /\ chat' = [chat EXCEPT !.streaming = FALSE]
  /\ UNCHANGED <<stored, wire, transcript, switches, fetches>>
-------------------------------------------------------------------------------
(***************************************************************************)
(* Threads are opened and left.                                            *)
(***************************************************************************)
Exists(t) == t = Main \/ \E i \in DOMAIN stored : stored[i].thread = t

Switch(t) ==
  /\ switches < MaxSwitches /\ switches' = switches + 1
  /\ chat' = [thread |-> t, streaming |-> FALSE] /\ transcript' = << >>
  /\ UNCHANGED <<server, wire, reading, closed>>

LoadThread(t) ==
  /\ Exists(t) /\ Switch(t)
  /\ fetches' = Append(fetches, [thread |-> t, served |-> FALSE, rows |-> {}])

ClearChat == Switch(None) /\ UNCHANGED fetches

ServeThread(i) ==
  /\ i \in DOMAIN fetches /\ ~fetches[i].served
  /\ fetches' = [fetches EXCEPT ![i].served = TRUE,
       ![i].rows = {j \in DOMAIN stored : stored[j].thread = fetches[i].thread}]
  /\ UNCHANGED <<server, wire, chat, transcript, reading, closed, switches>>

\* Rows, which nobody changes, in the order they were stored.
InStoredOrder(rows) == SetToSortSeq(rows, <)

Reconstructed(rows) ==
  [i \in 1 .. Cardinality(rows) |->
     LET row == stored[InStoredOrder(rows)[i]] IN
     [of |-> row.of, role |-> row.role, live |-> FALSE, text |-> row.text,
      calls |-> row.calls, streaming |-> FALSE, usage |-> FALSE]]

\* Only if the page has not switched to another thread meanwhile.
TakeThread(i) ==
  /\ i \in DOMAIN fetches /\ fetches[i].served
  /\ fetches' = RemoveAt(fetches, i)
  /\ transcript' = IF chat.thread = fetches[i].thread
                   THEN Reconstructed(fetches[i].rows) ELSE transcript
  /\ UNCHANGED <<server, wire, chat, reading, closed, switches>>

LoseThread(i) ==
  /\ i \in DOMAIN fetches /\ fetches' = RemoveAt(fetches, i)
  /\ UNCHANGED <<server, wire, chat, transcript, reading, closed, switches>>

Next ==
  \/ \E s \in Sends :
       \/ SendMessage(s) \/ HandleMessage(s) \/ TextDelta(s) \/ Text(s) \/ Result(s)
       \/ Raise(s) \/ Finish(s)
       \/ \E t \in Tools : ToolUse(s, t)
       \/ \E i \in 1 .. MaxSteps[s] : ToolResult(s, i)
       \/ Receive(s) \/ Break(s) \/ Close(s)
  \/ \E t \in Threads : LoadThread(t)
  \/ ClearChat
  \/ \E i \in 1 .. MaxSwitches : ServeThread(i) \/ TakeThread(i) \/ LoseThread(i)

(* A request is handled or breaks, a reply ends (the SDK has a budget and  *)
(* a number of turns), and what is read arrives or breaks.                 *)
Spec ==
  /\ Init /\ [][Next]_vars
  /\ \A s \in Sends : /\ WF_vars(HandleMessage(s) \/ Finish(s))
                      /\ WF_vars(Receive(s) \/ Break(s))
-------------------------------------------------------------------------------
\* Handlers, rows, events, messages, fetches.
TypeOK ==
  LET Texts == Seq(Nat)
      Calls == Seq([name : Tools, output : Int])
      Rows  == [thread : Threads, of : Sends, role : {"user", "agent"},
                text : Seq(Nat), calls : Calls]
  IN
  /\ \A s \in Sends :
       /\ handler[s].phase \in {"none", "sent", "open", "told", "raised", "ended"}
       /\ handler[s].thread \in Threads \cup {None} /\ handler[s].text \in Texts
       /\ handler[s].calls \in Calls /\ handler[s].due \subseteq DOMAIN handler[s].calls
       /\ handler[s].phase \in {"open", "told", "raised"} => handler[s].thread # None
       /\ s \notin reading => wire[s] = << >>
  /\ stored \in Seq(Rows) /\ reading \subseteq Sends
  /\ chat \in [thread : Threads \cup {None}, streaming : BOOLEAN]
  /\ \A i \in DOMAIN transcript : transcript[i].of \in Sends /\ transcript[i].calls \in Calls
  /\ \A i \in DOMAIN fetches : fetches[i].thread \in Threads /\ fetches[i].rows \subseteq DOMAIN stored

\* What was read while a reply came in is what its thread shows after a reload: the
\* same text and the same calls, with the same outputs but for those the page took
\* for granted, although the page and the route build them apart, from text that comes
\* twice and results that name only their tool.
LiveIsStored ==
  \A i \in DOMAIN transcript, j \in DOMAIN stored :
    LET m == transcript[i] row == stored[j] IN
    m.usage /\ row.role = "agent" /\ row.of = m.of =>
      /\ handler[m.of].limited \/ m.text = row.text
      /\ Len(m.calls) = Len(row.calls)
      /\ \A k \in DOMAIN m.calls : /\ m.calls[k].name = row.calls[k].name
                                   /\ m.calls[k].output \in {row.calls[k].output, Completed}

\* A message that is complete does not change while it is on display, whatever
\* streams the page left behind still deliver.
FinishedIsFinal ==
  [][\A i \in DOMAIN transcript, j \in DOMAIN transcript' :
       LET m == transcript[i] n == transcript'[j] IN
       m.live /\ n.live /\ m.of = n.of /\ m.role = n.role /\ ~m.streaming => m = n]_vars

\* Whether the window shows a tool call of a message as running: a spinner beside the
\* call, or "Working..." for those who do not see the calls.
Indicator(m, i) == IF m.calls[i].output # NoOutput \/ ~m.streaming THEN "done" ELSE "running"
Working(m) == \E i \in DOMAIN m.calls : Indicator(m, i) = "running"

\* No tool call is shown as running for good: however streams end, with a result or
\* without, fail, are cut off or left behind, the spinners stop.  But for a stream that
\* is closed before its end, of which nothing tells the page.
SpinnersStop == []<>(\A i \in DOMAIN transcript : Working(transcript[i]) => transcript[i].of \in closed)
=============================================================================
