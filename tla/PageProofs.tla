------------------------------ MODULE PageProofs ------------------------------
(***************************************************************************)
(* The pages of the web client.  The first half is about Transcript: what  *)
(* the page shows of a reply is what the route stores of it.  The page     *)
(* applies the events of a stream to a message, the route stores what it   *)
(* has put together; the invariant relates the two through the events that *)
(* are still under way: when they have arrived, the one agrees with the    *)
(* other (InTransit).  Everything the route does is one kind of step,      *)
(* ReplyStep, which adds an event and keeps that true (ReplyGoesOn).       *)
(*                                                                         *)
(* The second half is about Console: what the page reports after an        *)
(* accepted cancel is true.  What a request has learned of a row remains   *)
(* true while its answer is under way: that it was cancelled is never      *)
(* forgotten, and only a late write gives it another status (Kept).        *)
(***************************************************************************)
EXTENDS Console, Transcript, SequenceTheorems, FiniteSetTheorems, WellFoundedInduction, TLAPS

\* Records: calls, accounts of a reply, events, messages, rows, fetches.
ToolCall == [name : Tools, output : Int]

Handlers == [phase : {"none", "sent", "open", "told", "raised", "ended"}, thread : Int,
             limited : BOOLEAN, text : Seq(Nat), calls : Seq(ToolCall), last : Nat,
             partial : BOOLEAN, due : SUBSET Nat, steps : Nat]

Events ==
  [kind : {"system"}, thread : Int] \cup [kind : {"text", "text_delta"}, block : Nat]
  \cup [kind : {"tool_use"}, name : Tools]
  \cup [kind : {"tool_result"}, name : Tools, output : Nat \ {0}]
  \cup [kind : {"result", "error", "done"}]

Replies == [of : Sends, role : {"user", "agent"}, live : BOOLEAN, text : Seq(Nat),
            calls : Seq(ToolCall), streaming : BOOLEAN, usage : BOOLEAN]

StoredRows == [thread : Int, of : Sends, role : {"user", "agent"}, text : Seq(Nat), calls : Seq(ToolCall)]

FewRows == {R \in SUBSET Nat : IsFiniteSet(R)}

Fetches == [thread : Int, served : BOOLEAN, rows : FewRows]

TranscriptTypes ==
  /\ handler \in [Sends -> Handlers]
  /\ \A s \in Sends : handler[s].due \subseteq DOMAIN handler[s].calls
  /\ stored \in Seq(StoredRows) /\ wire \in [Sends -> Seq(Events)]
  /\ chat \in [thread : Int, streaming : BOOLEAN] /\ reading \subseteq Sends
  /\ \E X : transcript \in Seq(X)
  /\ fetches \in Seq(Fetches)

-------------------------------------------------------------------------------
(* The invariant *)

\* The reply to s has come to its end.
Over(s) == handler[s].phase \in {"told", "raised", "ended"}

\* The calls a message shows are those of the route, but that the page may have
\* taken outputs for granted: all but the latest.
SameCalls(shown, calls) ==
  /\ Len(shown) = Len(calls)
  /\ \A k \in DOMAIN shown : /\ shown[k].name = calls[k].name
                             /\ shown[k].output \in {calls[k].output, Completed}

\* Only the latest call may be without an output.
LatestOpen(shown) == \A k \in DOMAIN shown : shown[k].output = NoOutput => k = Len(shown)

\* A message agrees with what the route has put together, between two text blocks.
Agrees(h, m) ==
  /\ SameCalls(m.calls, h.calls) /\ LatestOpen(m.calls)
  /\ ~h.partial => m.text = FinalText(h, TRUE)

\* A message of reply s agrees with every row that was stored of it.
Matches(s, m, h, loaded) ==
  \A j \in DOMAIN loaded : loaded[j].role = "agent" /\ loaded[j].of = s =>
    /\ h.limited \/ m.text = loaded[j].text
    /\ SameCalls(m.calls, loaded[j].calls)

\* f[k + 1] is what the message of s has become when the first k events on the wire
\* have arrived: in the end what the route has, and complete after the result.
Arrives(s, f) ==
  /\ f \in [1 .. Len(wire[s]) + 1 -> Replies]
  /\ \A k \in 1 .. Len(wire[s]) : f[k + 1] = Applied(wire[s][k], f[k])
  /\ \A k \in 1 .. Len(wire[s]) + 1 :
       /\ f[k].usage => ~f[k].streaming /\ Matches(s, f[k], handler[s], stored)
       /\ ~f[k].streaming =>
            Over(s) /\ \A l \in k .. Len(wire[s]) : wire[s][l].kind \in {"error", "done"}
  /\ handler[s].phase \in {"sent", "open"} => Agrees(handler[s], f[Len(wire[s]) + 1])

\* A live message belongs to a request; a complete one agrees with what is stored.
LiveMessages ==
  \A i \in DOMAIN transcript :
    LET m == transcript[i] IN
    /\ m.live => m \in Replies /\ handler[m.of].phase # "none"
    /\ m.usage => m.live /\ m.role = "agent" /\ Over(m.of) /\ Matches(m.of, m, handler[m.of], stored)

\* A message is on display once.
OneOfEach ==
  \A i, j \in DOMAIN transcript :
    /\ transcript[i].live /\ transcript[j].live
    /\ transcript[i].of = transcript[j].of /\ transcript[i].role = transcript[j].role
    => i = j

\* A reply is stored when it has come to its end.
RowsAtTheEnd == \A j \in DOMAIN stored : stored[j].role = "agent" => Over(stored[j].of)

\* Nothing is read or put together before a request is sent and handled.
NothingBefore ==
  \A s \in Sends :
    /\ handler[s].phase = "none" => s \notin reading /\ wire[s] = << >>
    /\ handler[s].phase \in {"none", "sent"} =>
         handler[s].calls = << >> /\ handler[s].last = 0 /\ ~handler[s].partial

\* Whatever is under way for a message on display fits what it shows.
InTransit ==
  \A s \in reading : \A i \in DOMAIN transcript :
    IsReply(s, i) => \E f : f[1] = transcript[i] /\ Arrives(s, f)

LInv ==
  /\ TranscriptTypes
  /\ LiveMessages
  /\ OneOfEach
  /\ RowsAtTheEnd
  /\ NothingBefore
  /\ InTransit

-------------------------------------------------------------------------------
(* Calls *)

\* A set of places that is not empty has a last one, and Max is it.
LEMMA MaxOf ==
  ASSUME NEW n \in Nat, NEW S \in SUBSET (1 .. n), S # {}
  PROVE  Max(S) \in S /\ \A x \in S : x <= Max(S)
<1> DEFINE Less == {ss \in Nat \X Nat : ss[1] < ss[2]}
           T == {n - x : x \in S}
<1>1. IsWellFoundedOn(Less, Nat)
  BY NatLessThanWellFounded DEF OpToRel
<1>2. T \in SUBSET Nat /\ T # {}
  <2>1. \A x \in S : n - x \in Nat
    OBVIOUS
  <2> QED
    BY <2>1
<1>3. PICK m \in T : \A x \in T : ~(<<x, m>> \in Less)
  <2> HIDE DEF Less, T
  <2> QED
    BY <1>1, <1>2, WFMin
<1>4. PICK k \in S : m = n - k
  OBVIOUS
<1>5. ASSUME NEW x \in S PROVE x <= k
  <2>1. n - x \in T
    OBVIOUS
  <2>2. <<n - x, m>> \in Nat \X Nat /\ <<n - x, m>>[1] = n - x /\ <<n - x, m>>[2] = m
    BY <1>2, <2>1
  <2>3. ~(n - x < m)
    BY <1>3, <2>1, <2>2
  <2> QED
    BY <1>4, <2>3
<1>6. \A x \in S : (\A y \in S : x >= y) => x = k
  BY <1>4, <1>5
<1> QED
  BY <1>4, <1>5, <1>6 DEF Max

\* A result goes to the latest call of its name that has none.
LEMMA FilledCalls ==
  ASSUME NEW calls \in Seq(ToolCall), NEW t \in Tools, NEW o \in Int
  PROVE  /\ Filled(calls, t, o) \in Seq(ToolCall) /\ Len(Filled(calls, t, o)) = Len(calls)
         /\ Open(calls, t) = {} => Filled(calls, t, o) = calls
         /\ Open(calls, t) # {} =>
              \E k \in Open(calls, t) :
                /\ \A j \in Open(calls, t) : j <= k
                /\ \A j \in DOMAIN calls : /\ Filled(calls, t, o)[j].name = calls[j].name
                                           /\ Filled(calls, t, o)[j].output = IF j = k THEN o ELSE calls[j].output
<1>1. CASE Open(calls, t) = {}
  BY <1>1 DEF Filled
<1>2. CASE Open(calls, t) # {}
  <2>1. Open(calls, t) \in SUBSET (1 .. Len(calls)) /\ Len(calls) \in Nat
    BY DEF Open
  <2>2. PICK k : k = Max(Open(calls, t))
    OBVIOUS
  <2>3. k \in Open(calls, t) /\ \A j \in Open(calls, t) : j <= k
    BY <1>2, <2>1, <2>2, MaxOf
  <2>4. Filled(calls, t, o) = [calls EXCEPT ![k] = [calls[k] EXCEPT !.output = o]]
    BY <1>2, <2>2 DEF Filled
  <2>5. k \in 1 .. Len(calls) /\ [calls[k] EXCEPT !.output = o] \in ToolCall
    <3>1. k \in 1 .. Len(calls) /\ calls[k] \in ToolCall
      BY <2>1, <2>3
    <3> QED
      BY <3>1 DEF ToolCall
  <2>6. Filled(calls, t, o) \in Seq(ToolCall) /\ Len(Filled(calls, t, o)) = Len(calls)
    BY <2>4, <2>5
  <2>7. ASSUME NEW j \in DOMAIN calls
        PROVE  /\ Filled(calls, t, o)[j].name = calls[j].name
               /\ Filled(calls, t, o)[j].output = IF j = k THEN o ELSE calls[j].output
    <3>1. calls[j] \in ToolCall
      OBVIOUS
    <3> QED
      BY <2>4, <2>5, <3>1 DEF ToolCall
  <2> QED
    BY <1>2, <2>3, <2>6, <2>7
<1> QED
  BY <1>1, <1>2

\* Outputs that are taken for granted.
LEMMA GrantedCalls ==
  ASSUME NEW calls \in Seq(ToolCall)
  PROVE  /\ Granted(calls) \in Seq(ToolCall) /\ Len(Granted(calls)) = Len(calls)
         /\ \A j \in DOMAIN calls :
              /\ Granted(calls)[j].name = calls[j].name
              /\ Granted(calls)[j].output = IF calls[j].output = NoOutput THEN Completed ELSE calls[j].output
<1>1. Granted(calls) = [i \in 1 .. Len(calls) |-> [calls[i] EXCEPT !.output = IF @ = NoOutput THEN Completed ELSE @]]
  BY DEF Granted
<1>2. \A i \in 1 .. Len(calls) : calls[i] \in ToolCall
  OBVIOUS
<1>3. ASSUME NEW i \in 1 .. Len(calls), NEW o \in Int
      PROVE  LET c == [calls[i] EXCEPT !.output = o] IN c \in ToolCall /\ c.name = calls[i].name /\ c.output = o
  BY <1>2 DEF ToolCall
<1>4. \A i \in 1 .. Len(calls) : (IF calls[i].output = NoOutput THEN Completed ELSE calls[i].output) \in Int
  BY <1>2 DEF ToolCall, Completed
<1>5. PICK g : g = Granted(calls)
  OBVIOUS
<1>6. \A i \in 1 .. Len(calls) :
        /\ g[i] \in ToolCall /\ g[i].name = calls[i].name
        /\ g[i].output = IF calls[i].output = NoOutput THEN Completed ELSE calls[i].output
  <2> SUFFICES ASSUME NEW i \in 1 .. Len(calls)
               PROVE  /\ g[i] \in ToolCall /\ g[i].name = calls[i].name
                      /\ g[i].output = IF calls[i].output = NoOutput THEN Completed ELSE calls[i].output
    OBVIOUS
  <2>1. PICK o : o = IF calls[i].output = NoOutput THEN Completed ELSE calls[i].output
    OBVIOUS
  <2>2. g[i] = [calls[i] EXCEPT !.output = o]
    BY <1>1, <1>5, <2>1
  <2>3. o \in Int
    BY <1>4, <2>1
  <2> QED
    BY <1>3, <2>1, <2>2, <2>3
<1>7. g \in [1 .. Len(calls) -> ToolCall]
  BY <1>1, <1>5, <1>6
<1> QED
  BY <1>5, <1>6, <1>7

\* The page and the route put the same result to the same call, or the page has taken
\* its output for granted.
LEMMA ResultsAgree ==
  ASSUME NEW shown \in Seq(ToolCall), NEW calls \in Seq(ToolCall), NEW t \in Tools, NEW o \in Nat \ {0},
         SameCalls(shown, calls), LatestOpen(shown)
  PROVE  SameCalls(Filled(shown, t, o), Filled(calls, t, o)) /\ LatestOpen(Filled(shown, t, o))
<1> USE DEF NoOutput, Completed
<1>0. DOMAIN shown = DOMAIN calls /\ DOMAIN shown = 1 .. Len(shown)
  BY DEF SameCalls
<1>1. Open(shown, t) \subseteq Open(calls, t)
  BY <1>0 DEF Open, SameCalls
<1>2. \A k \in Open(shown, t) : k = Len(shown)
  BY DEF Open, LatestOpen
<1>3. /\ Filled(shown, t, o) \in Seq(ToolCall) /\ Len(Filled(shown, t, o)) = Len(shown)
      /\ Filled(calls, t, o) \in Seq(ToolCall) /\ Len(Filled(calls, t, o)) = Len(calls)
      /\ DOMAIN Filled(shown, t, o) = DOMAIN shown
  BY <1>0, FilledCalls
<1>4. CASE Open(calls, t) = {}
  <2>1. Open(shown, t) = {}
    BY <1>1, <1>4
  <2> QED
    BY <1>4, <2>1, FilledCalls
<1>5. CASE Open(shown, t) = {} /\ Open(calls, t) # {}
  <2>1. Filled(shown, t, o) = shown
    BY <1>5, FilledCalls
  <2>2. PICK k \in Open(calls, t) :
          \A j \in DOMAIN calls : /\ Filled(calls, t, o)[j].name = calls[j].name
                                  /\ Filled(calls, t, o)[j].output = IF j = k THEN o ELSE calls[j].output
    BY <1>5, FilledCalls
  <2>3. k \in DOMAIN shown /\ shown[k].output = Completed
    BY <1>0, <1>5, <2>2 DEF Open, SameCalls
  <2> QED
    BY <1>0, <1>3, <2>1, <2>2, <2>3 DEF SameCalls
<1>6. CASE Open(shown, t) # {}
  <2>1. PICK k \in Open(shown, t) :
          \A j \in DOMAIN shown : /\ Filled(shown, t, o)[j].name = shown[j].name
                                  /\ Filled(shown, t, o)[j].output = IF j = k THEN o ELSE shown[j].output
    BY <1>6, FilledCalls
  <2>2. PICK l \in Open(calls, t) :
          /\ \A j \in Open(calls, t) : j <= l
          /\ \A j \in DOMAIN calls : /\ Filled(calls, t, o)[j].name = calls[j].name
                                     /\ Filled(calls, t, o)[j].output = IF j = l THEN o ELSE calls[j].output
    BY <1>1, <1>6, FilledCalls
  <2>3. k = Len(shown) /\ k \in 1 .. Len(shown) /\ l \in 1 .. Len(shown) /\ k <= l
    BY <1>0, <1>1, <1>2, <2>1, <2>2 DEF Open
  <2>4. k = l
    BY <2>3
  <2> QED
    BY <1>0, <1>3, <2>1, <2>2, <2>4 DEF SameCalls, LatestOpen
<1> QED
  BY <1>4, <1>5, <1>6

-------------------------------------------------------------------------------
(* Events *)

\* What an event does to a message.
LEMMA AppliedReply ==
  ASSUME NEW m \in Replies, NEW e \in Events
  PROVE  /\ Applied(e, m) \in Replies
         /\ Applied(e, m).of = m.of /\ Applied(e, m).role = m.role /\ Applied(e, m).live = m.live
         /\ e.kind \in {"system", "text", "text_delta", "tool_use", "tool_result"} =>
              Applied(e, m).streaming = m.streaming /\ Applied(e, m).usage = m.usage
         /\ e.kind = "result" => /\ ~Applied(e, m).streaming
                                 /\ Applied(e, m).text = m.text /\ Applied(e, m).calls = m.calls
         /\ e.kind \in {"error", "done"} => Applied(e, m) = [m EXCEPT !.streaming = FALSE]
<1>0. m.text \in Seq(Nat) /\ m.calls \in Seq(ToolCall) /\ Granted(m.calls) \in Seq(ToolCall)
  BY GrantedCalls DEF Replies
<1>1. CASE e.kind = "system"
  BY <1>1 DEF Applied
<1>2. CASE e.kind = "text"
  <2>1. Applied(e, m) = [m EXCEPT !.text = <<e.block>>, !.calls = Granted(m.calls)] /\ e.block \in Nat
    BY <1>2 DEF Applied, FullText, Events
  <2>2. <<e.block>> \in Seq(Nat)
    BY <2>1
  <2> QED
    BY <1>0, <1>2, <2>1, <2>2 DEF Replies
<1>3. CASE e.kind = "text_delta"
  <2>1. Applied(e, m) = [m EXCEPT !.text = Append(m.text, e.block)] /\ e.block \in Nat
    BY <1>3 DEF Applied, Events
  <2>2. Append(m.text, e.block) \in Seq(Nat)
    BY <1>0, <2>1
  <2> QED
    BY <1>3, <2>1, <2>2 DEF Replies
<1>4. CASE e.kind = "tool_use"
  <2>1. /\ Applied(e, m) = [m EXCEPT !.calls = Append(Granted(m.calls), [name |-> e.name, output |-> NoOutput])]
        /\ [name |-> e.name, output |-> NoOutput] \in ToolCall
    BY <1>4 DEF Applied, Events, ToolCall, NoOutput
  <2>2. Append(Granted(m.calls), [name |-> e.name, output |-> NoOutput]) \in Seq(ToolCall)
    BY <1>0, <2>1
  <2> QED
    BY <1>4, <2>1, <2>2 DEF Replies
<1>5. CASE e.kind = "tool_result"
  <2>1. Applied(e, m) = [m EXCEPT !.calls = Filled(m.calls, e.name, e.output)] /\ e.name \in Tools /\ e.output \in Int
    BY <1>5 DEF Applied, Events
  <2>2. Filled(m.calls, e.name, e.output) \in Seq(ToolCall)
    BY <1>0, <2>1, FilledCalls
  <2> QED
    BY <1>5, <2>1, <2>2 DEF Replies
<1>6. CASE e.kind \in {"result", "error", "done"}
  BY <1>6 DEF Applied, Stopped, Replies
<1> QED
  BY <1>1, <1>2, <1>3, <1>4, <1>5, <1>6 DEF Events

\* Rows of reply s are neither added nor changed.
RowsKept(s) ==
  \A j \in DOMAIN stored' : stored'[j].role = "agent" /\ stored'[j].of = s =>
    j \in DOMAIN stored /\ stored'[j] = stored[j]

\* A message that matched still does, and so does one with the same text and calls.
LEMMA StillMatches ==
  ASSUME NEW s \in Sends, NEW m, NEW n, Matches(s, m, handler[s], stored), RowsKept(s), n.text = m.text, n.calls = m.calls,
         handler'[s].limited = handler[s].limited
  PROVE  Matches(s, n, handler'[s], stored')
BY DEF Matches, RowsKept, SameCalls

\* Nothing that concerns reply s changes.
LEMMA StillArrives ==
  ASSUME NEW s \in Sends, NEW f, Arrives(s, f), RowsKept(s), handler'[s] = handler[s], wire'[s] = wire[s]
  PROVE  Arrives(s, f)'
<1>1. \A k \in 1 .. Len(wire[s]) + 1 : Matches(s, f[k], handler[s], stored) => Matches(s, f[k], handler'[s], stored')
  <2> SUFFICES ASSUME NEW k \in 1 .. Len(wire[s]) + 1, Matches(s, f[k], handler[s], stored) PROVE Matches(s, f[k], handler'[s], stored')
    OBVIOUS
  <2> QED
    BY StillMatches
<1> QED
  BY <1>1 DEF Arrives, Over, Agrees, FinalText

\* The message of a reply that goes on, and its next event.
LEMMA NextEvent ==
  ASSUME NEW s \in Sends, NEW e \in Events, NEW f, Arrives(s, f),
         wire[s] \in Seq(Events), wire'[s] = Append(wire[s], e),
         handler[s].phase # "none",
         Over(s) => /\ Over(s)' /\ e.kind \in {"error", "done"} /\ RowsKept(s)
                    /\ handler'[s].limited = handler[s].limited,
         NEW n, n = Applied(e, f[Len(wire[s]) + 1]),
         n.usage => ~n.streaming /\ Matches(s, n, handler'[s], stored'),
         ~n.streaming => Over(s)',
         handler'[s].phase \in {"sent", "open"} => Agrees(handler'[s], n)
  PROVE  \E g : g[1] = f[1] /\ Arrives(s, g)'
<1> DEFINE L == Len(wire[s])
           g == [k \in 1 .. L + 2 |-> IF k = L + 2 THEN Applied(e, f[L + 1]) ELSE f[k]]
<1>1. /\ L \in Nat /\ Len(wire'[s]) = L + 1 /\ wire'[s][L + 1] = e
      /\ \A k \in 1 .. L : wire'[s][k] = wire[s][k]
  OBVIOUS
<1>2. /\ f \in [1 .. L + 1 -> Replies]
      /\ \A k \in 1 .. L : f[k + 1] = Applied(wire[s][k], f[k])
  BY DEF Arrives
<1>3. Applied(e, f[L + 1]) \in Replies
  <2>1. f[L + 1] \in Replies
    BY <1>1, <1>2
  <2> QED
    BY <2>1, AppliedReply
<1>4. PICK h : h = g
  OBVIOUS
<1>5. PICK M : M = L
  OBVIOUS
<1>6. /\ h \in [1 .. M + 2 -> Replies] /\ M \in Nat
      /\ h[M + 2] = Applied(e, f[M + 1]) /\ \A k \in 1 .. M + 1 : h[k] = f[k]
  BY <1>1, <1>2, <1>3, <1>4, <1>5
<1> HIDE DEF g
<1>7. \A k \in 1 .. Len(wire'[s]) : h[k + 1] = Applied(wire'[s][k], h[k])
  BY <1>1, <1>2, <1>5, <1>6
<1>8. ASSUME NEW k \in 1 .. M + 1
      PROVE  /\ h[k].usage => ~h[k].streaming /\ Matches(s, h[k], handler'[s], stored')
             /\ ~h[k].streaming =>
                  Over(s)' /\ \A l \in k .. M + 1 : wire'[s][l].kind \in {"error", "done"}
  <2>1. /\ f[k].usage => ~f[k].streaming /\ Matches(s, f[k], handler[s], stored)
        /\ ~f[k].streaming => Over(s) /\ \A l \in k .. M : wire[s][l].kind \in {"error", "done"}
    BY <1>5 DEF Arrives
  <2>2. f[k].usage => Matches(s, f[k], handler'[s], stored')
    BY <2>1, StillMatches
  <2>3. ~f[k].streaming => \A l \in k .. M + 1 : wire'[s][l].kind \in {"error", "done"}
    BY <1>1, <1>5, <1>6, <2>1
  <2> QED
    BY <1>6, <2>1, <2>2, <2>3
<1>9. /\ h[M + 2].usage => ~h[M + 2].streaming /\ Matches(s, h[M + 2], handler'[s], stored')
      /\ ~h[M + 2].streaming => Over(s)'
      /\ \A l \in M + 2 .. M + 1 : wire'[s][l].kind \in {"error", "done"}
  <2>1. n = h[M + 2]
    BY <1>5, <1>6
  <2> QED
    BY <1>6, <2>1
<1>10. handler'[s].phase \in {"sent", "open"} => Agrees(handler'[s], h[Len(wire'[s]) + 1])
  BY <1>1, <1>5, <1>6
<1>11. Arrives(s, h)'
  <2>1. Len(wire'[s]) = M + 1 /\ M \in Nat
    BY <1>1, <1>5
  <2>2. h \in [1 .. Len(wire'[s]) + 1 -> Replies]
    BY <1>6, <2>1
  <2>3. ASSUME NEW k \in 1 .. Len(wire'[s]) + 1
        PROVE  /\ h[k].usage => ~h[k].streaming /\ Matches(s, h[k], handler'[s], stored')
               /\ ~h[k].streaming =>
                    Over(s)' /\ \A l \in k .. Len(wire'[s]) : wire'[s][l].kind \in {"error", "done"}
    <3>1. k \in 1 .. M + 1 \/ k = M + 2
      BY <2>1
    <3> QED
      BY <1>8, <1>9, <2>1, <3>1
  <2> QED
    BY <1>7, <1>10, <2>2, <2>3 DEF Arrives
<1>12. h[1] = f[1]
  BY <1>6
<1> QED
  BY <1>11, <1>12


\* What a message is when everything under way has arrived.
Follows(s, m, h, loaded) ==
  /\ h.phase \in {"sent", "open"} => Agrees(h, m)
  /\ m.usage => ~m.streaming /\ Matches(s, m, h, loaded)
  /\ ~m.streaming => h.phase \in {"told", "raised", "ended"}

\* The route goes one step further with reply s and tells the stream e.
ReplyStep(s, e) ==
  /\ e \in Events /\ Emit(s, e) /\ UNCHANGED page
  /\ handler' \in [Sends -> Handlers] /\ handler'[s].due \subseteq DOMAIN handler'[s].calls
  /\ stored' \in Seq(StoredRows)
  /\ \A r \in Sends \ {s} : handler'[r] = handler[r] /\ RowsKept(r)
  /\ handler[s].phase # "none" /\ handler'[s].phase \notin {"none", "sent"}
  /\ Over(s) => /\ Over(s)' /\ e.kind \in {"error", "done"} /\ RowsKept(s)
                /\ handler'[s].limited = handler[s].limited
  /\ RowsKept(s) \/ Over(s)'
  /\ \A m \in Replies : Follows(s, m, handler[s], stored) => Follows(s, Applied(e, m), handler'[s], stored')

\* What was put together and what is shown go on alike.
LEMMA ReplyGoesOn ==
  ASSUME LInv, NEW s \in Sends, NEW e, ReplyStep(s, e)
  PROVE  LInv'
<1> USE DEF ReplyStep
<1>1. /\ wire \in [Sends -> Seq(Events)] /\ reading \subseteq Sends /\ stored \in Seq(StoredRows)
      /\ wire' = IF s \in reading THEN [wire EXCEPT ![s] = Append(@, e)] ELSE wire
  BY DEF LInv, TranscriptTypes, Emit
<1>2. TranscriptTypes'
  <2>1. wire' \in [Sends -> Seq(Events)]
    BY <1>1
  <2> QED
    BY <2>1 DEF LInv, TranscriptTypes, page
<1>3. LiveMessages'
  <2> SUFFICES ASSUME NEW i \in Nat, i \in DOMAIN transcript
               PROVE  /\ transcript[i].live => transcript[i] \in Replies /\ handler'[transcript[i].of].phase # "none"
                      /\ transcript[i].usage =>
                           /\ transcript[i].live /\ transcript[i].role = "agent"
                           /\ Over(transcript[i].of)' /\ Matches(transcript[i].of, transcript[i], handler'[transcript[i].of], stored')
    <3>1. transcript' = transcript /\ DOMAIN transcript \subseteq Nat
      BY DEF page, LInv, TranscriptTypes
    <3> QED
      BY <3>1 DEF LiveMessages
  <2>1. PICK m, r : m = transcript[i] /\ r = transcript[i].of
    OBVIOUS
  <2>2. /\ m.live => m \in Replies /\ handler[r].phase # "none" /\ r = m.of
        /\ m.usage => m.live /\ m.role = "agent" /\ Over(r) /\ Matches(r, m, handler[r], stored)
    BY <2>1 DEF LInv, LiveMessages
  <2>3. m.live => r \in Sends /\ handler'[r].phase # "none"
    BY <2>2 DEF Replies
  <2>4. m.usage => Over(r)' /\ RowsKept(r) /\ handler'[r].limited = handler[r].limited
    BY <2>2, <2>3 DEF Over
  <2>5. m.usage => Matches(r, m, handler'[r], stored')
    BY <2>2, <2>3, <2>4, StillMatches
  <2>6. transcript' = transcript
    BY DEF page
  <2> QED
    BY <2>1, <2>2, <2>3, <2>4, <2>5, <2>6
<1>4. OneOfEach'
  BY DEF LInv, OneOfEach, page
<1>5. RowsAtTheEnd'
  <2>1. \A j \in DOMAIN stored' : j \in Nat /\ stored'[j].of \in Sends
    <3>1. \A j \in DOMAIN stored' : j \in Nat /\ stored'[j] \in StoredRows
      OBVIOUS
    <3> QED
      BY <3>1 DEF StoredRows
  <2>2. ASSUME NEW j \in Nat, j \in DOMAIN stored', stored'[j].role = "agent",
               NEW r \in Sends, r = stored'[j].of
        PROVE  Over(r)'
    <3>1. RowsKept(r) => Over(r)
      BY <2>2 DEF RowsKept, LInv, RowsAtTheEnd
    <3> QED
      BY <3>1 DEF Over
  <2> QED
    BY <2>1, <2>2 DEF RowsAtTheEnd, Over
<1>6. NothingBefore'
  BY <1>1 DEF LInv, NothingBefore, page
<1>7. InTransit'
  <2> SUFFICES ASSUME NEW r \in Sends, r \in reading, NEW i \in DOMAIN transcript, IsReply(r, i)
               PROVE  \E f : f[1] = transcript[i] /\ Arrives(r, f)'
    BY <1>1 DEF InTransit, IsReply, page
  <2>1. PICK f : f[1] = transcript[i] /\ Arrives(r, f)
    BY DEF LInv, InTransit
  <2>2. CASE r # s
    <3>1. Arrives(r, f)'
      BY <1>1, <2>1, <2>2, StillArrives
    <3> QED
      BY <2>1, <3>1
  <2>3. CASE r = s
    <3>1. /\ wire'[s] = Append(wire[s], e) /\ Len(wire[s]) \in Nat
          /\ f[Len(wire[s]) + 1] \in Replies /\ wire[s] \in Seq(Events)
      BY <1>1, <2>1, <2>3 DEF Arrives
    <3>2. PICK m : m = f[Len(wire[s]) + 1]
      OBVIOUS
    <3>3. Follows(s, m, handler[s], stored)
      BY <2>1, <2>3, <3>1, <3>2 DEF Arrives, Follows, Over
    <3>4. PICK n : n = Applied(e, m)
      OBVIOUS
    <3>5. Follows(s, n, handler'[s], stored')
      BY <3>1, <3>2, <3>3, <3>4
    <3>6. \E g : g[1] = f[1] /\ Arrives(s, g)'
      BY <2>1, <2>3, <3>1, <3>2, <3>4, <3>5, NextEvent DEF Follows, Over
    <3> QED
      BY <2>1, <2>3, <3>6
  <2> QED
    BY <2>2, <2>3
<1> QED
  BY <1>2, <1>3, <1>4, <1>5, <1>6, <1>7 DEF LInv


\* What the types say of one reply.
LEMMA HandlerTypes ==
  ASSUME LInv, NEW s \in Sends
  PROVE  /\ handler[s] \in Handlers /\ handler \in [Sends -> Handlers] /\ stored \in Seq(StoredRows)
         /\ handler[s].text \in Seq(Nat) /\ handler[s].calls \in Seq(ToolCall) /\ handler[s].last \in Nat
         /\ handler[s].due \in SUBSET Nat /\ handler[s].due \subseteq DOMAIN handler[s].calls
         /\ s \in Int /\ s \in Nat /\ handler[s].thread \in Int
<1>1. handler[s] \in Handlers /\ handler \in [Sends -> Handlers] /\ stored \in Seq(StoredRows)
      /\ handler[s].due \subseteq DOMAIN handler[s].calls
  BY DEF LInv, TranscriptTypes
<1>2. s \in Nat
  BY DEF Sends
<1> QED
  BY <1>1, <1>2 DEF Handlers

\* The request is handled.
LEMMA HandledIsReplyStep ==
  ASSUME LInv, NEW s \in Sends, HandleMessage(s)
  PROVE  \E e : ReplyStep(s, e)
<1>0. PICK h : h = handler[s]
  OBVIOUS
<1>1. /\ h \in Handlers /\ handler \in [Sends -> Handlers] /\ h.due \subseteq DOMAIN h.calls
      /\ stored \in Seq(StoredRows) /\ s \in Int /\ h.thread \in Int
  BY <1>0, HandlerTypes
<1>2. PICK e, t : t = (IF h.thread = None THEN s ELSE h.thread) /\ e = [kind |-> "system", thread |-> t]
  OBVIOUS
<1>3. handler' = [handler EXCEPT ![s] = [h EXCEPT !.phase = "open", !.thread = t]]
  BY <1>0, <1>1, <1>2 DEF HandleMessage
<1>4. t \in Int /\ [h EXCEPT !.phase = "open", !.thread = t] \in Handlers
  BY <1>1, <1>2 DEF Handlers
<1>5. handler'[s] = [h EXCEPT !.phase = "open", !.thread = t] /\ handler'[s].thread = t
  BY <1>1, <1>3, <1>4 DEF Handlers
<1>6. /\ handler' \in [Sends -> Handlers] /\ \A r \in Sends \ {s} : handler'[r] = handler[r]
      /\ h.phase = "sent" /\ Emit(s, e) /\ UNCHANGED page
  BY <1>0, <1>1, <1>2, <1>3, <1>4, <1>5 DEF HandleMessage
<1>7. e \in Events
  BY <1>2, <1>4 DEF Events
<1>8. stored' = Append(stored, Row(s, "user", <<s>>, << >>)) /\ Row(s, "user", <<s>>, << >>) \in StoredRows
  <2>1. <<s>> \in Seq(Nat) /\ << >> \in Seq(ToolCall)
    BY DEF Sends
  <2>2. Row(s, "user", <<s>>, << >>) \in StoredRows
    BY <1>4, <1>5, <2>1 DEF Row, StoredRows
  <2> QED
    BY <2>2 DEF HandleMessage
<1>9. \A r \in Sends : RowsKept(r)
  BY <1>1, <1>8 DEF RowsKept, Row
<1>10. ASSUME NEW m \in Replies, Follows(s, m, handler[s], stored)
       PROVE  Follows(s, Applied(e, m), handler'[s], stored')
  <2>1. Applied(e, m) = m
    BY <1>2 DEF Applied
  <2>2. Follows(s, m, handler'[s], stored')
    BY <1>0, <1>1, <1>5, <1>6, <1>9, <1>10, StillMatches DEF Follows, Agrees, FinalText, Handlers
  <2> QED
    BY <2>1, <2>2
<1>11. handler'[s].due \subseteq DOMAIN handler'[s].calls /\ handler'[s].phase = "open"
  BY <1>1, <1>5 DEF Handlers
<1>12. stored' \in Seq(StoredRows)
  BY <1>1, <1>8
<1>13. ~Over(s) /\ handler[s].phase # "none" /\ handler'[s].phase \notin {"none", "sent"}
  BY <1>0, <1>6, <1>11 DEF Over
<1> QED
  BY <1>6, <1>7, <1>9, <1>10, <1>11, <1>12, <1>13 DEF ReplyStep

\* One turn of the loop: nothing is stored, and what was put together and what is shown
\* go on alike.
LEMMA TurnIsReplyStep ==
  ASSUME LInv, NEW s \in Sends, NEW n, NEW e \in Events, Step(s, n, e),
         n \in Handlers, n.due \subseteq DOMAIN n.calls,
         n.phase = handler[s].phase, n.limited = handler[s].limited,
         e.kind \in {"text", "text_delta", "tool_use", "tool_result"},
         \A m \in Replies : Agrees(handler[s], m) => Agrees(n, Applied(e, m))
  PROVE  ReplyStep(s, e)
<1>1. /\ handler[s] \in Handlers /\ handler \in [Sends -> Handlers] /\ stored \in Seq(StoredRows)
  BY HandlerTypes
<1>2. PICK o : o = [n EXCEPT !.steps = @ + 1]
  OBVIOUS
<1>3. /\ o \in Handlers /\ o.phase = n.phase /\ o.limited = n.limited /\ o.due = n.due
      /\ o.calls = n.calls /\ o.text = n.text /\ o.partial = n.partial /\ o.last = n.last
  BY <1>2 DEF Handlers
<1>4. /\ handler' = [handler EXCEPT ![s] = o] /\ handler[s].phase = "open"
      /\ Emit(s, e) /\ stored' = stored /\ UNCHANGED page
  BY <1>2 DEF Step
<1>5. /\ handler' \in [Sends -> Handlers] /\ handler'[s] = o
      /\ \A r \in Sends \ {s} : handler'[r] = handler[r]
  BY <1>1, <1>3, <1>4
<1>6. \A r \in Sends : RowsKept(r)
  BY <1>4 DEF RowsKept
<1>7. ASSUME NEW m \in Replies, Follows(s, m, handler[s], stored)
      PROVE  Follows(s, Applied(e, m), handler'[s], stored')
  <2>1. m.streaming /\ ~m.usage /\ Agrees(handler[s], m)
    BY <1>4, <1>7 DEF Follows, Replies
  <2>2. Applied(e, m).streaming = m.streaming /\ Applied(e, m).usage = m.usage
    BY AppliedReply
  <2>3. Agrees(o, Applied(e, m))
    BY <1>3, <2>1 DEF Agrees, FinalText
  <2> QED
    BY <1>5, <2>1, <2>2, <2>3 DEF Follows
<1>8. ~Over(s) /\ o.phase = "open"
  BY <1>3, <1>4 DEF Over
<1> QED
  BY <1>1, <1>3, <1>4, <1>5, <1>6, <1>7, <1>8 DEF ReplyStep

\* A block begins to come.
LEMMA TextDeltaIsReplyStep ==
  ASSUME LInv, NEW s \in Sends, TextDelta(s)
  PROVE  \E e : ReplyStep(s, e)
<1>0. PICK h, b : h = handler[s] /\ b = handler[s].last + 1
  OBVIOUS
<1>1. PICK n, e :
        /\ n = [h EXCEPT !.partial = TRUE, !.text = Append(h.text, b)]
        /\ e = [kind |-> "text_delta", block |-> b]
  OBVIOUS
<1>2. h \in Handlers /\ h.text \in Seq(Nat) /\ h.last \in Nat /\ h.due \subseteq DOMAIN h.calls
  BY <1>0, <1>1, HandlerTypes
<1>3. ~h.partial /\ Step(s, n, e)
  BY <1>0, <1>1 DEF TextDelta
<1>4. b \in Nat /\ Append(h.text, b) \in Seq(Nat)
  BY <1>0, <1>1, <1>2
<1>5. /\ n \in Handlers /\ n.due = h.due /\ n.calls = h.calls /\ n.partial
      /\ n.phase = h.phase /\ n.limited = h.limited
  BY <1>0, <1>1, <1>2, <1>4 DEF Handlers
<1>6. e \in Events /\ e.kind = "text_delta" /\ e.block = b
  BY <1>0, <1>1, <1>4 DEF Events
<1>7. ASSUME NEW m \in Replies, Agrees(h, m) PROVE Agrees(n, Applied(e, m))
  <2>1. Applied(e, m).calls = m.calls
    BY <1>6 DEF Applied, Replies
  <2> QED
    BY <1>5, <1>7, <2>1 DEF Agrees
<1> QED
  BY <1>0, <1>1, <1>2, <1>3, <1>5, <1>6, <1>7, TurnIsReplyStep

\* A block is complete.
LEMMA TextIsReplyStep ==
  ASSUME LInv, NEW s \in Sends, Text(s)
  PROVE  \E e : ReplyStep(s, e)
<1>0. PICK h, b : h = handler[s] /\ b = handler[s].last + 1
  OBVIOUS
<1>1. PICK n, e :
        /\ n = [h EXCEPT !.partial = FALSE, !.last = b]
        /\ e = [kind |-> "text", block |-> b]
  OBVIOUS
<1>2. h \in Handlers /\ h.calls \in Seq(ToolCall) /\ h.last \in Nat /\ h.due \subseteq DOMAIN h.calls
  BY <1>0, <1>1, HandlerTypes
<1>3. Step(s, n, e)
  BY <1>0, <1>1, <1>2 DEF Text, Handlers
<1>4. b \in Nat /\ b # 0
  BY <1>0, <1>1, <1>2
<1>5. /\ n \in Handlers /\ n.due = h.due /\ n.calls = h.calls /\ n.last = b
      /\ n.phase = h.phase /\ n.limited = h.limited
  BY <1>0, <1>1, <1>2, <1>4 DEF Handlers
<1>6. e \in Events /\ e.kind = "text" /\ e.block = b
  BY <1>0, <1>1, <1>4 DEF Events
<1>7. ASSUME NEW m \in Replies, Agrees(h, m) PROVE Agrees(n, Applied(e, m))
  <2>1. m.calls \in Seq(ToolCall) /\ SameCalls(m.calls, h.calls)
    BY <1>7 DEF Replies, Agrees
  <2>2. Applied(e, m).calls = Granted(m.calls) /\ Applied(e, m).text = <<b>>
    BY <1>6 DEF Applied, FullText, Replies
  <2>3. /\ Granted(m.calls) \in Seq(ToolCall) /\ Len(Granted(m.calls)) = Len(m.calls)
        /\ \A j \in DOMAIN m.calls :
             /\ Granted(m.calls)[j].name = m.calls[j].name
             /\ Granted(m.calls)[j].output = IF m.calls[j].output = NoOutput THEN Completed ELSE m.calls[j].output
    BY <2>1, GrantedCalls
  <2>4. PICK g : g = Granted(m.calls)
    OBVIOUS
  <2>5. SameCalls(g, h.calls) /\ LatestOpen(g)
    BY <1>2, <2>1, <2>3, <2>4 DEF SameCalls, LatestOpen, NoOutput, Completed
  <2> QED
    BY <1>4, <1>5, <2>2, <2>4, <2>5 DEF Agrees, FinalText
<1> QED
  BY <1>0, <1>1, <1>2, <1>3, <1>5, <1>6, <1>7, TurnIsReplyStep

\* A tool is called.
LEMMA ToolUseIsReplyStep ==
  ASSUME LInv, NEW s \in Sends, NEW t \in Tools, ToolUse(s, t)
  PROVE  \E e : ReplyStep(s, e)
<1>0. PICK h, c : h = handler[s] /\ c = [name |-> t, output |-> NoOutput]
  OBVIOUS
<1>1. PICK n, e :
        /\ n = [h EXCEPT !.calls = Append(h.calls, c), !.due = h.due \cup {Len(h.calls) + 1}]
        /\ e = [kind |-> "tool_use", name |-> t]
  OBVIOUS
<1>2. h \in Handlers /\ h.calls \in Seq(ToolCall) /\ h.due \subseteq DOMAIN h.calls /\ h.due \in SUBSET Nat
  BY <1>0, <1>1, HandlerTypes
<1>3. ~h.partial /\ Step(s, n, e)
  BY <1>0, <1>1, <1>2 DEF ToolUse, Handlers
<1>4. /\ c \in ToolCall /\ c.name = t /\ c.output = NoOutput
      /\ Append(h.calls, c) \in Seq(ToolCall) /\ h.due \cup {Len(h.calls) + 1} \in SUBSET Nat
      /\ h.due \cup {Len(h.calls) + 1} \subseteq DOMAIN Append(h.calls, c)
  <2>1. c \in ToolCall /\ c.name = t /\ c.output = NoOutput
    BY <1>0 DEF ToolCall, NoOutput
  <2>2. /\ Append(h.calls, c) \in Seq(ToolCall) /\ Len(h.calls) \in Nat
        /\ DOMAIN Append(h.calls, c) = 1 .. Len(h.calls) + 1 /\ DOMAIN h.calls = 1 .. Len(h.calls)
    BY <1>2, <2>1
  <2> QED
    BY <1>2, <2>1, <2>2
<1>5. /\ n \in Handlers /\ n.due = h.due \cup {Len(h.calls) + 1} /\ n.calls = Append(h.calls, c)
      /\ n.phase = h.phase /\ n.limited = h.limited /\ n.last = h.last /\ n.partial = h.partial
  BY <1>0, <1>1, <1>2, <1>4 DEF Handlers
<1>6. e \in Events /\ e.kind = "tool_use" /\ e.name = t
  BY <1>0, <1>1 DEF Events
<1>7. ASSUME NEW m \in Replies, Agrees(h, m) PROVE Agrees(n, Applied(e, m))
  <2>1. m.calls \in Seq(ToolCall) /\ SameCalls(m.calls, h.calls)
    BY <1>7 DEF Replies, Agrees
  <2>2. Applied(e, m).calls = Append(Granted(m.calls), c) /\ Applied(e, m).text = m.text
    BY <1>0, <1>1, <1>6 DEF Applied, Replies
  <2>3. /\ Granted(m.calls) \in Seq(ToolCall) /\ Len(Granted(m.calls)) = Len(m.calls)
        /\ \A j \in DOMAIN m.calls :
             /\ Granted(m.calls)[j].name = m.calls[j].name
             /\ Granted(m.calls)[j].output = IF m.calls[j].output = NoOutput THEN Completed ELSE m.calls[j].output
    BY <2>1, GrantedCalls
  <2>4. PICK g, shown, calls : g = Granted(m.calls) /\ shown = Append(g, c) /\ calls = Append(h.calls, c)
    OBVIOUS
  <2>5. /\ Len(shown) = Len(m.calls) + 1 /\ Len(calls) = Len(h.calls) + 1 /\ Len(m.calls) = Len(h.calls)
        /\ DOMAIN shown = 1 .. Len(h.calls) + 1 /\ Len(h.calls) \in Nat
        /\ \A j \in 1 .. Len(h.calls) : shown[j] = g[j] /\ calls[j] = h.calls[j]
        /\ shown[Len(h.calls) + 1] = c /\ calls[Len(h.calls) + 1] = c
    BY <1>2, <1>4, <2>1, <2>3, <2>4 DEF SameCalls
  <2>6. \A j \in 1 .. Len(h.calls) :
          /\ g[j].name = h.calls[j].name /\ g[j].output \in {h.calls[j].output, Completed}
          /\ g[j].output # NoOutput
    <3>1. DOMAIN m.calls = 1 .. Len(h.calls) /\ NoOutput # Completed
      BY <2>1 DEF SameCalls, NoOutput, Completed
    <3> QED
      BY <2>1, <2>3, <2>4, <3>1 DEF SameCalls
  <2>7. SameCalls(shown, calls) /\ LatestOpen(shown)
    BY <2>5, <2>6 DEF SameCalls, LatestOpen
  <2> QED
    BY <1>3, <1>5, <1>7, <2>2, <2>4, <2>7 DEF Agrees, FinalText
<1>8. n.due \subseteq DOMAIN n.calls
  BY <1>4, <1>5
<1> QED
  BY <1>0, <1>1, <1>3, <1>5, <1>6, <1>7, <1>8, TurnIsReplyStep

\* A result comes.
LEMMA ToolResultIsReplyStep ==
  ASSUME LInv, NEW s \in Sends, NEW i, ToolResult(s, i)
  PROVE  \E e : ReplyStep(s, e)
<1>0. PICK h, t : h = handler[s] /\ t = handler[s].calls[i].name
  OBVIOUS
<1>1. PICK n, e :
        /\ n = [h EXCEPT !.calls = Filled(h.calls, t, i), !.due = h.due \ {i}]
        /\ e = [kind |-> "tool_result", name |-> t, output |-> i]
  OBVIOUS
<1>2. h \in Handlers /\ h.calls \in Seq(ToolCall) /\ h.due \subseteq DOMAIN h.calls /\ h.due \in SUBSET Nat
  BY <1>0, <1>1, HandlerTypes
<1>3. i \in h.due /\ ~h.partial /\ Step(s, n, e)
  BY <1>0, <1>1, <1>2 DEF ToolResult, Handlers
<1>4. t \in Tools /\ i \in Nat \ {0}
  <2>1. i \in 1 .. Len(h.calls) /\ h.calls[i] \in ToolCall
    BY <1>2, <1>3
  <2> QED
    BY <1>0, <1>1, <2>1 DEF ToolCall
<1>5. Filled(h.calls, t, i) \in Seq(ToolCall) /\ Len(Filled(h.calls, t, i)) = Len(h.calls)
  BY <1>2, <1>4, FilledCalls
<1>6. /\ n \in Handlers /\ n.due = h.due \ {i} /\ n.calls = Filled(h.calls, t, i)
      /\ n.phase = h.phase /\ n.limited = h.limited /\ n.last = h.last /\ n.partial = h.partial
  BY <1>0, <1>1, <1>2, <1>5 DEF Handlers
<1>7. e \in Events /\ e.kind = "tool_result" /\ e.name = t /\ e.output = i
  BY <1>0, <1>1, <1>4 DEF Events
<1>8. ASSUME NEW m \in Replies, Agrees(h, m) PROVE Agrees(n, Applied(e, m))
  <2>1. m.calls \in Seq(ToolCall) /\ SameCalls(m.calls, h.calls) /\ LatestOpen(m.calls)
    BY <1>8 DEF Replies, Agrees
  <2>2. Applied(e, m).calls = Filled(m.calls, t, i) /\ Applied(e, m).text = m.text
    BY <1>7 DEF Applied, Replies
  <2>3. SameCalls(Filled(m.calls, t, i), Filled(h.calls, t, i)) /\ LatestOpen(Filled(m.calls, t, i))
    BY <1>2, <1>4, <2>1, ResultsAgree
  <2> QED
    BY <1>3, <1>6, <1>8, <2>2, <2>3 DEF Agrees, FinalText
<1>9. n.due \subseteq DOMAIN n.calls
  BY <1>2, <1>5, <1>6
<1> QED
  BY <1>0, <1>1, <1>3, <1>6, <1>7, <1>8, <1>9, TurnIsReplyStep

\* The result: what is stored of the reply, if anything, is what was put together.
LEMMA ResultIsReplyStep ==
  ASSUME LInv, NEW s \in Sends, Result(s)
  PROVE  \E e : ReplyStep(s, e)
<1>0. PICK h : h = handler[s]
  OBVIOUS
<1>1. /\ h \in Handlers /\ handler \in [Sends -> Handlers] /\ h.due \subseteq DOMAIN h.calls
      /\ stored \in Seq(StoredRows) /\ h.thread \in Int /\ h.calls \in Seq(ToolCall)
      /\ h.text \in Seq(Nat) /\ h.last \in Nat
  BY <1>0, HandlerTypes
<1>2. PICK ok \in BOOLEAN :
        /\ ok => ~h.partial
        /\ handler' = [handler EXCEPT ![s].phase = "told", ![s].limited = ~ok]
        /\ Persist(s, FinalText(h, ok))
  BY <1>0 DEF Result
<1>3. PICK n, e : n = [h EXCEPT !.phase = "told", !.limited = ~ok] /\ e = [kind |-> "result"]
  OBVIOUS
<1>4. /\ n \in Handlers /\ n.phase = "told" /\ n.limited = ~ok /\ n.thread = h.thread
      /\ n.due = h.due /\ n.calls = h.calls
  BY <1>1, <1>3 DEF Handlers
<1>5. handler' = [handler EXCEPT ![s] = n]
  BY <1>0, <1>1, <1>2, <1>3 DEF Handlers
<1>6. /\ handler' \in [Sends -> Handlers] /\ handler'[s] = n
      /\ \A r \in Sends \ {s} : handler'[r] = handler[r]
  BY <1>1, <1>4, <1>5
<1>7. e \in Events /\ e.kind = "result" /\ Emit(s, e) /\ UNCHANGED page /\ h.phase = "open"
  BY <1>0, <1>3 DEF Events, Result
<1>8. PICK row : row = Row(s, "agent", FinalText(h, ok), h.calls)
  OBVIOUS
<1>9. /\ row \in StoredRows /\ row.of = s /\ row.text = FinalText(h, ok) /\ row.calls = h.calls
  <2>1. FinalText(h, ok) \in Seq(Nat)
    <3>1. <<h.last>> \in Seq(Nat) /\ << >> \in Seq(Nat)
      BY <1>1
    <3> QED
      BY <1>1, <3>1 DEF FinalText
  <2> QED
    BY <1>1, <1>4, <1>6, <1>8, <2>1 DEF Row, StoredRows
<1>10. stored' = stored \/ stored' = Append(stored, row)
  BY <1>0, <1>2, <1>8 DEF Persist
<1>11. \A j \in DOMAIN stored : stored[j].role = "agent" => stored[j].of # s
  BY <1>0, <1>7 DEF LInv, RowsAtTheEnd, Over
<1>12. /\ stored' \in Seq(StoredRows)
       /\ \A j \in DOMAIN stored' : (j \in DOMAIN stored /\ stored'[j] = stored[j]) \/ stored'[j] = row
  <2>1. CASE stored' = stored
    BY <1>1, <2>1
  <2>2. CASE stored' = Append(stored, row)
    <3>1. /\ stored' \in Seq(StoredRows) /\ Len(stored) \in Nat /\ DOMAIN stored = 1 .. Len(stored)
          /\ DOMAIN stored' = 1 .. Len(stored) + 1
          /\ \A j \in 1 .. Len(stored) : stored'[j] = stored[j]
          /\ stored'[Len(stored) + 1] = row
      BY <1>1, <1>9, <2>2
    <3> QED
      BY <3>1
  <2> QED
    BY <1>10, <2>1, <2>2
<1>13. \A r \in Sends \ {s} : RowsKept(r)
  BY <1>9, <1>12 DEF RowsKept
<1>14. ASSUME NEW m \in Replies, Follows(s, m, handler[s], stored)
       PROVE  Follows(s, Applied(e, m), handler'[s], stored')
  <2>1. /\ ~Applied(e, m).streaming /\ Applied(e, m).text = m.text /\ Applied(e, m).calls = m.calls
    BY <1>7, AppliedReply
  <2>2. Agrees(h, m)
    BY <1>0, <1>7, <1>14 DEF Follows
  <2>3. n.limited \/ m.text = row.text
    BY <1>2, <1>4, <1>9, <2>2 DEF Agrees, FinalText
  <2>4. Matches(s, Applied(e, m), n, stored')
    BY <1>9, <1>11, <1>12, <2>1, <2>2, <2>3 DEF Matches, Agrees
  <2> QED
    BY <1>4, <1>6, <2>1, <2>4 DEF Follows
<1>15. ~Over(s) /\ Over(s)'
  BY <1>0, <1>4, <1>6, <1>7 DEF Over
<1> QED
  BY <1>0, <1>1, <1>4, <1>6, <1>7, <1>12, <1>13, <1>14, <1>15 DEF ReplyStep

\* Nothing is stored any more, and what is shown only stops streaming.
LEMMA EndIsReplyStep ==
  ASSUME LInv, NEW s \in Sends, NEW n \in Handlers, NEW e \in Events,
         handler' = [handler EXCEPT ![s] = n], stored' = stored, Emit(s, e), UNCHANGED page,
         e.kind \in {"error", "done"}, handler[s].phase \in {"open", "told", "raised"},
         n.phase \in {"raised", "ended"}, n.limited = handler[s].limited, n.due \subseteq DOMAIN n.calls
  PROVE  ReplyStep(s, e)
<1>1. /\ handler \in [Sends -> Handlers] /\ stored \in Seq(StoredRows)
  BY HandlerTypes
<1>2. /\ handler' \in [Sends -> Handlers] /\ handler'[s] = n
      /\ \A r \in Sends \ {s} : handler'[r] = handler[r]
  BY <1>1
<1>3. \A r \in Sends : RowsKept(r)
  BY DEF RowsKept
<1>4. ASSUME NEW m \in Replies, Follows(s, m, handler[s], stored)
      PROVE  Follows(s, Applied(e, m), handler'[s], stored')
  <2>1. Applied(e, m) = [m EXCEPT !.streaming = FALSE]
    BY AppliedReply
  <2>2. /\ ~Applied(e, m).streaming /\ Applied(e, m).text = m.text /\ Applied(e, m).calls = m.calls
        /\ Applied(e, m).usage = m.usage
    BY <2>1 DEF Replies
  <2>3. m.usage => Matches(s, m, handler[s], stored)
    BY <1>4 DEF Follows
  <2>4. m.usage => Matches(s, Applied(e, m), handler'[s], stored')
    BY <1>2, <1>3, <2>2, <2>3, StillMatches
  <2> QED
    BY <1>2, <2>2, <2>4 DEF Follows
<1>5. Over(s)'
  BY <1>2 DEF Over
<1> QED
  BY <1>1, <1>2, <1>3, <1>4, <1>5 DEF ReplyStep

\* The query raised.
LEMMA RaiseIsReplyStep ==
  ASSUME LInv, NEW s \in Sends, Raise(s)
  PROVE  \E e : ReplyStep(s, e)
<1>0. PICK n, e : n = [handler[s] EXCEPT !.phase = "raised"] /\ e = [kind |-> "error"]
  OBVIOUS
<1>1. handler[s] \in Handlers /\ handler[s].due \subseteq DOMAIN handler[s].calls
  BY HandlerTypes
<1>2. n \in Handlers /\ n.phase = "raised" /\ n.limited = handler[s].limited /\ n.due \subseteq DOMAIN n.calls
  BY <1>0, <1>1 DEF Handlers
<1>3. e \in Events /\ e.kind = "error"
  BY <1>0 DEF Events
<1>4. /\ handler' = [handler EXCEPT ![s] = n] /\ stored' = stored /\ Emit(s, e) /\ UNCHANGED page
      /\ handler[s].phase \in {"open", "told", "raised"}
  BY <1>0 DEF Raise
<1> QED
  BY <1>2, <1>3, <1>4, EndIsReplyStep

\* The stream is told that it is done.
LEMMA FinishIsReplyStep ==
  ASSUME LInv, NEW s \in Sends, Finish(s)
  PROVE  \E e : ReplyStep(s, e)
<1>0. PICK n, e : n = Local("ended", None, handler[s].limited) /\ e = [kind |-> "done"]
  OBVIOUS
<1>1. handler[s] \in Handlers
  BY HandlerTypes
<1>2. n \in Handlers /\ n.phase = "ended" /\ n.limited = handler[s].limited /\ n.due \subseteq DOMAIN n.calls
  <2>1. << >> \in Seq(Nat) /\ << >> \in Seq(ToolCall) /\ handler[s].limited \in BOOLEAN
    BY <1>1 DEF Handlers
  <2> QED
    BY <1>0, <2>1 DEF Local, Handlers, None
<1>3. e \in Events /\ e.kind = "done"
  BY <1>0 DEF Events
<1>4. /\ handler' = [handler EXCEPT ![s] = n] /\ stored' = stored /\ Emit(s, e) /\ UNCHANGED page
      /\ handler[s].phase \in {"open", "told", "raised"}
  BY <1>0 DEF Finish
<1> QED
  BY <1>2, <1>3, <1>4, EndIsReplyStep

\* What the route does keeps the invariant.
LEMMA HandlingKeeps ==
  ASSUME LInv, NEW s \in Sends,
         \/ HandleMessage(s) \/ TextDelta(s) \/ Text(s) \/ Result(s) \/ Raise(s) \/ Finish(s)
         \/ \E t \in Tools : ToolUse(s, t)
         \/ \E i \in 1 .. MaxSteps[s] : ToolResult(s, i)
  PROVE  LInv' /\ transcript' = transcript
<1>1. \E e : ReplyStep(s, e)
  BY HandledIsReplyStep, TextDeltaIsReplyStep, TextIsReplyStep, ToolUseIsReplyStep, ToolResultIsReplyStep,
     ResultIsReplyStep, RaiseIsReplyStep, FinishIsReplyStep
<1>2. LInv'
  BY <1>1, ReplyGoesOn
<1>3. transcript' = transcript
  BY <1>1 DEF ReplyStep, page
<1> QED
  BY <1>2, <1>3

-------------------------------------------------------------------------------
(* The page *)

\* What the loop over s makes of the messages on display, if it makes nothing untrue of
\* the one it changes.
LEMMA ApplyKeeps ==
  ASSUME LInv, NEW s \in Sends, NEW e \in Events, Apply(s, e), handler' = handler, stored' = stored,
         \A i \in DOMAIN transcript : IsReply(s, i) =>
           LET m == Applied(e, transcript[i]) IN m.usage => Over(s) /\ Matches(s, m, handler[s], stored)
  PROVE  /\ LiveMessages' /\ OneOfEach' /\ \E X : transcript' \in Seq(X)
         /\ DOMAIN transcript' = DOMAIN transcript
         /\ \A i \in DOMAIN transcript :
              transcript'[i] = IF IsReply(s, i) THEN Applied(e, transcript[i]) ELSE transcript[i]
<1>1. /\ DOMAIN transcript' = DOMAIN transcript
      /\ \A i \in DOMAIN transcript :
           transcript'[i] = IF IsReply(s, i) THEN Applied(e, transcript[i]) ELSE transcript[i]
  BY DEF Apply
<1>2. \E X : transcript' \in Seq(X)
  <2>1. PICK X : transcript \in Seq(X)
    BY DEF LInv, TranscriptTypes
  <2>2. PICK k \in Nat : DOMAIN transcript = 1 .. k
    BY <2>1
  <2>3. transcript' = [i \in 1 .. k |-> IF IsReply(s, i) THEN Applied(e, transcript[i]) ELSE transcript[i]]
    BY <2>2 DEF Apply
  <2>4. transcript' \in [1 .. k -> {transcript'[i] : i \in 1 .. k}]
    BY <2>3
  <2>5. transcript' \in Seq({transcript'[i] : i \in 1 .. k})
    BY <2>4, SeqDef
  <2> QED
    BY <2>5
<1>3. ASSUME NEW i \in DOMAIN transcript, IsReply(s, i)
      PROVE  /\ transcript'[i] \in Replies /\ transcript'[i].of = s /\ transcript'[i].role = "agent"
             /\ transcript'[i].live /\ handler[s].phase # "none"
             /\ transcript'[i].usage => Over(s) /\ Matches(s, transcript'[i], handler[s], stored)
  <2>1. transcript[i] \in Replies /\ handler[s].phase # "none"
    BY <1>3 DEF LInv, LiveMessages, IsReply
  <2> QED
    BY <1>1, <1>3, <2>1, AppliedReply DEF IsReply
<1>4. ASSUME NEW i \in DOMAIN transcript
      PROVE  /\ transcript'[i].live <=> transcript[i].live
             /\ transcript[i].live => transcript'[i].of = transcript[i].of /\ transcript'[i].role = transcript[i].role
  BY <1>1, <1>3 DEF IsReply
<1>5. OneOfEach'
  BY <1>1, <1>4 DEF LInv, OneOfEach
<1>6. LiveMessages'
  <2> SUFFICES ASSUME NEW i \in DOMAIN transcript, NEW m, m = transcript'[i]
               PROVE  /\ m.live => m \in Replies /\ handler[m.of].phase # "none"
                      /\ m.usage => /\ m.live /\ m.role = "agent" /\ Over(m.of)
                                    /\ Matches(m.of, m, handler[m.of], stored)
    BY <1>1 DEF LiveMessages, Over
  <2>1. CASE IsReply(s, i)
    BY <1>3, <2>1
  <2>2. CASE ~IsReply(s, i)
    <3>1. m = transcript[i]
      BY <1>1, <2>2
    <3> QED
      BY <3>1 DEF LInv, LiveMessages
  <2> QED
    BY <2>1, <2>2
<1> QED
  BY <1>1, <1>2, <1>5, <1>6

\* The next event of a stream has arrived.
LEMMA ArrivesGoesOn ==
  ASSUME NEW s \in Sends, NEW f, Arrives(s, f), wire[s] \in Seq(Events), wire[s] # << >>,
         wire'[s] = Tail(wire[s]), handler' = handler, stored' = stored
  PROVE  \E g : g[1] = Applied(Head(wire[s]), f[1]) /\ Arrives(s, g)'
<1>1. PICK M \in Nat : Len(wire[s]) = M + 1
  <2>1. Len(wire[s]) \in Nat /\ Len(wire[s]) # 0
    BY EmptySeq
  <2>2. Len(wire[s]) - 1 \in Nat /\ Len(wire[s]) = (Len(wire[s]) - 1) + 1
    BY <2>1
  <2> QED
    BY <2>2
<1>2. /\ Len(wire'[s]) = M /\ \A k \in 1 .. M : wire'[s][k] = wire[s][k + 1]
      /\ Head(wire[s]) = wire[s][1]
  BY <1>1
<1>3. PICK g : g = [k \in 1 .. M + 1 |-> f[k + 1]]
  OBVIOUS
<1>4. \A k \in 1 .. M + 1 : g[k] = f[k + 1] /\ k + 1 \in 1 .. Len(wire[s]) + 1
  BY <1>1, <1>3
<1>5. g \in [1 .. Len(wire'[s]) + 1 -> Replies]
  BY <1>1, <1>2, <1>3, <1>4 DEF Arrives
<1>6. g[1] = Applied(Head(wire[s]), f[1])
  BY <1>1, <1>2, <1>4 DEF Arrives
<1>7. \A k \in 1 .. Len(wire'[s]) : g[k + 1] = Applied(wire'[s][k], g[k])
  <2> SUFFICES ASSUME NEW k \in 1 .. M PROVE g[k + 1] = Applied(wire'[s][k], g[k])
    BY <1>2
  <2>1. g[k] = f[k + 1] /\ g[k + 1] = f[(k + 1) + 1] /\ k + 1 \in 1 .. Len(wire[s])
    BY <1>1, <1>4
  <2>2. f[(k + 1) + 1] = Applied(wire[s][k + 1], f[k + 1])
    BY <2>1 DEF Arrives
  <2> QED
    BY <1>2, <2>1, <2>2
<1>8. ASSUME NEW k \in 1 .. Len(wire'[s]) + 1
      PROVE  /\ g[k].usage => ~g[k].streaming /\ Matches(s, g[k], handler'[s], stored')
             /\ ~g[k].streaming =>
                  Over(s)' /\ \A l \in k .. Len(wire'[s]) : wire'[s][l].kind \in {"error", "done"}
  <2>1. /\ g[k] = f[k + 1] /\ k \in Nat /\ k + 1 \in 1 .. Len(wire[s]) + 1
    BY <1>2, <1>4
  <2>2. /\ g[k].usage => ~g[k].streaming /\ Matches(s, g[k], handler[s], stored)
        /\ ~g[k].streaming =>
             Over(s) /\ \A l \in k + 1 .. Len(wire[s]) : wire[s][l].kind \in {"error", "done"}
    BY <2>1 DEF Arrives
  <2>3. ASSUME ~g[k].streaming, NEW l \in k .. Len(wire'[s]) PROVE wire'[s][l].kind \in {"error", "done"}
    <3>1. l + 1 \in k + 1 .. Len(wire[s]) /\ l \in 1 .. M
      BY <1>1, <1>2, <2>1
    <3> QED
      BY <1>2, <2>2, <2>3, <3>1
  <2> QED
    BY <2>2, <2>3 DEF Over
<1>9. handler'[s].phase \in {"sent", "open"} => Agrees(handler'[s], g[Len(wire'[s]) + 1])
  BY <1>1, <1>2, <1>4 DEF Arrives
<1>10. Arrives(s, g)'
  BY <1>5, <1>7, <1>8, <1>9 DEF Arrives
<1> QED
  BY <1>6, <1>10

\* The loop over s goes on: every other reply is left alone.
LEMMA OthersInTransit ==
  ASSUME LInv, NEW s \in Sends, NEW e \in Events,
         DOMAIN transcript' = DOMAIN transcript,
         \A i \in DOMAIN transcript :
           transcript'[i] = IF IsReply(s, i) THEN Applied(e, transcript[i]) ELSE transcript[i],
         handler' = handler, stored' = stored,
         NEW r \in reading, r # s, r \in Sends, wire'[r] = wire[r], NEW i \in DOMAIN transcript', IsReply(r, i)'
  PROVE  \E f : f[1] = transcript'[i] /\ Arrives(r, f)'
<1>1. transcript'[i] = transcript[i] /\ IsReply(r, i)
  <2>1. CASE IsReply(s, i)
    <3>1. transcript[i] \in Replies /\ transcript[i].of = s
      BY <2>1 DEF LInv, LiveMessages, IsReply
    <3>2. transcript'[i] = Applied(e, transcript[i])
      BY <2>1
    <3>3. Applied(e, transcript[i]).of = s
      BY <3>1, AppliedReply
    <3> QED
      BY <3>2, <3>3 DEF IsReply
  <2>2. CASE ~IsReply(s, i)
    BY <2>2 DEF IsReply
  <2> QED
    BY <2>1, <2>2
<1>2. PICK f : f[1] = transcript[i] /\ Arrives(r, f)
  BY <1>1 DEF LInv, InTransit
<1>3. Arrives(r, f)'
  BY <1>2, StillArrives DEF RowsKept
<1> QED
  BY <1>1, <1>2, <1>3

\* An event arrives.
LEMMA ReceiveKeeps ==
  ASSUME LInv, NEW s \in Sends, Receive(s)
  PROVE  LInv'
<1>1. PICK e : e = Head(wire[s])
  OBVIOUS
<1>2. /\ s \in reading /\ wire[s] # << >> /\ wire' = [wire EXCEPT ![s] = Tail(wire[s])]
      /\ Apply(s, e) /\ handler' = handler /\ stored' = stored /\ fetches' = fetches
      /\ reading' \subseteq reading
  BY <1>1 DEF Receive, server
<1>3. /\ wire[s] \in Seq(Events) /\ wire \in [Sends -> Seq(Events)] /\ reading \subseteq Sends
      /\ chat \in [thread : Int, streaming : BOOLEAN]
  BY DEF LInv, TranscriptTypes
<1>4. /\ e \in Events /\ e = wire[s][1] /\ Tail(wire[s]) \in Seq(Events) /\ 1 \in 1 .. Len(wire[s])
      /\ wire' \in [Sends -> Seq(Events)] /\ wire'[s] = Tail(wire[s]) /\ \A r \in Sends \ {s} : wire'[r] = wire[r]
  BY <1>1, <1>2, <1>3
<1>5. ASSUME NEW i \in DOMAIN transcript, IsReply(s, i)
      PROVE  /\ Applied(e, transcript[i]).usage =>
                  Over(s) /\ Matches(s, Applied(e, transcript[i]), handler[s], stored)
             /\ \E g : g[1] = Applied(e, transcript[i]) /\ Arrives(s, g)'
  <2>1. PICK f : f[1] = transcript[i] /\ Arrives(s, f)
    BY <1>2, <1>5 DEF LInv, InTransit
  <2>2. PICK n : n = f[2]
    OBVIOUS
  <2>3. /\ n = Applied(e, transcript[i])
        /\ n.usage => Over(s) /\ Matches(s, n, handler[s], stored)
    <3>1. 1 \in 1 .. Len(wire[s]) /\ 2 \in 1 .. Len(wire[s]) + 1 /\ 1 + 1 = 2
      BY <1>3, <1>4
    <3> QED
      BY <1>4, <2>1, <2>2, <3>1 DEF Arrives
  <2>4. \E g : g[1] = Applied(e, transcript[i]) /\ Arrives(s, g)'
    BY <1>1, <1>2, <1>3, <1>4, <2>1, ArrivesGoesOn
  <2> QED
    BY <2>3, <2>4
<1>6. /\ LiveMessages' /\ OneOfEach' /\ \E X : transcript' \in Seq(X)
      /\ DOMAIN transcript' = DOMAIN transcript
      /\ \A i \in DOMAIN transcript :
           transcript'[i] = IF IsReply(s, i) THEN Applied(e, transcript[i]) ELSE transcript[i]
  BY <1>2, <1>4, <1>5, ApplyKeeps
<1>7. chat' \in [thread : Int, streaming : BOOLEAN]
  <2>1. CASE e.kind = "system"
    <3>1. e.thread \in Int
      BY <1>4, <2>1 DEF Events
    <3> QED
      BY <1>1, <1>3, <2>1, <3>1 DEF Receive
  <2>2. CASE e.kind # "system"
    BY <1>1, <1>3, <2>2 DEF Receive
  <2> QED
    BY <2>1, <2>2
<1>8. TranscriptTypes'
  BY <1>2, <1>3, <1>4, <1>6, <1>7 DEF LInv, TranscriptTypes
<1>9. RowsAtTheEnd'
  BY <1>2 DEF LInv, RowsAtTheEnd, Over
<1>10. NothingBefore'
  <2>1. handler[s].phase # "none"
    BY <1>2 DEF LInv, NothingBefore
  <2> QED
    BY <1>2, <1>4, <2>1 DEF LInv, NothingBefore
<1>11. InTransit'
  <2> SUFFICES ASSUME NEW r \in reading', NEW i \in DOMAIN transcript', IsReply(r, i)'
               PROVE  \E f : f[1] = transcript'[i] /\ Arrives(r, f)'
    BY DEF InTransit
  <2>1. r \in reading /\ r \in Sends /\ i \in DOMAIN transcript
    BY <1>2, <1>3, <1>6
  <2>2. CASE r # s
    <3>1. wire'[r] = wire[r]
      BY <1>4, <2>1, <2>2
    <3> QED
      BY <1>2, <1>4, <1>6, <2>1, <2>2, <3>1, OthersInTransit
  <2>3. CASE r = s
    <3>1. IsReply(s, i)
      BY <1>6, <2>1, <2>3 DEF IsReply
    <3>2. transcript'[i] = Applied(e, transcript[i])
      BY <1>6, <2>1, <3>1
    <3> QED
      BY <1>5, <2>1, <2>3, <3>1, <3>2
  <2> QED
    BY <2>2, <2>3
<1> QED
  BY <1>6, <1>8, <1>9, <1>10, <1>11 DEF LInv

\* A stream is cut off.
LEMMA BreakKeeps ==
  ASSUME LInv, NEW s \in Sends, Break(s)
  PROVE  LInv'
<1>1. PICK e : e = [kind |-> "error"]
  OBVIOUS
<1>2. /\ s \in reading /\ reading' = reading \ {s} /\ wire' = [wire EXCEPT ![s] = << >>]
      /\ Apply(s, e) /\ handler' = handler /\ stored' = stored /\ fetches' = fetches
      /\ chat' = [chat EXCEPT !.streaming = FALSE] /\ e \in Events /\ e.kind = "error"
  BY <1>1 DEF Break, server, Events
<1>3. /\ wire \in [Sends -> Seq(Events)] /\ reading \subseteq Sends
      /\ chat \in [thread : Int, streaming : BOOLEAN]
  BY DEF LInv, TranscriptTypes
<1>4. /\ wire' \in [Sends -> Seq(Events)] /\ wire'[s] = << >> /\ \A r \in Sends \ {s} : wire'[r] = wire[r]
  BY <1>2, <1>3
<1>5. ASSUME NEW i \in DOMAIN transcript, IsReply(s, i), NEW m, m = Applied(e, transcript[i]), m.usage
      PROVE  Over(s) /\ Matches(s, m, handler[s], stored)
  <2>1. transcript[i] \in Replies /\ transcript[i].of = s
    BY <1>5 DEF LInv, LiveMessages, IsReply
  <2>2. m = [transcript[i] EXCEPT !.streaming = FALSE]
    BY <1>2, <1>5, <2>1, AppliedReply
  <2>3. m.text = transcript[i].text /\ m.calls = transcript[i].calls /\ transcript[i].usage
    BY <1>5, <2>1, <2>2 DEF Replies
  <2>4. Over(s) /\ Matches(s, transcript[i], handler[s], stored)
    BY <2>1, <2>3 DEF LInv, LiveMessages
  <2> QED
    BY <2>3, <2>4 DEF Matches
<1>6. /\ LiveMessages' /\ OneOfEach' /\ \E X : transcript' \in Seq(X)
      /\ DOMAIN transcript' = DOMAIN transcript
      /\ \A i \in DOMAIN transcript :
           transcript'[i] = IF IsReply(s, i) THEN Applied(e, transcript[i]) ELSE transcript[i]
  BY <1>2, <1>5, ApplyKeeps
<1>7. TranscriptTypes'
  BY <1>2, <1>3, <1>4, <1>6 DEF LInv, TranscriptTypes
<1>8. RowsAtTheEnd'
  BY <1>2 DEF LInv, RowsAtTheEnd, Over
<1>9. NothingBefore'
  BY <1>2, <1>4 DEF LInv, NothingBefore
<1>10. InTransit'
  <2> SUFFICES ASSUME NEW r \in reading', NEW i \in DOMAIN transcript', IsReply(r, i)'
               PROVE  \E f : f[1] = transcript'[i] /\ Arrives(r, f)'
    BY DEF InTransit
  <2>1. r \in reading /\ r \in Sends /\ r # s /\ wire'[r] = wire[r]
    BY <1>2, <1>3, <1>4
  <2> QED
    BY <1>2, <1>6, <2>1, OthersInTransit
<1> QED
  BY <1>6, <1>7, <1>8, <1>9, <1>10 DEF LInv

\* A stream is closed before its end: nothing is stored any more, and nobody reads on.
LEMMA CloseKeeps ==
  ASSUME LInv, NEW s \in Sends, Close(s)
  PROVE  LInv' /\ transcript' = transcript
<1>1. PICK n : n = Local("ended", None, handler[s].limited)
  OBVIOUS
<1>2. /\ handler[s] \in Handlers /\ handler \in [Sends -> Handlers] /\ stored \in Seq(StoredRows)
      /\ wire \in [Sends -> Seq(Events)] /\ reading \subseteq Sends
      /\ chat \in [thread : Int, streaming : BOOLEAN]
  BY HandlerTypes DEF LInv, TranscriptTypes
<1>3. /\ n \in Handlers /\ n.phase = "ended" /\ n.limited = handler[s].limited
      /\ n.due \subseteq DOMAIN n.calls
  <2>1. << >> \in Seq(Nat) /\ << >> \in Seq(ToolCall) /\ handler[s].limited \in BOOLEAN
    BY <1>2 DEF Handlers
  <2> QED
    BY <1>1, <2>1 DEF Local, Handlers, None
<1>4. /\ s \in reading /\ handler[s].phase \in {"open", "told", "raised"}
      /\ handler' = [handler EXCEPT ![s] = n] /\ reading' = reading \ {s}
      /\ chat' = [chat EXCEPT !.streaming = FALSE]
      /\ stored' = stored /\ wire' = wire /\ transcript' = transcript /\ fetches' = fetches
  BY <1>1 DEF Close
<1>5. /\ handler' \in [Sends -> Handlers] /\ handler'[s] = n
      /\ \A r \in Sends \ {s} : handler'[r] = handler[r]
  BY <1>2, <1>3, <1>4
<1>6. \A r \in Sends : RowsKept(r) /\ handler'[r].limited = handler[r].limited /\ (Over(r) => Over(r)')
                       /\ (handler[r].phase # "none" => handler'[r].phase # "none")
  BY <1>3, <1>4, <1>5 DEF RowsKept, Over
<1>7. TranscriptTypes'
  BY <1>2, <1>3, <1>4, <1>5 DEF LInv, TranscriptTypes
<1>8. LiveMessages'
  <2> SUFFICES ASSUME NEW i \in DOMAIN transcript, NEW m, m = transcript[i], NEW r, r = m.of
               PROVE  /\ m.live => m \in Replies /\ handler'[r].phase # "none"
                      /\ m.usage => /\ m.live /\ m.role = "agent" /\ Over(r)'
                                    /\ Matches(r, m, handler'[r], stored')
    BY <1>4 DEF LiveMessages, Over
  <2>1. /\ m.live => m \in Replies /\ handler[r].phase # "none"
        /\ m.usage => m.live /\ m.role = "agent" /\ Over(r) /\ Matches(r, m, handler[r], stored)
    BY DEF LInv, LiveMessages
  <2>2. m.live => r \in Sends
    BY <2>1 DEF Replies
  <2>3. m.usage => Matches(r, m, handler'[r], stored')
    BY <1>6, <2>1, <2>2, StillMatches
  <2> QED
    BY <1>6, <2>1, <2>2, <2>3
<1>9. OneOfEach'
  BY <1>4 DEF LInv, OneOfEach
<1>10. RowsAtTheEnd'
  <2>1. \A j \in DOMAIN stored : stored[j].of \in Sends
    <3>1. \A j \in DOMAIN stored : stored[j] \in StoredRows
      BY <1>2
    <3> QED
      BY <3>1 DEF StoredRows
  <2> QED
    BY <1>4, <1>6, <2>1 DEF LInv, RowsAtTheEnd, Over
<1>11. NothingBefore'
  BY <1>3, <1>4, <1>5 DEF LInv, NothingBefore
<1>12. InTransit'
  <2> SUFFICES ASSUME NEW r \in reading', NEW i \in DOMAIN transcript, IsReply(r, i)
               PROVE  \E f : f[1] = transcript[i] /\ Arrives(r, f)'
    BY <1>4 DEF InTransit, IsReply
  <2>1. r \in reading /\ r \in Sends /\ r # s /\ handler'[r] = handler[r] /\ wire'[r] = wire[r]
    BY <1>2, <1>4, <1>5
  <2>2. PICK f : f[1] = transcript[i] /\ Arrives(r, f)
    BY <2>1 DEF LInv, InTransit
  <2> QED
    BY <1>6, <2>1, <2>2, StillArrives
<1> QED
  BY <1>4, <1>7, <1>8, <1>9, <1>10, <1>11, <1>12 DEF LInv

\* A message is sent: its reply has nothing to show yet.
LEMMA SendKeeps ==
  ASSUME LInv, NEW s \in Sends, SendMessage(s)
  PROVE  LInv'
<1>1. PICK u, a : u = Message(s, "user") /\ a = Message(s, "agent")
  OBVIOUS
<1>2. PICK n : n = [handler[s] EXCEPT !.phase = "sent", !.thread = chat.thread]
  OBVIOUS
<1>3. /\ handler[s] \in Handlers /\ handler \in [Sends -> Handlers] /\ stored \in Seq(StoredRows)
      /\ handler[s].due \subseteq DOMAIN handler[s].calls
      /\ wire \in [Sends -> Seq(Events)] /\ reading \subseteq Sends
      /\ chat \in [thread : Int, streaming : BOOLEAN]
  BY HandlerTypes DEF LInv, TranscriptTypes
<1>4. /\ n \in Handlers /\ n.phase = "sent" /\ n.calls = handler[s].calls /\ n.due = handler[s].due
      /\ n.last = handler[s].last /\ n.partial = handler[s].partial
  BY <1>2, <1>3 DEF Handlers
<1>5. /\ transcript' = transcript \o <<u, a>> /\ reading' = reading \cup {s} /\ handler[s].phase = "none"
      /\ chat' = [chat EXCEPT !.streaming = TRUE] /\ handler' = [handler EXCEPT ![s] = n]
      /\ stored' = stored /\ wire' = wire /\ fetches' = fetches
  BY <1>1, <1>2, <1>3 DEF SendMessage, Handlers
<1>6. /\ handler' \in [Sends -> Handlers] /\ handler'[s] = n
      /\ \A r \in Sends \ {s} : handler'[r] = handler[r]
  BY <1>3, <1>4, <1>5
<1>7. /\ u \in Replies /\ u.live /\ u.role = "user" /\ u.of = s /\ ~u.usage
      /\ a \in Replies /\ a.live /\ a.role = "agent" /\ a.of = s /\ ~a.usage /\ a.streaming
      /\ a.text = << >> /\ a.calls = << >>
  <2>1. << >> \in Seq(Nat) /\ << >> \in Seq(ToolCall)
    OBVIOUS
  <2> QED
    BY <1>1, <2>1 DEF Message, Replies
<1>8. PICK L \in Nat : /\ DOMAIN transcript = 1 .. L
                       /\ DOMAIN transcript' = 1 .. L + 2 /\ \E X : transcript' \in Seq(X)
                       /\ \A i \in 1 .. L : transcript'[i] = transcript[i]
                       /\ transcript'[L + 1] = u /\ transcript'[L + 2] = a
  <2>1. PICK X : transcript \in Seq(X)
    BY DEF LInv, TranscriptTypes
  <2>2. PICK Y : Y = X \cup {u, a}
    OBVIOUS
  <2>3. transcript \in Seq(Y) /\ <<u, a>> \in Seq(Y) /\ Len(<<u, a>>) = 2
    BY <2>1, <2>2
  <2>4. PICK t : t = <<u, a>>
    OBVIOUS
  <2>5. t \in Seq(Y) /\ Len(t) = 2 /\ t[1] = u /\ t[2] = a
    BY <2>3, <2>4
  <2>6. transcript' = transcript \o t
    BY <1>5, <2>4
  <2>7. /\ transcript' \in Seq(Y) /\ Len(transcript) \in Nat /\ Len(transcript') = Len(transcript) + 2
        /\ \A i \in 1 .. Len(transcript) : transcript'[i] = transcript[i]
        /\ transcript'[Len(transcript) + 1] = u /\ transcript'[Len(transcript) + 2] = a
    <3>1. /\ transcript \o t \in Seq(Y) /\ Len(transcript \o t) = Len(transcript) + 2 /\ Len(transcript) \in Nat
          /\ \A i \in 1 .. Len(transcript) + 2 :
               (transcript \o t)[i] = IF i <= Len(transcript) THEN transcript[i] ELSE t[i - Len(transcript)]
      <4>1. /\ transcript \o t \in Seq(Y) /\ Len(transcript \o t) = Len(transcript) + Len(t)
            /\ \A i \in 1 .. Len(transcript) + Len(t) :
                 (transcript \o t)[i] = IF i <= Len(transcript) THEN transcript[i] ELSE t[i - Len(transcript)]
        BY <2>3, <2>5, ConcatProperties, Zenon
      <4> QED
        BY <2>3, <2>5, <4>1
    <3>2. PICK k \in Nat : k = Len(transcript)
      BY <3>1
    <3>3. /\ \A i \in 1 .. k : i \in 1 .. k + 2 /\ i <= k
          /\ k + 1 \in 1 .. k + 2 /\ ~(k + 1 <= k) /\ (k + 1) - k = 1
          /\ k + 2 \in 1 .. k + 2 /\ ~(k + 2 <= k) /\ (k + 2) - k = 2
      OBVIOUS
    <3> QED
      BY <2>5, <2>6, <3>1, <3>2, <3>3
  <2> QED
    BY <2>3, <2>7
<1>9. \A i \in 1 .. L : transcript[i].live => transcript[i].of # s /\ transcript[i].of \in Sends
  BY <1>5, <1>8 DEF LInv, LiveMessages, Replies
<1>10. TranscriptTypes'
  BY <1>3, <1>4, <1>5, <1>6, <1>8 DEF LInv, TranscriptTypes
<1>11. LiveMessages'
  <2> SUFFICES ASSUME NEW i \in 1 .. L + 2, NEW m, m = transcript'[i]
               PROVE  /\ m.live => m \in Replies /\ handler'[m.of].phase # "none"
                      /\ m.usage => /\ m.live /\ m.role = "agent" /\ Over(m.of)'
                                    /\ Matches(m.of, m, handler'[m.of], stored')
    BY <1>8 DEF LiveMessages, Over
  <2>1. CASE i \in 1 .. L
    <3>1. m = transcript[i] /\ i \in DOMAIN transcript
      BY <1>8, <2>1
    <3>2. m.live => m.of # s /\ m.of \in Sends
      BY <1>9, <2>1, <3>1
    <3>3. m.live => handler'[m.of] = handler[m.of]
      BY <1>6, <3>2
    <3> QED
      BY <1>5, <3>1, <3>3 DEF LInv, LiveMessages, Over
  <2>2. CASE i = L + 1
    BY <1>4, <1>6, <1>7, <1>8, <2>2
  <2>3. CASE i = L + 2
    BY <1>4, <1>6, <1>7, <1>8, <2>3
  <2> QED
    BY <2>1, <2>2, <2>3
<1>12. OneOfEach'
  <2> SUFFICES ASSUME NEW i \in 1 .. L + 2, NEW j \in 1 .. L + 2,
                      transcript'[i].live, transcript'[j].live,
                      transcript'[i].of = transcript'[j].of, transcript'[i].role = transcript'[j].role
               PROVE  i = j
    BY <1>8 DEF OneOfEach
  <2>1. CASE i \in 1 .. L /\ j \in 1 .. L
    BY <1>8, <2>1 DEF LInv, OneOfEach
  <2>2. CASE i \in 1 .. L /\ j \notin 1 .. L
    BY <1>7, <1>8, <1>9, <2>2
  <2>3. CASE i \notin 1 .. L /\ j \in 1 .. L
    BY <1>7, <1>8, <1>9, <2>3
  <2>4. CASE i \notin 1 .. L /\ j \notin 1 .. L
    BY <1>7, <1>8, <2>4
  <2> QED
    BY <2>1, <2>2, <2>3, <2>4
<1>13. RowsAtTheEnd'
  <2>1. \A j \in DOMAIN stored : stored[j].of \in Sends
    <3>1. \A j \in DOMAIN stored : stored[j] \in StoredRows
      BY <1>3
    <3> QED
      BY <3>1 DEF StoredRows
  <2>2. ~Over(s)
    BY <1>5 DEF Over
  <2> QED
    BY <1>5, <1>6, <2>1, <2>2 DEF LInv, RowsAtTheEnd, Over
<1>14. NothingBefore'
  BY <1>4, <1>5, <1>6 DEF LInv, NothingBefore
<1>15. InTransit'
  <2> SUFFICES ASSUME NEW r \in reading', NEW i \in 1 .. L + 2, IsReply(r, i)'
               PROVE  \E f : f[1] = transcript'[i] /\ Arrives(r, f)'
    BY <1>8 DEF InTransit
  <2>1. CASE i \in 1 .. L
    <3>1. /\ transcript'[i] = transcript[i] /\ IsReply(r, i) /\ i \in DOMAIN transcript
          /\ r # s /\ r \in reading /\ r \in Sends
      BY <1>3, <1>5, <1>8, <1>9, <2>1 DEF IsReply
    <3>2. PICK f : f[1] = transcript[i] /\ Arrives(r, f)
      BY <3>1 DEF LInv, InTransit
    <3>3. Arrives(r, f)'
      BY <1>5, <1>6, <3>1, <3>2, StillArrives DEF RowsKept
    <3> QED
      BY <3>1, <3>2, <3>3
  <2>2. CASE i \notin 1 .. L
    <3>1. r = s /\ transcript'[i] = a
      BY <1>7, <1>8, <2>2 DEF IsReply
    <3>2. wire[s] = << >> /\ n.calls = << >> /\ n.last = 0
      BY <1>4, <1>5 DEF LInv, NothingBefore
    <3>3. Agrees(n, a)
      BY <1>7, <3>2 DEF Agrees, SameCalls, LatestOpen, FinalText
    <3>4. PICK f : f = [k \in 1 .. 1 |-> a]
      OBVIOUS
    <3>5. Len(wire'[s]) = 0 /\ f \in [1 .. 1 -> Replies] /\ f[1] = a
      BY <1>5, <1>7, <3>2, <3>4
    <3>6. Arrives(s, f)'
      BY <1>6, <1>7, <3>3, <3>5 DEF Arrives
    <3> QED
      BY <3>1, <3>5, <3>6
  <2> QED
    BY <2>1, <2>2
<1> QED
  BY <1>10, <1>11, <1>12, <1>13, <1>14, <1>15 DEF LInv

\* What is on display has come from the store, or nothing is.
LEMMA NothingLiveKeeps ==
  ASSUME LInv, UNCHANGED <<handler, stored, wire, reading>>,
         chat' \in [thread : Int, streaming : BOOLEAN],
         fetches' \in Seq(Fetches),
         \/ transcript' = transcript
         \/ /\ \E X : transcript' \in Seq(X)
            /\ \A i \in DOMAIN transcript' : ~transcript'[i].live /\ ~transcript'[i].usage
  PROVE  LInv'
<1>1. TranscriptTypes'
  BY DEF LInv, TranscriptTypes
<1>2. RowsAtTheEnd' /\ NothingBefore'
  BY DEF LInv, RowsAtTheEnd, NothingBefore, Over
<1>3. LiveMessages' /\ OneOfEach' /\ InTransit'
  <2>1. CASE transcript' = transcript
    <3>1. \A s \in reading, i \in DOMAIN transcript : IsReply(s, i) => \E f : f[1] = transcript[i] /\ Arrives(s, f)'
      <4> SUFFICES ASSUME NEW s \in reading, NEW i \in DOMAIN transcript, IsReply(s, i)
                   PROVE  \E f : f[1] = transcript[i] /\ Arrives(s, f)'
        OBVIOUS
      <4>1. s \in Sends
        BY DEF LInv, TranscriptTypes
      <4>2. PICK f : f[1] = transcript[i] /\ Arrives(s, f)
        BY DEF LInv, InTransit
      <4> QED
        BY <4>1, <4>2, StillArrives DEF RowsKept
    <3>2. InTransit'
      BY <2>1, <3>1 DEF InTransit, IsReply
    <3> QED
      BY <2>1, <3>2 DEF LInv, LiveMessages, OneOfEach, Over
  <2>2. CASE \A i \in DOMAIN transcript' : ~transcript'[i].live /\ ~transcript'[i].usage
    BY <2>2 DEF LiveMessages, OneOfEach, InTransit, IsReply
  <2> QED
    BY <2>1, <2>2
<1> QED
  BY <1>1, <1>2, <1>3 DEF LInv

\* Threads are opened and left; what was fetched comes, or is lost.
LEMMA ThreadsKeep ==
  ASSUME LInv,
         \/ \E t \in Threads : LoadThread(t)
         \/ ClearChat
         \/ \E i \in 1 .. MaxSwitches : ServeThread(i) \/ TakeThread(i) \/ LoseThread(i)
  PROVE  /\ LInv'
         /\ transcript' = transcript \/ \A i \in DOMAIN transcript' : ~transcript'[i].live
<1>1. /\ chat \in [thread : Int, streaming : BOOLEAN] /\ stored \in Seq(StoredRows)
      /\ fetches \in Seq(Fetches)
  BY DEF LInv, TranscriptTypes
<1>2. ASSUME NEW t \in Int, Switch(t)
      PROVE  /\ UNCHANGED <<handler, stored, wire, reading>> /\ chat' \in [thread : Int, streaming : BOOLEAN]
             /\ \E X : transcript' \in Seq(X)
             /\ \A i \in DOMAIN transcript' : ~transcript'[i].live /\ ~transcript'[i].usage
  <2>1. transcript' = << >> /\ << >> \in Seq({}) /\ DOMAIN << >> = {}
    BY <1>2 DEF Switch
  <2> QED
    BY <1>2, <2>1 DEF Switch, server
<1>3. CASE \E t \in Threads : LoadThread(t)
  <2>1. PICK t \in Threads : LoadThread(t)
    BY <1>3
  <2>2. t \in Int
    BY DEF Threads, Sends, Main
  <2>3. [thread |-> t, served |-> FALSE, rows |-> {}] \in Fetches
    BY <2>2, FS_EmptySet DEF FewRows, Fetches
  <2>4. fetches' \in Seq(Fetches)
    BY <1>1, <2>1, <2>3 DEF LoadThread
  <2> QED
    BY <1>2, <2>1, <2>2, <2>4, NothingLiveKeeps DEF LoadThread
<1>4. CASE ClearChat
  BY <1>1, <1>2, <1>4, NothingLiveKeeps DEF ClearChat, None
<1>5. ASSUME NEW i \in 1 .. MaxSwitches, ServeThread(i)
      PROVE  LInv' /\ transcript' = transcript
  <2>1. PICK R : R = {j \in DOMAIN stored : stored[j].thread = fetches[i].thread}
    OBVIOUS
  <2>2. R \in FewRows
    <3>1. DOMAIN stored = 1 .. Len(stored) /\ Len(stored) \in Nat
      BY <1>1
    <3>2. IsFiniteSet(1 .. Len(stored))
      BY <3>1, FS_Interval
    <3>3. R \subseteq 1 .. Len(stored) /\ R \subseteq Nat
      BY <2>1, <3>1
    <3>4. IsFiniteSet(R)
      BY <3>2, <3>3, FS_Subset
    <3> QED
      BY <3>3, <3>4 DEF FewRows
  <2>a. i \in DOMAIN fetches
    BY <1>5, Zenon DEF ServeThread
  <2>3. i \in DOMAIN fetches /\ fetches[i] \in Fetches
    BY <1>1, <2>a
  <2>4. PICK q : q = [fetches[i] EXCEPT !.served = TRUE, !.rows = R]
    OBVIOUS
  <2>5. q \in Fetches
    BY <2>2, <2>3, <2>4 DEF Fetches
  <2>6. fetches' = [fetches EXCEPT ![i] = q]
    <3>1. fetches' = [fetches EXCEPT ![i].served = TRUE, ![i].rows = R]
      BY <1>5, <2>1, Zenon DEF ServeThread
    <3>2. q = [[fetches[i] EXCEPT !.served = TRUE] EXCEPT !.rows = R]
      BY <2>4
    <3> QED
      BY <1>1, <2>3, <3>1, <3>2 DEF Fetches
  <2>7. fetches' \in Seq(Fetches)
    BY <1>1, <2>3, <2>5, <2>6
  <2>8. UNCHANGED <<handler, stored, wire, chat, transcript, reading>>
    BY <1>5, Zenon DEF ServeThread, server
  <2> QED
    BY <1>1, <2>7, <2>8, NothingLiveKeeps
<1>6. ASSUME NEW i \in DOMAIN fetches
      PROVE  /\ RemoveAt(fetches, i) \in Seq(Fetches)
             /\ \E X : Reconstructed(fetches[i].rows) \in Seq(X)
             /\ \A j \in DOMAIN Reconstructed(fetches[i].rows) :
                  ~Reconstructed(fetches[i].rows)[j].live /\ ~Reconstructed(fetches[i].rows)[j].usage
  <2>1. PICK R, r : R = fetches[i].rows /\ r = Reconstructed(fetches[i].rows)
    OBVIOUS
  <2>2. i \in 1 .. Len(fetches) /\ R \in FewRows
    <3>1. i \in 1 .. Len(fetches) /\ fetches[i] \in Fetches
      BY <1>1
    <3> QED
      BY <2>1, <3>1 DEF Fetches
  <2>3. PICK k \in Nat : k = Cardinality(R)
    BY <2>2, FS_CardinalityType DEF FewRows
  <2>4. /\ DOMAIN r = 1 .. k /\ r = [j \in 1 .. k |-> r[j]]
        /\ \A j \in 1 .. k : ~r[j].live /\ ~r[j].usage
    BY <2>1, <2>3 DEF Reconstructed
  <2>5. r \in [1 .. k -> {r[j] : j \in 1 .. k}]
    BY <2>4
  <2>6. r \in Seq({r[j] : j \in 1 .. k})
    BY <2>5, SeqDef
  <2>7. RemoveAt(fetches, i) \in Seq(Fetches)
    <3>1. fetches \in Seq(Fetches) /\ i \in 1 .. Len(fetches) /\ Len(fetches) \in Nat
      BY <1>1, <2>2
    <3>2. SubSeq(fetches, 1, i - 1) \in Seq(Fetches) /\ SubSeq(fetches, i + 1, Len(fetches)) \in Seq(Fetches)
      BY <3>1
    <3> QED
      BY <3>2 DEF RemoveAt
  <2> QED
    BY <2>1, <2>4, <2>6, <2>7
<1>7. ASSUME NEW i \in 1 .. MaxSwitches, TakeThread(i)
      PROVE  LInv' /\ (transcript' = transcript \/ \A j \in DOMAIN transcript' : ~transcript'[j].live)
  <2>1. /\ i \in DOMAIN fetches /\ fetches' = RemoveAt(fetches, i)
        /\ transcript' = transcript \/ transcript' = Reconstructed(fetches[i].rows)
        /\ UNCHANGED <<handler, stored, wire, chat, reading>>
    BY <1>7 DEF TakeThread, server
  <2>2. fetches' \in Seq(Fetches)
    BY <1>6, <2>1
  <2>3. \/ transcript' = transcript
        \/ /\ \E X : transcript' \in Seq(X)
           /\ \A j \in DOMAIN transcript' : ~transcript'[j].live /\ ~transcript'[j].usage
    BY <1>6, <2>1
  <2> QED
    BY <1>1, <2>1, <2>2, <2>3, NothingLiveKeeps
<1>8. ASSUME NEW i \in 1 .. MaxSwitches, LoseThread(i)
      PROVE  LInv' /\ transcript' = transcript
  BY <1>1, <1>6, <1>8, NothingLiveKeeps DEF LoseThread, server
<1>9. CASE \E i \in 1 .. MaxSwitches : ServeThread(i) \/ TakeThread(i) \/ LoseThread(i)
  BY <1>5, <1>7, <1>8, <1>9
<1> QED
  BY <1>3, <1>4, <1>9

\* A message that is complete is left alone by what may still arrive for it.
LEMMA FinishedStays ==
  ASSUME LInv, LInv', NEW s \in Sends, Receive(s) \/ Break(s) \/ SendMessage(s),
         NEW i \in DOMAIN transcript, NEW j \in DOMAIN transcript',
         transcript[i].live, transcript'[j].live, transcript[i].of = transcript'[j].of,
         transcript[i].role = transcript'[j].role, ~transcript[i].streaming
  PROVE  transcript[i] = transcript'[j]
<1>1. transcript[i] \in Replies /\ handler[transcript[i].of].phase # "none"
  BY DEF LInv, LiveMessages
<1>2. ASSUME NEW e \in Events, Apply(s, e), s \in reading,
             e = IF Receive(s) THEN Head(wire[s]) ELSE [kind |-> "error"],
             wire[s] # << >> \/ ~Receive(s)
      PROVE  transcript[i] = transcript'[j]
  <2>1. /\ DOMAIN transcript' = DOMAIN transcript
        /\ transcript'[i] = IF IsReply(s, i) THEN Applied(e, transcript[i]) ELSE transcript[i]
    BY <1>2 DEF Apply
  <2>2. CASE IsReply(s, i)
    <3>1. e.kind \in {"error", "done"}
      <4>1. CASE Receive(s)
        <5>1. PICK f : f[1] = transcript[i] /\ Arrives(s, f)
          BY <1>2, <2>2 DEF LInv, InTransit
        <5>2. /\ wire[s] \in Seq(Events) /\ wire[s] # << >>
          BY <1>2, <4>1 DEF LInv, TranscriptTypes
        <5>3. /\ 1 \in 1 .. Len(wire[s]) + 1 /\ 1 \in 1 .. Len(wire[s]) /\ Head(wire[s]) = wire[s][1]
          BY <5>2
        <5>4. wire[s][1].kind \in {"error", "done"}
          BY <5>1, <5>3 DEF Arrives
        <5> QED
          BY <1>2, <4>1, <5>3, <5>4
      <4>2. CASE ~Receive(s)
        BY <1>2, <4>2
      <4> QED
        BY <4>1, <4>2
    <3>2. Applied(e, transcript[i]) = [transcript[i] EXCEPT !.streaming = FALSE]
      BY <1>1, <1>2, <3>1, AppliedReply
    <3>3. [transcript[i] EXCEPT !.streaming = FALSE] = transcript[i]
      BY <1>1 DEF Replies
    <3>4. transcript'[i] = transcript[i]
      BY <2>1, <2>2, <3>2, <3>3
    <3>5. i = j
      BY <2>1, <3>4 DEF LInv, OneOfEach
    <3> QED
      BY <3>4, <3>5
  <2>3. CASE ~IsReply(s, i)
    <3>1. transcript'[i] = transcript[i]
      BY <2>1, <2>3
    <3>2. i = j
      BY <2>1, <3>1 DEF LInv, OneOfEach
    <3> QED
      BY <3>1, <3>2
  <2> QED
    BY <2>2, <2>3
<1>3. CASE Receive(s)
  <2>1. PICK e : e = Head(wire[s])
    OBVIOUS
  <2>2. wire[s] \in Seq(Events) /\ wire[s] # << >> /\ s \in reading /\ Apply(s, e)
    BY <1>3, <2>1 DEF LInv, TranscriptTypes, Receive
  <2>3. e \in Events
    BY <2>1, <2>2
  <2> QED
    BY <1>2, <1>3, <2>1, <2>2, <2>3
<1>4. CASE Break(s) /\ ~Receive(s)
  <2>1. PICK e : e = [kind |-> "error"]
    OBVIOUS
  <2>2. e \in Events /\ s \in reading /\ Apply(s, e)
    BY <1>4, <2>1 DEF Break, Events
  <2> QED
    BY <1>2, <1>4, <2>1, <2>2
<1>5. CASE SendMessage(s)
  <2>1. /\ transcript' = transcript \o <<Message(s, "user"), Message(s, "agent")>>
        /\ handler[s].phase = "none"
    BY <1>5 DEF SendMessage
  <2>2. transcript'[j].of # s
    BY <1>1, <2>1
  <2>3. PICK X, u, a : transcript \in Seq(X) /\ u = Message(s, "user") /\ a = Message(s, "agent")
    BY DEF LInv, TranscriptTypes
  <2>4. u.of = s /\ a.of = s
    BY <2>3 DEF Message
  <2>5. transcript \in Seq(X \cup {u, a}) /\ <<u, a>> \in Seq(X \cup {u, a}) /\ Len(<<u, a>>) = 2
    BY <2>3
  <2>6. /\ i \in 1 .. Len(transcript) /\ j \in 1 .. Len(transcript) + 2 /\ Len(transcript) \in Nat
        /\ DOMAIN transcript' = 1 .. Len(transcript) + 2
        /\ \A k \in 1 .. Len(transcript) + 2 :
             transcript'[k] = IF k <= Len(transcript) THEN transcript[k] ELSE <<u, a>>[k - Len(transcript)]
    <3>1. transcript' = transcript \o <<u, a>>
      BY <2>1, <2>3
    <3>2. PICK t : t = <<u, a>>
      OBVIOUS
    <3>3. /\ transcript' \in Seq(X \cup {u, a}) /\ Len(transcript') = Len(transcript) + Len(t)
          /\ \A k \in 1 .. Len(transcript) + Len(t) :
               transcript'[k] = IF k <= Len(transcript) THEN transcript[k] ELSE t[k - Len(transcript)]
      BY <2>5, <3>1, <3>2, ConcatProperties, Zenon
    <3>4. Len(t) = 2
      BY <2>5, <3>2
    <3> QED
      BY <2>5, <3>2, <3>3, <3>4
  <2>7. CASE j <= Len(transcript)
    <3>1. transcript'[j] = transcript[j] /\ transcript'[i] = transcript[i] /\ j \in DOMAIN transcript
      BY <2>6, <2>7
    <3>2. i = j
      BY <3>1 DEF LInv, OneOfEach
    <3> QED
      BY <3>1, <3>2
  <2>8. CASE ~(j <= Len(transcript))
    <3>1. transcript'[j] \in {u, a}
      <4>1. j - Len(transcript) \in {1, 2} /\ transcript'[j] = <<u, a>>[j - Len(transcript)]
        BY <2>6, <2>8
      <4>2. <<u, a>>[1] = u /\ <<u, a>>[2] = a
        OBVIOUS
      <4> QED
        BY <4>1, <4>2
    <3> QED
      BY <2>2, <2>4, <3>1
  <2> QED
    BY <2>6, <2>7, <2>8
<1> QED
  BY <1>3, <1>4, <1>5

\* Every step keeps the invariant and leaves complete messages alone.
LEMMA TranscriptStep ==
  ASSUME LInv, [Next]_vars
  PROVE  /\ LInv'
         /\ \A i \in DOMAIN transcript, j \in DOMAIN transcript' :
              /\ transcript[i].live /\ transcript'[j].live
              /\ transcript[i].of = transcript'[j].of /\ transcript[i].role = transcript'[j].role
              /\ ~transcript[i].streaming
              => transcript[i] = transcript'[j]
<1>1. ASSUME LInv', transcript' = transcript \/ \A k \in DOMAIN transcript' : ~transcript'[k].live,
             NEW i \in DOMAIN transcript, NEW j \in DOMAIN transcript', transcript[i].live, transcript'[j].live,
             transcript[i].of = transcript'[j].of, transcript[i].role = transcript'[j].role
      PROVE  transcript[i] = transcript'[j]
  BY <1>1 DEF LInv, OneOfEach
<1>2. CASE UNCHANGED vars
  <2>1. LInv' /\ transcript' = transcript
    <3>1. UNCHANGED <<handler, stored, wire, reading, chat, fetches, transcript>>
      BY <1>2 DEF vars, server, page
    <3>2. /\ chat \in [thread : Int, streaming : BOOLEAN] /\ fetches \in Seq(Fetches)
      BY DEF LInv, TranscriptTypes
    <3> QED
      BY <3>1, <3>2, NothingLiveKeeps
  <2> QED
    BY <1>1, <2>1
<1>3. ASSUME NEW s \in Sends, SendMessage(s) \/ Receive(s) \/ Break(s)
      PROVE  LInv' /\ \A i \in DOMAIN transcript, j \in DOMAIN transcript' :
              /\ transcript[i].live /\ transcript'[j].live
              /\ transcript[i].of = transcript'[j].of /\ transcript[i].role = transcript'[j].role
              /\ ~transcript[i].streaming
              => transcript[i] = transcript'[j]
  <2>1. LInv'
    BY <1>3, SendKeeps, ReceiveKeeps, BreakKeeps
  <2> QED
    BY <1>3, <2>1, FinishedStays
<1>4. ASSUME NEW s \in Sends,
             \/ HandleMessage(s) \/ TextDelta(s) \/ Text(s) \/ Result(s) \/ Raise(s) \/ Finish(s)
             \/ \E t \in Tools : ToolUse(s, t)
             \/ \E i \in 1 .. MaxSteps[s] : ToolResult(s, i)
             \/ Close(s)
      PROVE  LInv' /\ transcript' = transcript
  BY <1>4, HandlingKeeps, CloseKeeps
<1>5. CASE \/ \E t \in Threads : LoadThread(t)
           \/ ClearChat
           \/ \E i \in 1 .. MaxSwitches : ServeThread(i) \/ TakeThread(i) \/ LoseThread(i)
  <2>1. LInv' /\ (transcript' = transcript \/ \A k \in DOMAIN transcript' : ~transcript'[k].live)
    BY <1>5, ThreadsKeep
  <2> QED
    BY <1>1, <2>1
<1>6. ASSUME NEW s \in Sends,
             \/ SendMessage(s) \/ HandleMessage(s) \/ TextDelta(s) \/ Text(s) \/ Result(s)
             \/ Raise(s) \/ Finish(s)
             \/ \E t \in Tools : ToolUse(s, t)
             \/ \E i \in 1 .. MaxSteps[s] : ToolResult(s, i)
             \/ Receive(s) \/ Break(s) \/ Close(s)
      PROVE  LInv' /\ \A i \in DOMAIN transcript, j \in DOMAIN transcript' :
              /\ transcript[i].live /\ transcript'[j].live
              /\ transcript[i].of = transcript'[j].of /\ transcript[i].role = transcript'[j].role
              /\ ~transcript[i].streaming
              => transcript[i] = transcript'[j]
  <2>1. CASE SendMessage(s) \/ Receive(s) \/ Break(s)
    BY <1>3, <2>1
  <2>2. CASE \/ HandleMessage(s) \/ TextDelta(s) \/ Text(s) \/ Result(s) \/ Raise(s) \/ Finish(s)
             \/ \E t \in Tools : ToolUse(s, t)
             \/ \E i \in 1 .. MaxSteps[s] : ToolResult(s, i)
             \/ Close(s)
    <3>1. LInv' /\ transcript' = transcript
      BY <1>4, <2>2
    <3> QED
      BY <1>1, <3>1
  <2> QED
    BY <1>6, <2>1, <2>2
<1> QED
  BY <1>2, <1>5, <1>6 DEF Next

\* At first nothing has been sent, and nothing is on display.
LEMMA TranscriptInit ==
  ASSUME Init
  PROVE  LInv
<1>1. Local("none", None, FALSE) \in Handlers
  <2>1. << >> \in Seq(Nat) /\ << >> \in Seq(ToolCall)
    OBVIOUS
  <2> QED
    BY <2>1 DEF Local, Handlers, None
<1>2. PICK l : l = Local("none", None, FALSE)
  BY Zenon
<1>3. l.phase = "none" /\ l.calls = << >> /\ l.last = 0 /\ ~l.partial /\ l.due = {} /\ l \in Handlers
  BY <1>1, <1>2 DEF Local
<1>4. /\ handler = [s \in Sends |-> l] /\ stored = << >> /\ wire = [s \in Sends |-> << >>]
      /\ chat = [thread |-> None, streaming |-> FALSE] /\ transcript = << >> /\ reading = {} /\ fetches = << >>
  BY <1>2 DEF Init
<1>5. TranscriptTypes
  <2>1. << >> \in Seq(Events) /\ << >> \in Seq(StoredRows) /\ << >> \in Seq({}) /\ << >> \in Seq(Fetches)
    OBVIOUS
  <2> QED
    BY <1>3, <1>4, <2>1 DEF TranscriptTypes, None
<1>6. LiveMessages /\ OneOfEach /\ RowsAtTheEnd /\ NothingBefore /\ InTransit
  <2>1. DOMAIN transcript = {} /\ DOMAIN stored = {}
    BY <1>4
  <2> QED
    BY <1>3, <1>4, <2>1 DEF LiveMessages, OneOfEach, RowsAtTheEnd, NothingBefore, InTransit
<1> QED
  BY <1>5, <1>6 DEF LInv

\* What was read while a reply came in is what its thread shows after a reload
\* (chat-store.ts against routes/chat.ts), for any number of messages, tools, steps of a
\* reply, events under way and changes of thread.
THEOREM LiveRepliesAreStored ==
  ASSUME TranscriptAssumption
  PROVE  Spec => []LiveIsStored
<1>1. LInv => LiveIsStored
  <2> SUFFICES ASSUME LInv, NEW i \in DOMAIN transcript, NEW j \in DOMAIN stored,
                      transcript[i].usage, stored[j].role = "agent", stored[j].of = transcript[i].of
               PROVE  LET m == transcript[i] row == stored[j] IN
                      /\ handler[m.of].limited \/ m.text = row.text
                      /\ Len(m.calls) = Len(row.calls)
                      /\ \A k \in DOMAIN m.calls : /\ m.calls[k].name = row.calls[k].name
                                                   /\ m.calls[k].output \in {row.calls[k].output, Completed}
    BY DEF LiveIsStored
  <2>1. Matches(transcript[i].of, transcript[i], handler[transcript[i].of], stored)
    BY DEF LInv, LiveMessages
  <2> QED
    BY <2>1 DEF Matches, SameCalls
<1>2. LInv /\ [Next]_vars => LInv'
  BY TranscriptStep
<1> QED
  BY <1>1, <1>2, TranscriptInit, PTL DEF Spec

\* A message that is complete does not change while it is on display, whatever streams the
\* page left behind still deliver (the for await loop of chat-store.ts).
THEOREM CompleteMessagesStay ==
  ASSUME TranscriptAssumption
  PROVE  Spec => FinishedIsFinal
<1>1. LInv /\ [Next]_vars =>
        \A i \in DOMAIN transcript, j \in DOMAIN transcript' :
          LET m == transcript[i] n == transcript'[j] IN
          m.live /\ n.live /\ m.of = n.of /\ m.role = n.role /\ ~m.streaming => m = n
  BY TranscriptStep
<1>2. LInv /\ [Next]_vars => LInv'
  BY TranscriptStep
<1> QED
  BY <1>1, <1>2, TranscriptInit, PTL DEF Spec, FinishedIsFinal

-------------------------------------------------------------------------------
(* The list of executions *)

\* Rows of executions.
ExecutionRows == [job : Jobs, status : Statuses, was : SUBSET Statuses]

\* Row e was cancelled; it may have been deleted since, or before.
WasCancelled(e) == e \in DOMAIN rows /\ "cancelled" \in rows[e].was
Gone(e) == e \in DOMAIN rows /\ rows[e].job \in deleted

\* A row that was cancelled is, but for late writes: the table has no way out.
Kept == \A e \in DOMAIN rows : "cancelled" \in rows[e].was => rows[e].status = "cancelled" \/ e \in Range(late)

\* Records of requests whose answers are in A.
Asking(A) == [kind : {"none", "list", "cancel", "refetch", "retry"}, of : Nat, served : BOOLEAN,
              answer : A]

\* What a request says is true: an accepted cancel leaves a cancelled row or none, and
\* the fetch that follows tells of a row.
Honest(q) ==
  /\ q.kind = "none" => q = Free
  /\ q.kind = "cancel" => q.of \in DOMAIN rows
  /\ q.kind = "cancel" /\ q.served => WasCancelled(q.of) \/ Gone(q.of)
  /\ q.kind = "refetch" => WasCancelled(q.of) \/ Gone(q.of)
  /\ q.kind = "refetch" /\ q.served =>
       WasCancelled(q.of) /\ (q.answer[1].status = "cancelled" \/ q.of \in Range(late))

RowTypes ==
  /\ "queued" \in Statuses /\ "cancelled" \in Statuses
  /\ rows \in Seq(ExecutionRows) /\ late \in Seq(Nat)

CInv ==
  /\ RowTypes /\ Kept
  /\ \E A : requests \in [Requests -> Asking(A)]
  /\ \A r \in Requests : Honest(requests[r])

\* The rows may have changed: what they were is not forgotten.
RowsGoOn ==
  /\ RowTypes' /\ Kept'
  /\ \A e : WasCancelled(e) => WasCancelled(e)'
  /\ \A e : Gone(e) => Gone(e)'
  /\ \A e \in DOMAIN rows : e \in DOMAIN rows'
  /\ Range(late) \subseteq Range(late')

\* The rows are at rest, but that a task may be deleted.
LEMMA RowsAtRest == ASSUME CInv, UNCHANGED <<rows, late>>, deleted \subseteq deleted' PROVE RowsGoOn
BY DEF CInv, RowTypes, Kept, RowsGoOn, WasCancelled, Gone

\* Rows are of jobs.
LEMMA JobsOfRows == CInv => \A e \in DOMAIN rows : rows[e].job \in Jobs
<1>1. CInv => \A e \in DOMAIN rows : rows[e] \in ExecutionRows
  BY DEF CInv, RowTypes
<1> QED
  BY <1>1 DEF ExecutionRows

\* A row is added.
LEMMA RowAdded ==
  ASSUME CInv, NEW t \in Jobs, NewRow(t), deleted' = deleted
  PROVE  RowsGoOn
<1> DEFINE n == [job |-> t, status |-> "queued", was |-> {"queued"}]
<1>1. /\ rows \in Seq(ExecutionRows) /\ rows' = Append(rows, n) /\ n \in ExecutionRows /\ late' = late
      /\ n.was = {"queued"}
  BY DEF CInv, RowTypes, NewRow, ExecutionRows
<1> HIDE DEF n
<1>2. /\ rows' \in Seq(ExecutionRows) /\ DOMAIN rows' = DOMAIN rows \cup {Len(rows) + 1}
      /\ \A e \in DOMAIN rows : rows'[e] = rows[e]
      /\ rows'[Len(rows) + 1] = n
  BY <1>1
<1>3. Kept'
  BY <1>1, <1>2 DEF CInv, Kept
<1>4. RowTypes'
  BY <1>1, <1>2 DEF CInv, RowTypes
<1> QED
  BY <1>1, <1>2, <1>3, <1>4 DEF RowsGoOn, WasCancelled, Gone

\* A row is moved, along the table or by a late write.
LEMMA RowMoved ==
  ASSUME CInv, NEW e \in DOMAIN rows, NEW s \in Statuses, Update(e, s), deleted' = deleted
  PROVE  RowsGoOn /\ (s = "cancelled" => WasCancelled(e)')
<1> DEFINE n == [rows[e] EXCEPT !.status = s, !.was = @ \cup {s}]
<1>1. /\ rows \in Seq(ExecutionRows) /\ late \in Seq(Nat) /\ rows[e] \in ExecutionRows /\ e \in Nat
      /\ rows' = [rows EXCEPT ![e] = n]
  BY DEF CInv, RowTypes, Update, Become
<1>2. /\ n \in ExecutionRows /\ n.job = rows[e].job /\ n.status = s /\ n.was = rows[e].was \cup {s}
  BY <1>1 DEF ExecutionRows
<1> HIDE DEF n
<1>3. /\ rows' \in Seq(ExecutionRows) /\ DOMAIN rows' = DOMAIN rows /\ rows'[e] = n
      /\ \A x \in DOMAIN rows : x # e => rows'[x] = rows[x]
  BY <1>1, <1>2
<1>4. /\ late' \in Seq(Nat) /\ Range(late) \subseteq Range(late')
      /\ (late' = late /\ rows[e].status # "cancelled") \/ e \in Range(late')
  <2>1. CASE late' = late /\ Valid(Now(e), s)
    BY <1>1, <2>1 DEF Valid, VALID_TRANSITIONS, Now
  <2>2. CASE late' = Append(late, e)
    <3>1. late' \in Seq(Nat) /\ Len(late') = Len(late) + 1 /\ late'[Len(late) + 1] = e
      BY <1>1, <2>2
    <3>2. \A i \in DOMAIN late : i \in DOMAIN late' /\ late'[i] = late[i]
      BY <1>1, <2>2
    <3>3. Len(late) + 1 \in DOMAIN late'
      BY <1>1, <3>1
    <3> QED
      BY <3>1, <3>2, <3>3 DEF Range
  <2> QED
    BY <2>1, <2>2 DEF Update
<1>5. Kept'
  <2> SUFFICES ASSUME NEW x \in DOMAIN rows', "cancelled" \in rows'[x].was
               PROVE  rows'[x].status = "cancelled" \/ x \in Range(late')
    BY DEF Kept
  <2>1. CASE x # e
    BY <1>3, <1>4, <2>1 DEF CInv, Kept
  <2>2. CASE x = e /\ s # "cancelled" /\ e \notin Range(late')
    <3>1. "cancelled" \in rows[e].was
      BY <1>2, <1>3, <2>2
    <3> QED
      BY <1>4, <2>2, <3>1 DEF CInv, Kept
  <2> QED
    BY <1>2, <1>3, <2>1, <2>2
<1>6. RowTypes'
  BY <1>3, <1>4 DEF CInv, RowTypes
<1>7. s = "cancelled" => WasCancelled(e)'
  BY <1>2, <1>3 DEF WasCancelled
<1>8. \A x : (WasCancelled(x) => WasCancelled(x)') /\ (Gone(x) => Gone(x)')
  BY <1>2, <1>3 DEF WasCancelled, Gone
<1> QED
  BY <1>3, <1>4, <1>5, <1>6, <1>7, <1>8 DEF RowsGoOn

\* One request changes, into an honest one.
LEMMA RequestChanges ==
  ASSUME CInv, RowsGoOn, NEW r \in Requests, NEW B, NEW q \in Asking(B),
         requests' = [requests EXCEPT ![r] = q],
         q.kind = "none" => q = Free,
         q.kind = "cancel" => q.of \in DOMAIN rows',
         q.kind = "cancel" /\ q.served => WasCancelled(q.of)' \/ Gone(q.of)',
         q.kind = "refetch" => WasCancelled(q.of)' \/ Gone(q.of)',
         q.kind = "refetch" /\ q.served =>
           WasCancelled(q.of)' /\ (q.answer[1].status = "cancelled" \/ q.of \in Range(late'))
  PROVE  CInv'
<1>1. PICK A : requests \in [Requests -> Asking(A)]
  BY DEF CInv
<1>2. q \in Asking(A \cup B) /\ \A p \in Asking(A) : p \in Asking(A \cup B)
  BY DEF Asking
<1>3. requests' \in [Requests -> Asking(A \cup B)]
  BY <1>1, <1>2
<1>4. ASSUME NEW s \in Requests PROVE Honest(requests[s])'
  <2>1. CASE s = r
    <3>1. requests'[s] = q
      BY <1>1, <2>1
    <3> QED
      BY <3>1 DEF Honest, WasCancelled, Gone
  <2>2. CASE s # r
    <3>1. requests'[s] = requests[s] /\ Honest(requests[s])
      BY <1>1, <2>2 DEF CInv
    <3>2. PICK p : p = requests[s]
      OBVIOUS
    <3>3. /\ WasCancelled(p.of) => WasCancelled(p.of)' 
          /\ Gone(p.of) => Gone(p.of)'
          /\ p.of \in DOMAIN rows => p.of \in DOMAIN rows'
          /\ p.of \in Range(late) => p.of \in Range(late')
      BY DEF RowsGoOn
    <3>4. Honest(p)
      BY <3>1, <3>2
    <3>5. Honest(p)'
      BY <3>3, <3>4 DEF Honest
    <3> QED
      BY <3>1, <3>2, <3>5 DEF Honest, WasCancelled, Gone
  <2> QED
    BY <2>1, <2>2
<1> QED
  BY <1>3, <1>4 DEF CInv, RowsGoOn

\* No request changes.
LEMMA RequestsAtRest ==
  ASSUME CInv, RowsGoOn, requests' = requests
  PROVE  CInv'
<1>1. ASSUME NEW r \in Requests PROVE Honest(requests[r])'
  <2>1. PICK p : p = requests[r]
    OBVIOUS
  <2>2. /\ WasCancelled(p.of) => WasCancelled(p.of)'
        /\ Gone(p.of) => Gone(p.of)'
        /\ p.of \in DOMAIN rows => p.of \in DOMAIN rows'
        /\ p.of \in Range(late) => p.of \in Range(late')
    BY DEF RowsGoOn
  <2>3. Honest(p)'
    BY <2>1, <2>2 DEF CInv, Honest
  <2> QED
    BY <2>1, <2>3 DEF Honest, WasCancelled, Gone
<1> QED
  BY <1>1 DEF CInv, RowsGoOn

\* What the rest of the world does to the rows.
LEMMA OthersKeep ==
  ASSUME CInv, requests' = requests,
         \/ UNCHANGED executionRows
         \/ \E t \in Jobs : SubmitTask(t) \/ DeleteTask(t)
         \/ \E e \in Alive : Progress(e) \/ CancelByOthers(e) \/ RetryByOthers(e)
  PROVE  CInv'
<1>1. CASE UNCHANGED <<rows, late>> /\ deleted \subseteq deleted'
  BY <1>1, RowsAtRest, RequestsAtRest
<1>2. ASSUME NEW t \in Jobs, NewRow(t), deleted' = deleted PROVE CInv'
  BY <1>2, RowAdded, RequestsAtRest
<1>3. ASSUME NEW e \in Alive, Progress(e) \/ CancelByOthers(e) PROVE CInv'
  <2>1. /\ e \in DOMAIN rows /\ deleted' = deleted /\ "cancelled" \in Statuses
        /\ \E s \in Statuses : Update(e, s)
    BY <1>3 DEF CInv, RowTypes, Alive, Rows, Progress, CancelByOthers
  <2> QED
    BY <2>1, RowMoved, RequestsAtRest
<1>4. ASSUME NEW e \in Alive, RetryByOthers(e) PROVE CInv'
  <2>1. rows[e].job \in Jobs /\ NewRow(rows[e].job) /\ deleted' = deleted
    BY <1>4, JobsOfRows DEF Alive, Rows, RetryByOthers
  <2> QED
    BY <1>2, <2>1
<1> QED
  BY <1>1, <1>2, <1>3, <1>4 DEF SubmitTask, DeleteTask, executionRows

\* The requests of the page, served or not, answered in any order or lost.
LEMMA RequestsKeep ==
  ASSUME CInv, NEW r \in Requests,
         \/ Poll(r) \/ Serve(r) \/ Lose(r) \/ Take(r)
         \/ \E e \in Rows : ClickCancel(r, e) \/ ClickRetry(r, e)
  PROVE  CInv'
<1>0. PICK A : requests \in [Requests -> Asking(A)]
  BY DEF CInv
<1>1. /\ requests[r] \in Asking(A) /\ Honest(requests[r]) /\ Free \in Asking({<< >>})
      /\ Free.kind = "none"
  BY <1>0 DEF CInv, Free, Asking
<1>2. UNCHANGED executionRows => RowsGoOn
  BY RowsAtRest DEF executionRows
<1>3. ASSUME requests' = [requests EXCEPT ![r] = Free], UNCHANGED executionRows PROVE CInv'
  BY <1>1, <1>2, <1>3, RequestChanges
\* A new request.
<1>4. ASSUME NEW k \in {"list", "cancel", "refetch", "retry"}, NEW e \in Nat, UNCHANGED executionRows,
             requests' = [requests EXCEPT ![r] = Ask(k, e)],
             k = "cancel" => e \in DOMAIN rows,
             k = "refetch" => WasCancelled(e) \/ Gone(e)
      PROVE  CInv'
  <2>1. /\ Ask(k, e) \in Asking({<< >>}) /\ ~Ask(k, e).served
        /\ Ask(k, e).kind = k /\ Ask(k, e).of = e
    BY DEF Ask, Free, Asking
  <2>2. /\ WasCancelled(e) => WasCancelled(e)'
        /\ Gone(e) => Gone(e)'
        /\ e \in DOMAIN rows => e \in DOMAIN rows'
    BY <1>2, <1>4 DEF RowsGoOn
  <2> QED
    BY <1>2, <1>4, <2>1, <2>2, RequestChanges
\* An answer is given.
<1>5. ASSUME NEW a, NEW e, e = requests[r].of,
             RowsGoOn, Reply(r, a), ~requests[r].served, requests[r] # Free,
             requests[r].kind = "cancel" => WasCancelled(e)' \/ Gone(e)',
             requests[r].kind = "refetch" =>
               WasCancelled(e)' /\ (a[1].status = "cancelled" \/ e \in Range(late'))
      PROVE  CInv'
  <2> DEFINE q == [requests[r] EXCEPT !.served = TRUE, !.answer = a]
  <2>1. requests' = [requests EXCEPT ![r] = q]
    BY <1>5 DEF Reply
  <2>2. q \in Asking({a}) /\ q.kind = requests[r].kind /\ q.of = e /\ q.answer = a
    BY <1>1, <1>5 DEF Asking
  <2> HIDE DEF q
  <2>3. q.kind # "none" /\ (q.kind = "cancel" => e \in DOMAIN rows')
    BY <1>1, <1>5, <2>2 DEF Honest, Free, RowsGoOn
  <2>4. PICK p : p = q
    OBVIOUS
  <2>5. p.of = e /\ p.kind = requests[r].kind /\ p.answer = a /\ p \in Asking({a})
    BY <2>2, <2>4
  <2> QED
    BY <1>5, <2>1, <2>3, <2>4, <2>5, RequestChanges
<1>6. CASE Poll(r) \/ \E e \in Rows : ClickCancel(r, e) \/ ClickRetry(r, e)
  <2>1. rows \in Seq(ExecutionRows) /\ DOMAIN rows \subseteq Nat
    BY DEF CInv, RowTypes
  <2>2. /\ UNCHANGED executionRows
        /\ \E k \in {"list", "cancel", "retry"} : \E e \in Nat :
             /\ requests' = [requests EXCEPT ![r] = Ask(k, e)]
             /\ k = "cancel" => e \in DOMAIN rows
    BY <1>6, <2>1 DEF Poll, ClickCancel, ClickRetry, Send, Rows
  <2> QED
    BY <1>4, <2>2
<1>7. CASE Lose(r)
  BY <1>3, <1>7 DEF Lose
<1>8. CASE Take(r)
  <2>1. UNCHANGED executionRows
    BY <1>8 DEF Take, TakeList, TakeCancelled, TakeRow, TakeRetried
  <2>2. CASE TakeCancelled(r)
    <3>1. PICK e : e = requests[r].of
      OBVIOUS
    <3>2. requests' = [requests EXCEPT ![r] = Ask("refetch", e)] /\ (WasCancelled(e) \/ Gone(e))
      BY <1>1, <2>2, <3>1 DEF TakeCancelled, Answered, Honest
    <3>3. e \in Nat
      BY <1>1, <3>1 DEF Asking
    <3> QED
      BY <1>4, <2>1, <3>2, <3>3
  <2>3. CASE TakeList(r) \/ TakeRow(r) \/ TakeRetried(r)
    BY <1>3, <2>1, <2>3 DEF TakeList, TakeRow, TakeRetried, Done
  <2> QED
    BY <1>8, <2>2, <2>3 DEF Take
<1>9. CASE Serve(r)
  <2>0. ~requests[r].served /\ requests[r] # Free
    BY <1>9 DEF Serve
  <2>e. PICK e : e = requests[r].of
    OBVIOUS
  <2>1. ASSUME Refuse(r) PROVE CInv'
    BY <1>3, <2>1 DEF Refuse
  <2>2. CASE requests[r].kind = "list" /\ ServeList(r)
    BY <1>2, <1>5, <2>0, <2>2 DEF ServeList
  <2>3. CASE requests[r].kind = "refetch" /\ ServeRow(r) /\ e \in Alive
    <3> DEFINE a == <<Entry(e)>>
    <3>1. WasCancelled(e) /\ (Now(e) = "cancelled" \/ e \in Range(late))
      BY <1>1, <2>e, <2>3 DEF Honest, WasCancelled, Gone, Now, CInv, Kept, Alive
    <3>2. a[1].status = Now(e)
      BY DEF Entry
    <3>3. Reply(r, a) /\ UNCHANGED executionRows
      BY <2>e, <2>3 DEF ServeRow
    <3>4. PICK b : b = a
      OBVIOUS
    <3>5. Reply(r, b) /\ b[1].status = Now(e)
      BY <3>2, <3>3, <3>4
    <3>6. RowsGoOn /\ WasCancelled(e)' /\ (b[1].status = "cancelled" \/ e \in Range(late'))
      BY <1>2, <3>1, <3>3, <3>5 DEF RowsGoOn, executionRows
    <3> QED
      BY <1>5, <2>0, <2>e, <2>3, <3>5, <3>6
  <2>4. CASE requests[r].kind = "cancel" /\ CancelIt(r, e)
    <3>1. Reply(r, << >>) /\ deleted' = deleted /\ e \in DOMAIN rows
      BY <1>1, <2>e, <2>4 DEF CancelIt, Honest
    <3>2. CASE e \in Alive /\ Update(e, "cancelled")
      <4>1. "cancelled" \in Statuses
        BY DEF CInv, RowTypes
      <4>2. RowsGoOn /\ WasCancelled(e)'
        BY <3>1, <3>2, <4>1, RowMoved
      <4> QED
        BY <1>5, <2>0, <2>e, <2>4, <3>1, <4>2
    <3>3. CASE e \notin Alive /\ UNCHANGED <<rows, late>>
      <4>1. Gone(e) /\ UNCHANGED executionRows
        BY <3>1, <3>3 DEF Alive, Rows, Gone, executionRows
      <4>2. RowsGoOn /\ Gone(e)'
        BY <1>2, <4>1 DEF RowsGoOn
      <4> QED
        BY <1>5, <2>0, <2>e, <2>4, <3>1, <4>2
    <3> QED
      BY <2>4, <3>2, <3>3 DEF CancelIt
  <2>5. CASE requests[r].kind = "retry" /\ ServeRetry(r)
    <3>1. \/ Refuse(r)
          \/ /\ \E t \in Jobs : NewRow(t)
             /\ \E a : Reply(r, a)
             /\ deleted' = deleted
      BY <2>5, JobsOfRows DEF ServeRetry, Alive, Rows
    <3> QED
      BY <1>5, <2>0, <2>1, <2>5, <3>1, RowAdded
  <2>6. requests[r].kind \in {"none", "list", "cancel", "refetch", "retry"} /\ requests[r].kind # "none"
    BY <1>1, <1>9 DEF Serve, Asking, Honest
  <2>7. \/ Refuse(r) \/ (requests[r].kind = "list" /\ ServeList(r))
        \/ (requests[r].kind = "refetch" /\ ServeRow(r) /\ e \in Alive)
        \/ (requests[r].kind = "cancel" /\ CancelIt(r, e))
        \/ (requests[r].kind = "retry" /\ ServeRetry(r))
    BY <1>9, <2>6, <2>e DEF Serve, RateLimited, ServeRow, ServeCancel
  <2> QED
    BY <2>1, <2>2, <2>3, <2>4, <2>5, <2>7
<1> QED
  BY <1>6, <1>7, <1>8, <1>9

(* CancelTellsTheTruth: what the page reports after a cancel that was        *)
(* accepted is an execution that was cancelled, and says so but for a late   *)
(* write, for any number of rows, late writes and requests, lost or answered *)
(* late (execution-store.ts, cancelExecution).                               *)
THEOREM CancelsAreTrue ==
  ASSUME ConsoleAssumption
  PROVE  ConsoleSpec => []CancelTellsTheTruth
<1>1. ConsoleInit => CInv
  <2> SUFFICES ASSUME ConsoleInit PROVE CInv
    OBVIOUS
  <2>1. rows \in Seq(ExecutionRows) /\ DOMAIN rows = {} /\ late \in Seq(Nat)
    BY DEF ConsoleInit
  <2>2. requests \in [Requests -> Asking({<< >>})] /\ \A r \in Requests : requests[r] = Free
    BY DEF ConsoleInit, Free, Asking
  <2>3. \A r \in Requests : Honest(requests[r])
    BY <2>2 DEF Honest, Free
  <2> QED
    BY <2>1, <2>2, <2>3 DEF CInv, RowTypes, Kept, ConsoleAssumption
<1>2. CInv /\ [ConsoleNext]_consoleVars => CInv'
  <2> SUFFICES ASSUME CInv, [ConsoleNext]_consoleVars PROVE CInv'
    OBVIOUS
  <2>1. ASSUME NEW r \in Requests, Poll(r) \/ Serve(r) \/ Lose(r) \/ Take(r)
                  \/ \E e \in Rows : ClickCancel(r, e) \/ ClickRetry(r, e)
        PROVE  CInv'
    BY <2>1, RequestsKeep
  <2>2. ASSUME \/ \E t \in Jobs : SubmitTask(t) \/ DeleteTask(t)
               \/ \E e \in Alive : Progress(e) \/ CancelByOthers(e) \/ RetryByOthers(e)
        PROVE  CInv'
    <3>1. requests' = requests
      BY <2>2 DEF SubmitTask, DeleteTask, Progress, CancelByOthers, RetryByOthers
    <3> QED
      BY <2>2, <3>1, OthersKeep
  <2>3. CASE UNCHANGED consoleVars
    BY <2>3, OthersKeep DEF consoleVars, executionRows
  <2> QED
    BY <2>1, <2>2, <2>3 DEF ConsoleNext
<1>3. CInv => CancelTellsTheTruth
  BY DEF CInv, Honest, WasCancelled, CancelTellsTheTruth, Answered
<1> QED
  BY <1>1, <1>2, <1>3, PTL DEF ConsoleSpec
=============================================================================
