---------------------------- MODULE EventStream ----------------------------
(***************************************************************************)
(* What the `events` of a sandbox promise (core/src/interfaces/sandbox.ts):*)
(* events are handed out in the order they were pushed, each to one reader;*)
(* the stream is closed once, and a reader is told so when everything      *)
(* pushed before has been handed out.                                      *)
(***************************************************************************)
EXTENDS Naturals, Sequences, FiniteSets

CONSTANT Readers

VARIABLES pushed,   \* events so far, numbered from 1
          taken,    \* how many of them have been handed out
          got,      \* which of them each reader was given
          closed,   \* 0 while the stream is open, else 1 + pushed at that time
          ended     \* readers who were told

vars == <<pushed, taken, got, closed, ended>>

Init ==
  /\ pushed = 0 /\ taken = 0 /\ got = [c \in Readers |-> <<>>]
  /\ closed = 0 /\ ended = {}

\* The numbers of a set, in order.
InOrder(S) ==
  CHOOSE s \in [1 .. Cardinality(S) -> S] : \A i, j \in DOMAIN s : i < j => s[i] < s[j]

\* The next events, in order, each to one reader who was not told the end.
HandOut ==
  /\ taken' \in taken .. pushed'
  /\ \E to \in [taken + 1 .. taken' -> Readers \ ended] :
       got' = [c \in Readers |->
                 got[c] \o InOrder({i \in DOMAIN to : to[i] = c})]

Drained == closed > 0 /\ closed - 1 <= taken

End(c) ==
  /\ Drained
  /\ ended' = ended \cup {c}
  /\ UNCHANGED <<pushed, taken, got, closed>>

\* Events come, or are read; some go at once to readers that waited for them.
Push == pushed' >= pushed /\ HandOut

Send == Push /\ UNCHANGED <<closed, ended>>

\* The same callback may close the stream: those who still wait are told.
Close ==
  /\ Push
  /\ closed = 0 /\ closed' - 1 \in pushed .. pushed'
  /\ ended \subseteq ended'
  /\ ended' = ended \/ Drained'

Next == Send \/ Close \/ \E c \in Readers : End(c)

Spec == Init /\ [][Next]_vars
=============================================================================
