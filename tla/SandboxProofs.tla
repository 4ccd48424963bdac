----------------------------- MODULE SandboxProofs -----------------------------
(***************************************************************************)
(* Proofs of the safety properties of a sandbox for every set of readers,  *)
(* every number of events, commands and turns, and all implementations.    *)
(* RunInv says what may exist in which phase, CommandInv what the poll has *)
(* read, StreamInv how the queue and the readers that wait relate; the     *)
(* last one is what the refinement of EventStream rests on.                *)
(***************************************************************************)
EXTENDS SandboxProperties, SequenceTheorems, FiniteSetTheorems, TLAPS

USE SandboxAssumption

-------------------------------------------------------------------------------
(* What is left of a run *)

\* What may exist in which phase: a timer and a process only after the start, a
\* process only of docker and shell, a poll only while a native run goes on.
RunInv ==
  /\ phase \in {"idle", "checking", "plugin"} => timer = "off" /\ proc = "none"
  /\ phase \in {"checking", "plugin", "starting", "held"} => kind \notin {"docker", "shell"}
  /\ phase = "collected" => timer = "off" /\ proc \in {"ok", "error"}
  /\ kind \notin {"docker", "shell"} => proc = "none"
  /\ polling => Native /\ phase \in {"starting", "running", "held"}
  /\ NothingLeftRunning

\* The first steps of a run.
LEMMA StartsKeepRun == RunInv /\ Starts => RunInv'
<1> SUFFICES ASSUME RunInv, Starts PROVE RunInv'
  OBVIOUS
<1> USE DEF RunInv, NothingLeftRunning, Native, process, commands, Begun
<1>1. CASE ExecuteNative
  BY <1>1 DEF ExecuteNative
<1>2. CASE ExecuteCloudCode
  BY <1>2 DEF ExecuteCloudCode
<1>3. CASE ExecuteWasm \/ EngineFound
  BY <1>3 DEF ExecuteWasm, EngineFound
<1>4. CASE EngineMissing \/ PluginCreated
  BY <1>4 DEF EngineMissing, PluginCreated
<1>5. CASE PluginRaises \/ DockerRejects
  BY <1>5 DEF PluginRaises, DockerRejects
<1>6. CASE DockerRun \/ ShellSpawn
  BY <1>6 DEF DockerRun, ShellSpawn
<1>7. CASE DockerRaises \/ ShellFails
  BY <1>7 DEF DockerRaises, ShellFails
<1> QED
  BY <1>1, <1>2, <1>3, <1>4, <1>5, <1>6, <1>7 DEF Starts

\* The agent's loop.
LEMMA LoopKeepsRun == RunInv /\ Loop => RunInv'
<1> SUFFICES ASSUME RunInv, Loop PROVE RunInv'
  OBVIOUS
<1> USE DEF RunInv, NothingLeftRunning, Native, process, commands
<1>1. CASE Imported \/ Hold
  BY <1>1 DEF Imported, Hold
<1>2. ASSUME NEW k, NEW turn, Handle(k, turn) PROVE RunInv'
  BY <1>2 DEF Handle
<1>3. CASE LoopLeft
  BY <1>3 DEF LoopLeft
<1>4. CASE SdkRaises
  BY <1>4 DEF SdkRaises
<1>5. CASE CloudCodeEnds
  BY <1>5 DEF CloudCodeEnds
<1> QED
  BY <1>1, <1>2, <1>3, <1>4, <1>5 DEF Loop, Message

\* The container or script.
LEMMA ProcessKeepsRun == RunInv /\ Process => RunInv'
<1> SUFFICES ASSUME RunInv, Process PROVE RunInv'
  OBVIOUS
<1> USE DEF RunInv, NothingLeftRunning, Native, run, process, commands
<1>1. CASE ContainerUp \/ PipesClose
  BY <1>1 DEF ContainerUp, PipesClose
<1>2. CASE Exit
  BY <1>2 DEF Exit
<1>3. CASE Collect
  BY <1>3 DEF Collect
<1>4. CASE ShellReport
  BY <1>4 DEF ShellReport
<1>5. ASSUME NEW n, DockerReport(n) PROVE RunInv'
  BY <1>5 DEF DockerReport
<1>6. CASE ShellLosesOutput
  BY <1>6 DEF ShellLosesOutput
<1>7. CASE DockerLosesOutput
  BY <1>7 DEF DockerLosesOutput, CatchStatus
<1> QED
  BY <1>1, <1>2, <1>3, <1>4, <1>5, <1>6, <1>7 DEF Process

\* The timer, cancel() and the bus.
LEMMA OutsideKeepsRun == RunInv /\ Outside => RunInv'
<1> SUFFICES ASSUME RunInv, Outside PROVE RunInv'
  OBVIOUS
<1> USE DEF RunInv, NothingLeftRunning, Native, run, process
<1>1. CASE TimerFires
  BY <1>1 DEF TimerFires, Stopped, commands
<1>2. CASE Cancel
  BY <1>2 DEF Cancel, Stopped
<1>3. CASE PollCommands \/ PollRaises
  BY <1>3 DEF PollCommands, PollRaises, Act
<1>4. ASSUME NEW type, SendCommand(type) PROVE RunInv'
  BY <1>4 DEF SendCommand
<1> QED
  BY <1>1, <1>2, <1>3, <1>4 DEF Outside

\* Readers change nothing but the stream.
LEMMA ReaderSteps ==
  ASSUME NEW c \in Readers, Reader(c)
  PROVE  UNCHANGED <<kind, bus, run, process, agent, commands>>
BY DEF Reader, Read, ReadEnd, Await

\* The invariant holds in every reachable state.
THEOREM RunInvariance == Spec => []RunInv
<1>1. Init => RunInv
  BY DEF Init, RunInv, NothingLeftRunning
<1>2. RunInv /\ [Next]_vars => RunInv'
  <2>1. ASSUME RunInv, UNCHANGED <<kind, bus, run, process, agent, commands>> PROVE RunInv'
    BY <2>1 DEF RunInv, NothingLeftRunning, Native, run, process, commands
  <2>2. UNCHANGED vars => UNCHANGED <<kind, bus, run, process, agent, commands>>
    BY DEF vars
  <2> QED
    BY <2>1, <2>2, StartsKeepRun, LoopKeepsRun, ProcessKeepsRun, OutsideKeepsRun, ReaderSteps DEF Next
<1> QED
  BY <1>1, <1>2, PTL DEF Spec

(* NothingLeftRunning: when execute() has settled, by whichever path, its    *)
(* timer is off, its poll for commands is cleared and its script or its      *)
(* container has exited; only docker, when it lost the output and says so,   *)
(* leaves a container behind.                                                *)
THEOREM NothingIsLeft == Spec => []NothingLeftRunning
<1>1. RunInv => NothingLeftRunning
  BY DEF RunInv
<1> QED
  BY <1>1, RunInvariance, PTL

-------------------------------------------------------------------------------
(* Commands *)

\* What is acknowledged was sent; together with the property this is inductive.
CommandInv ==
  /\ cmds \in Seq({"command", "pause", "resume"})
  /\ acked \in Nat /\ acted \in Nat /\ paused \in BOOLEAN
  /\ CommandsTakeEffect

\* Acting upon every row that is not acknowledged, some of them again, leaves the
\* word of the latest row.
LEMMA LastWord ==
  ASSUME CommandInv
  PROVE  (IF \A i \in Pending : cmds[i] = "command" THEN paused
          ELSE \E i \in Pending : /\ cmds[i] = "pause"
                                  /\ \A j \in Pending : j > i => cmds[j] # "resume")
         <=> SayPause(Len(cmds))
<1> DEFINE n == Len(cmds)
           word(i) == cmds[i]
<1>1. /\ acked \in Nat /\ acted \in Nat /\ n \in Nat /\ acked <= acted /\ acted <= n
      /\ paused <=> SayPause(acted)
      /\ \A i \in 1 .. n : cmds[i] \in {"command", "pause", "resume"}
  BY DEF CommandInv, CommandsTakeEffect
<1> HIDE DEF n
<1>2. Pending = (acked + 1) .. n
  BY DEF Pending, n
<1>3. CASE \A i \in Pending : cmds[i] = "command"
  <2>1. SayPause(acted) => SayPause(n)
    BY <1>1, <1>2, <1>3 DEF SayPause
  <2>2. SayPause(n) => SayPause(acted)
    BY <1>1, <1>2, <1>3 DEF SayPause
  <2> QED
    BY <1>1, <1>3, <2>1, <2>2 DEF n
<1>4. CASE ~\A i \in Pending : cmds[i] = "command"
  <2>1. ASSUME NEW i \in Pending, cmds[i] = "pause", \A j \in Pending : j > i => cmds[j] # "resume"
        PROVE  SayPause(n)
    BY <1>1, <1>2, <2>1 DEF SayPause
  <2>2. ASSUME SayPause(n)
        PROVE  \E i \in Pending : cmds[i] = "pause" /\ \A j \in Pending : j > i => cmds[j] # "resume"
    <3>1. PICK i \in 1 .. n : cmds[i] = "pause" /\ \A j \in 1 .. n : j > i => cmds[j] # "resume"
      BY <2>2 DEF SayPause
    <3>2. CASE i \in Pending
      BY <1>1, <1>2, <3>1, <3>2
    <3>3. CASE i \notin Pending
      <4>1. PICK k \in Pending : cmds[k] # "command"
        BY <1>4
      <4>2. \A j \in Pending : j \in 1 .. n /\ j > i /\ cmds[j] # "resume"
        BY <1>1, <1>2, <3>1, <3>3
      <4>3. cmds[k] = "pause"
        BY <1>1, <4>1, <4>2
      <4> QED
        BY <4>2, <4>3
    <3> QED
      BY <3>2, <3>3
  <2> QED
    BY <1>4, <2>1, <2>2 DEF n
<1> QED
  BY <1>3, <1>4

\* Only SendCommand and the poll touch the rows and the flag.
LEMMA RowsRest ==
  ASSUME [Next]_vars, ~PollCommands, ~PollRaises, \A type \in {"command", "pause", "resume"} : ~SendCommand(type)
  PROVE  UNCHANGED <<cmds, acked, acted, paused>>
<1> USE DEF commands
<1>1. Starts => UNCHANGED <<cmds, acked, acted, paused>>
  BY DEF Starts, ExecuteNative, ExecuteCloudCode, ExecuteWasm, EngineMissing, EngineFound, PluginCreated,
         PluginRaises, DockerRun, DockerRejects, DockerRaises, ShellSpawn, ShellFails
<1>2. Loop => UNCHANGED <<cmds, acked, acted, paused>>
  BY DEF Loop, Imported, Hold, Message, Handle, LoopLeft, SdkRaises, CloudCodeEnds
<1>3. Process => UNCHANGED <<cmds, acked, acted, paused>>
  BY DEF Process, ContainerUp, Exit, Collect, PipesClose, ShellReport, ShellLosesOutput,
         DockerLosesOutput, DockerReport
<1>4. TimerFires \/ Cancel \/ UNCHANGED vars => UNCHANGED <<cmds, acked, acted, paused>>
  BY DEF TimerFires, Cancel, vars
<1> QED
  BY <1>1, <1>2, <1>3, <1>4, ReaderSteps DEF Next, Outside

\* Rows behind the first n change nothing in what those say.
LEMMA MoreRows ==
  ASSUME NEW new \in Seq({"command", "pause", "resume"}), NEW n \in Nat, CommandInv, n <= Len(cmds),
         cmds' = cmds \o new
  PROVE  /\ cmds' \in Seq({"command", "pause", "resume"}) /\ Len(cmds) <= Len(cmds')
         /\ \A i \in 1 .. n : cmds'[i] = cmds[i]
<1>1. cmds \in Seq({"command", "pause", "resume"}) /\ Len(cmds) \in Nat /\ Len(new) \in Nat
  BY DEF CommandInv
<1>2. /\ cmds' \in Seq({"command", "pause", "resume"}) /\ Len(cmds') = Len(cmds) + Len(new)
      /\ \A i \in 1 .. Len(cmds) + Len(new) : cmds'[i] = IF i <= Len(cmds) THEN cmds[i] ELSE new[i - Len(cmds)]
  BY <1>1, ConcatProperties
<1> QED
  BY <1>1, <1>2

\* The invariant holds in every reachable state.
THEOREM CommandInvariance == Spec => []CommandInv
<1>1. Init => CommandInv
  <2> SUFFICES ASSUME Init PROVE CommandInv
    OBVIOUS
  <2>1. /\ cmds \in Seq({"command", "pause", "resume"}) /\ Len(cmds) = 0
        /\ acked = 0 /\ acted = 0 /\ paused = FALSE
    BY EmptySeq DEF Init
  <2>2. ~SayPause(acted)
    BY <2>1 DEF SayPause
  <2>3. acked <= acted /\ acted <= Len(cmds)
    BY <2>1
  <2>4. SayPause(acted) \in BOOLEAN
    BY DEF SayPause
  <2>5. paused = SayPause(acted)
    BY <2>1, <2>2, <2>4, Zenon
  <2>6. CommandsTakeEffect
    BY <2>3, <2>5, Zenon DEF CommandsTakeEffect
  <2> QED
    BY <2>1, <2>6 DEF CommandInv
<1>2. CommandInv /\ [Next]_vars => CommandInv'
  <2> SUFFICES ASSUME CommandInv, [Next]_vars PROVE CommandInv'
    OBVIOUS
  <2>1. /\ cmds \in Seq({"command", "pause", "resume"}) /\ Len(cmds) \in Nat
        /\ acked \in Nat /\ acted \in Nat /\ acked <= acted /\ acted <= Len(cmds)
        /\ paused = SayPause(acted) /\ paused \in BOOLEAN
    BY DEF CommandInv, CommandsTakeEffect
  <2>2. ASSUME Act, acked' \in {acked, Len(cmds)}, NEW new \in Seq({"command", "pause", "resume"}),
               cmds' = cmds \o new
        PROVE  CommandInv'
    <3>1. acted' = Len(cmds) /\ paused' \in BOOLEAN
      BY <2>1, <2>2 DEF Act
    <3>2. paused' <=> SayPause(Len(cmds))
      BY <2>2, LastWord DEF Act
    <3>3. /\ cmds' \in Seq({"command", "pause", "resume"}) /\ Len(cmds) <= Len(cmds')
          /\ \A i \in 1 .. Len(cmds) : cmds'[i] = cmds[i]
      BY <2>1, <2>2, MoreRows
    <3>4. (\E i \in 1 .. acted' : cmds'[i] = "pause" /\ \A j \in 1 .. acted' : j > i => cmds'[j] # "resume")
          <=> SayPause(Len(cmds))
      BY <3>1, <3>3 DEF SayPause
    <3>5. acked' \in Nat /\ acted' \in Nat /\ acked' <= acted' /\ acted' <= Len(cmds')
      BY <2>1, <2>2, <3>1, <3>3
    <3> QED
      BY <3>1, <3>2, <3>3, <3>4, <3>5 DEF CommandInv, CommandsTakeEffect, SayPause
  <2>3. CASE PollCommands
    <3>1. PICK new \in Arrives : cmds' = cmds \o new
      BY <2>3 DEF PollCommands
    <3>2. << >> \in Seq({"command", "pause", "resume"})
          /\ \A type \in {"command", "pause", "resume"} : <<type>> \in Seq({"command", "pause", "resume"})
      OBVIOUS
    <3>3. Arrives \subseteq {<< >>} \cup {<<type>> : type \in {"command", "pause", "resume"}}
      BY DEF Arrives
    <3>4. new \in Seq({"command", "pause", "resume"})
      BY <3>1, <3>2, <3>3
    <3> QED
      BY <2>2, <2>3, <3>1, <3>4 DEF PollCommands
  <2>4. CASE PollRaises
    <3>1. << >> \in Seq({"command", "pause", "resume"}) /\ cmds' = cmds \o << >>
      BY <2>1, <2>4, ConcatEmptySeq DEF PollRaises
    <3> QED
      BY <2>2, <2>4, <3>1 DEF PollRaises
  <2>5. ASSUME NEW type \in {"command", "pause", "resume"}, SendCommand(type) PROVE CommandInv'
    <3>1. /\ <<type>> \in Seq({"command", "pause", "resume"}) /\ cmds' = Append(cmds, type)
          /\ UNCHANGED <<acked, acted, paused>>
      BY <2>5 DEF SendCommand
    <3>2. /\ cmds' \in Seq({"command", "pause", "resume"}) /\ Len(cmds') = Len(cmds) + 1
          /\ \A i \in 1 .. Len(cmds) : cmds'[i] = cmds[i]
      BY <2>1, <3>1, AppendProperties
    <3>3. (\E i \in 1 .. acted' : cmds'[i] = "pause" /\ \A j \in 1 .. acted' : j > i => cmds'[j] # "resume")
          <=> SayPause(acted)
      BY <2>1, <3>1, <3>2 DEF SayPause
    <3>4. acked' \in Nat /\ acted' \in Nat /\ acked' <= acted' /\ acted' <= Len(cmds')
      BY <2>1, <3>1, <3>2
    <3>5. paused' \in BOOLEAN /\ (paused' <=> SayPause(acted))
      BY <2>1, <3>1
    <3> QED
      BY <3>2, <3>3, <3>4, <3>5 DEF CommandInv, CommandsTakeEffect, SayPause
  <2>6. CASE UNCHANGED <<cmds, acked, acted, paused>>
    BY <2>6 DEF CommandInv, CommandsTakeEffect, SayPause
  <2> QED
    BY <2>3, <2>4, <2>5, <2>6, RowsRest DEF Next, Outside
<1> QED
  BY <1>1, <1>2, PTL DEF Spec

(* CommandsTakeEffect: whatever is sent while the poll runs, and whichever   *)
(* acknowledgements raise, no command is acknowledged before it was acted    *)
(* upon, and the run is paused exactly when the latest word acted upon says  *)
(* so (the poll of native and the message bus).                              *)
THEOREM CommandsAreNotLost == Spec => []CommandsTakeEffect
<1>1. CommandInv => CommandsTakeEffect
  BY DEF CommandInv
<1> QED
  BY <1>1, CommandInvariance, PTL

-------------------------------------------------------------------------------
(* The stream implements EventStream *)

\* The queue holds the latest events, readers wait only when it is empty, each
\* once, and nobody waits once the stream is closed, which ends the run.
StreamInv ==
  /\ pushed \in Nat /\ atClose \in Nat /\ done \in BOOLEAN
  /\ got \in [Readers -> Seq(Nat)] /\ view \in [Readers -> {"reading", "ended", "empty"}]
  /\ queue \in Seq(Nat) /\ Len(queue) <= pushed
  /\ \A i \in 1 .. Len(queue) : queue[i] = pushed - Len(queue) + i
  /\ waiting \in Seq(Readers)
  /\ \A i, j \in 1 .. Len(waiting) : waiting[i] = waiting[j] => i = j
  /\ \A i \in 1 .. Len(waiting) : view[waiting[i]] = "reading"
  /\ waiting # << >> => queue = << >>
  /\ done => waiting = << >> /\ atClose <= pushed /\ phase = "ended"

\* The variables of EventStream.
Taken == pushed - Len(queue)
Closed == IF done THEN atClose + 1 ELSE 0
Told == {c \in Readers : view[c] = "ended"}

\* Cardinality is the same in both modules.
LEMMA SameCardinality == \A S : Stream!Cardinality(S) = Cardinality(S)
BY DEF Cardinality, Stream!Cardinality

\* No number, or one number, in order.
LEMMA Ordered ==
  /\ Stream!InOrder({}) = << >>
  /\ \A n \in Nat : Stream!InOrder({n}) = <<n>>
<1>1. Stream!InOrder({}) = << >>
  <2>1. Cardinality({}) = 0 /\ 1 .. 0 = {}
    BY FS_EmptySet
  <2>2. << >> \in [1 .. 0 -> {}] /\ DOMAIN << >> = {}
    BY <2>1
  <2>3. \A s \in [1 .. 0 -> {}] : s = << >>
    BY <2>1
  <2>4. \E s \in [1 .. Cardinality({}) -> {}] : \A i, j \in DOMAIN s : i < j => s[i] < s[j]
    BY <2>1, <2>2
  <2>5. Stream!InOrder({}) \in [1 .. Cardinality({}) -> {}]
    BY <2>4, SameCardinality DEF Stream!InOrder
  <2> QED
    BY <2>1, <2>3, <2>5
<1>2. ASSUME NEW n \in Nat PROVE Stream!InOrder({n}) = <<n>>
  <2>1. Cardinality({n}) = 1 /\ 1 .. 1 = {1}
    BY FS_Singleton
  <2>2. <<n>> \in [1 .. 1 -> {n}]
    OBVIOUS
  <2>3. \A s \in [1 .. 1 -> {n}] : s = <<n>> /\ DOMAIN s = {1}
    <3> SUFFICES ASSUME NEW s \in [1 .. 1 -> {n}] PROVE s = <<n>> /\ DOMAIN s = {1}
      OBVIOUS
    <3>0. s = [i \in 1 .. 1 |-> n]
      BY <2>1
    <3>1. s \in Seq({n}) /\ Len(s) = 1 /\ s[1] = n
      BY <3>0
    <3>2. <<n>> \in Seq({n}) /\ Len(<<n>>) = 1 /\ <<n>>[1] = n
      OBVIOUS
    <3> QED
      BY <2>1, <3>1, <3>2, SeqEqual
  <2>4. \E s \in [1 .. Cardinality({n}) -> {n}] : \A i, j \in DOMAIN s : i < j => s[i] < s[j]
    BY <2>1, <2>2, <2>3
  <2>5. Stream!InOrder({n}) \in [1 .. Cardinality({n}) -> {n}]
    BY <2>4, SameCardinality DEF Stream!InOrder
  <2> QED
    BY <2>1, <2>3, <2>5
<1> QED
  BY <1>1, <1>2

\* The next events go to different readers who were not told the end.
LEMMA Handing ==
  ASSUME StreamInv, pushed' \in Nat, Taken' \in Taken .. pushed',
         NEW to \in [Taken + 1 .. Taken' -> Readers \ Told],
         \A m, n \in Taken + 1 .. Taken' : to[m] = to[n] => m = n,
         got' \in [Readers -> Seq(Nat)],
         \A n \in Taken + 1 .. Taken' : got'[to[n]] = Append(got[to[n]], n),
         \A c \in Readers : (\A n \in Taken + 1 .. Taken' : to[n] # c) => got'[c] = got[c]
  PROVE  Stream!HandOut
<1>0. Taken \in Nat /\ DOMAIN to = Taken + 1 .. Taken' /\ Taken + 1 .. Taken' \subseteq Nat
  BY DEF StreamInv, Taken
<1> DEFINE handed(c) == {n \in DOMAIN to : to[n] = c}
<1>1. ASSUME NEW c \in Readers PROVE got'[c] = got[c] \o Stream!InOrder(handed(c))
  <2>0. got[c] \in Seq(Nat)
    BY DEF StreamInv
  <2>1. CASE \A n \in Taken + 1 .. Taken' : to[n] # c
    <3>1. handed(c) = {}
      BY <1>0, <2>1
    <3> HIDE DEF handed
    <3> QED
      BY <2>0, <2>1, <3>1, Ordered, ConcatEmptySeq
  <2>2. CASE \E n \in Taken + 1 .. Taken' : to[n] = c
    <3>1. PICK n \in Taken + 1 .. Taken' : to[n] = c
      BY <2>2
    <3>2. handed(c) = {n} /\ n \in Nat
      BY <1>0, <3>1
    <3> HIDE DEF handed
    <3>3. Stream!InOrder(handed(c)) = <<n>> /\ got'[c] = Append(got[c], n)
      BY <3>1, <3>2, Ordered
    <3>4. got[c] \o <<n>> = Append(got[c], n)
      BY <2>0, <3>2
    <3> QED
      BY <3>3, <3>4
  <2> QED
    BY <2>1, <2>2
<1>2. got' = [c \in Readers |-> got[c] \o Stream!InOrder(handed(c))]
  BY <1>1
<1> HIDE DEF Taken, Told
<1>3. \E f \in [Taken + 1 .. Taken' -> Readers \ Told] :
        got' = [c \in Readers |-> got[c] \o Stream!InOrder({n \in DOMAIN f : f[n] = c})]
  BY <1>2
<1> QED
  BY <1>3 DEF Stream!HandOut, Taken, Told

\* What a callback emits goes first to those who wait, then to the queue.
LEMMA Emitted ==
  ASSUME StreamInv, NEW k \in Nat, NEW late \in Nat, NEW close, Emit(k, close, late)
  PROVE  /\ pushed' = pushed + k + late /\ queue' \in Seq(Nat) /\ Len(queue') <= pushed'
         /\ \A i \in 1 .. Len(queue') : queue'[i] = pushed' - Len(queue') + i
         /\ Rest(k) \in Seq(Readers) /\ Len(Rest(k)) \in Nat
         /\ \A i \in 1 .. Len(Rest(k)) : \E j \in 1 .. Len(waiting) :
              j = i + Handed(k) /\ Rest(k)[i] = waiting[j]
         /\ Rest(k) # << >> => Len(queue') = late
         /\ Rest(k) # << >> => waiting # << >> /\ Taken' = pushed + k
         /\ got' \in [Readers -> Seq(Nat)]
         /\ Stream!HandOut
<1> DEFINE h == Handed(k)
<1>0. /\ pushed \in Nat /\ queue \in Seq(Nat) /\ Len(queue) \in Nat /\ Len(queue) <= pushed
      /\ waiting \in Seq(Readers) /\ Len(waiting) \in Nat
      /\ got \in [Readers -> Seq(Nat)]
      /\ \A i \in 1 .. Len(queue) : queue[i] = pushed - Len(queue) + i
  BY DEF StreamInv
<1>1. /\ h \in Nat /\ h <= k /\ h <= Len(waiting) /\ (h = k \/ h = Len(waiting))
      /\ h = 0 \/ Len(queue) = 0
  <2>1. Len(waiting) = 0 \/ Len(queue) = 0
    BY EmptySeq DEF StreamInv
  <2> QED
    BY <1>0, <2>1 DEF Handed
<1>2. pushed' = pushed + k + late /\ queue' = queue \o Queued(k, late)
  BY DEF Emit
<1>3. /\ Queued(k, late) \in Seq(Nat) /\ Len(Queued(k, late)) = k + late - h
      /\ \A i \in 1 .. (k + late - h) : Queued(k, late)[i] = pushed + h + i
  <2> HIDE DEF h
  <2>1. Queued(k, late) = [i \in 1 .. (k + late - h) |-> pushed + h + i]
    BY DEF Queued, h
  <2>2. k + late - h \in Nat /\ \A i \in 1 .. (k + late - h) : pushed + h + i \in Nat
    BY <1>0, <1>1
  <2> QED
    BY <2>1, <2>2
<1> HIDE DEF h
<1>4. /\ queue' \in Seq(Nat) /\ Len(queue') = Len(queue) + (k + late - h) /\ Len(queue') \in Nat
      /\ \A i \in 1 .. Len(queue') : queue'[i] = IF i <= Len(queue) THEN queue[i]
                                                 ELSE Queued(k, late)[i - Len(queue)]
  <2> DEFINE q == Queued(k, late)
  <2> HIDE DEF q
  <2>1. q \in Seq(Nat) /\ Len(q) = k + late - h /\ queue' = queue \o q
    BY <1>2, <1>3 DEF q
  <2>2. /\ queue' \in Seq(Nat) /\ Len(queue') = Len(queue) + Len(q)
        /\ \A i \in 1 .. Len(queue) + Len(q) :
             queue'[i] = IF i <= Len(queue) THEN queue[i] ELSE q[i - Len(queue)]
    BY <1>0, <2>1, ConcatProperties
  <2> QED
    BY <1>0, <2>1, <2>2 DEF q
<1>5. pushed' - Len(queue') = pushed - Len(queue) + h /\ Len(queue') <= pushed' /\ pushed' \in Nat
  BY <1>0, <1>1, <1>2, <1>4
<1>6. ASSUME NEW i \in 1 .. Len(queue') PROVE queue'[i] = pushed' - Len(queue') + i
  <2>1. CASE i <= Len(queue)
    <3>1. h = 0 /\ i \in 1 .. Len(queue)
      BY <1>0, <1>1, <1>4, <2>1
    <3>2. queue'[i] = pushed - Len(queue) + i
      BY <1>0, <1>4, <2>1, <3>1
    <3>3. pushed' - Len(queue') = pushed - Len(queue)
      BY <1>0, <1>5, <3>1
    <3> QED
      BY <3>2, <3>3
  <2>2. CASE ~(i <= Len(queue))
    <3>1. i - Len(queue) \in 1 .. (k + late - h)
      BY <1>0, <1>1, <1>4, <2>2
    <3>2. queue'[i] = pushed + h + (i - Len(queue))
      BY <1>3, <1>4, <2>2, <3>1
    <3> QED
      BY <1>0, <1>1, <1>4, <1>5, <2>2, <3>2
  <2> QED
    BY <2>1, <2>2
<1>7. /\ Rest(k) \in Seq(Readers) /\ Len(Rest(k)) = Len(waiting) - h
      /\ \A i \in 1 .. (Len(waiting) - h) : Rest(k)[i] = waiting[i + h]
  <2>1. Rest(k) = SubSeq(waiting, h + 1, Len(waiting))
    BY DEF Rest, h
  <2>2. \A i \in h + 1 .. Len(waiting) : waiting[i] \in Readers
    BY <1>0, <1>1
  <2>3. /\ Rest(k) \in Seq(Readers)
        /\ Len(Rest(k)) = IF h + 1 <= Len(waiting) THEN Len(waiting) - (h + 1) + 1 ELSE 0
        /\ \A i \in 1 .. Len(waiting) - (h + 1) + 1 : Rest(k)[i] = waiting[h + 1 + i - 1]
    BY <1>0, <1>1, <2>1, <2>2, SubSeqProperties
  <2>4. Len(Rest(k)) = Len(waiting) - h
    BY <1>0, <1>1, <2>3
  <2>5. ASSUME NEW i \in 1 .. (Len(waiting) - h) PROVE Rest(k)[i] = waiting[i + h]
    <3>1. i \in 1 .. Len(waiting) - (h + 1) + 1 /\ h + 1 + i - 1 = i + h
      BY <1>0, <1>1
    <3> QED
      BY <2>3, <3>1
  <2> QED
    BY <2>3, <2>4, <2>5
<1>8. \A i \in 1 .. Len(Rest(k)) : \E j \in 1 .. Len(waiting) : j = i + Handed(k) /\ Rest(k)[i] = waiting[j]
  <2> SUFFICES ASSUME NEW i \in 1 .. Len(Rest(k))
               PROVE  i + h \in 1 .. Len(waiting) /\ Rest(k)[i] = waiting[i + h]
    BY DEF h
  <2> QED
    BY <1>0, <1>1, <1>7
<1>9. ASSUME Rest(k) # << >>
      PROVE  Len(queue') = late /\ waiting # << >> /\ Taken' = pushed + k
  <2>1. Len(Rest(k)) # 0
    BY <1>7, <1>9, EmptySeq
  <2>2. h = k /\ Len(waiting) # 0
    BY <1>0, <1>1, <1>7, <2>1
  <2>3. waiting # << >> /\ Len(queue) = 0
    BY <2>2, EmptySeq DEF StreamInv
  <2>4. Len(queue') = late
    BY <1>4, <2>2, <2>3
  <2>5. pushed' - Len(queue') = pushed + k
    BY <1>0, <1>5, <2>2, <2>3
  <2> QED
    BY <2>3, <2>4, <2>5 DEF Taken
<1>10. /\ \A i \in 1 .. h : waiting[i] \in Readers /\ view[waiting[i]] = "reading"
       /\ \A i, j \in 1 .. h : waiting[i] = waiting[j] => i = j
       /\ h # 0 => pushed - Len(queue) = pushed
  <2>1. 1 .. h \subseteq 1 .. Len(waiting)
    BY <1>0, <1>1
  <2>2. /\ \A i, j \in 1 .. Len(waiting) : waiting[i] = waiting[j] => i = j
        /\ \A i \in 1 .. Len(waiting) : waiting[i] \in Readers /\ view[waiting[i]] = "reading"
    BY <1>0 DEF StreamInv
  <2>3. h # 0 => pushed - Len(queue) = pushed
    BY <1>0, <1>1
  <2> QED
    BY <2>1, <2>2, <2>3
<1>11. got' = [c \in Readers |->
                 IF \E i \in 1 .. h : waiting[i] = c
                 THEN Append(got[c], pushed + CHOOSE i \in 1 .. h : waiting[i] = c)
                 ELSE got[c]]
  BY DEF Emit, h
<1>12. ASSUME NEW i \in 1 .. h
       PROVE  got'[waiting[i]] = Append(got[waiting[i]], pushed + i) /\ pushed + i \in Nat
  <2>1. (CHOOSE j \in 1 .. h : waiting[j] = waiting[i]) = i
    BY <1>10
  <2>2. waiting[i] \in Readers
    BY <1>10
  <2>3. got'[waiting[i]] = Append(got[waiting[i]], pushed + i)
    <3> DEFINE c == waiting[i]
    <3>1. c \in Readers /\ (CHOOSE j \in 1 .. h : waiting[j] = c) = i /\ \E j \in 1 .. h : waiting[j] = c
      BY <2>1, <2>2
    <3> HIDE DEF c
    <3>2. got'[c] = Append(got[c], pushed + i)
      BY <1>11, <3>1
    <3> QED
      BY <3>2 DEF c
  <2>4. pushed + i \in Nat
    BY <1>0, <1>1
  <2> QED
    BY <2>3, <2>4
<1>13. \A c \in Readers : (\A i \in 1 .. h : waiting[i] # c) => got'[c] = got[c]
  BY <1>11
<1>14. got' \in [Readers -> Seq(Nat)]
  <2>1. ASSUME NEW c \in Readers PROVE got'[c] \in Seq(Nat)
    <3>1. CASE \E i \in 1 .. h : waiting[i] = c
      <4>1. PICK i \in 1 .. h : waiting[i] = c
        BY <3>1
      <4>2. got'[c] = Append(got[c], pushed + i) /\ pushed + i \in Nat
        BY <1>12, <4>1
      <4> QED
        BY <1>0, <4>2
    <3> QED
      BY <1>0, <1>13, <3>1
  <2> QED
    BY <1>11, <2>1
<1>15. Stream!HandOut
  <2> DEFINE to == [n \in Taken + 1 .. Taken' |-> waiting[n - Taken]]
  <2>1. Taken \in Nat /\ Taken' = Taken + h /\ Taken' \in Taken .. pushed' /\ (h # 0 => Taken = pushed)
    <3>1. pushed - Len(queue) \in Nat /\ pushed' - Len(queue') = pushed - Len(queue) + h
      BY <1>0, <1>5
    <3>2. pushed' - Len(queue') <= pushed' /\ pushed - Len(queue) <= pushed - Len(queue) + h
      BY <1>0, <1>1, <1>4, <1>5
    <3> QED
      BY <1>1, <1>5, <1>10, <3>1, <3>2 DEF Taken
  <2>2. \A n \in Taken + 1 .. Taken' : n - Taken \in 1 .. h /\ n = pushed + (n - Taken)
    BY <1>0, <1>1, <2>1
  <2> HIDE DEF Taken
  <2>3. to \in [Taken + 1 .. Taken' -> Readers \ Told]
    BY <1>10, <2>2 DEF Told
  <2>4. \A n \in Taken + 1 .. Taken' : to[n] = waiting[n - Taken]
    OBVIOUS
  <2> HIDE DEF to
  <2>5. \A m, n \in Taken + 1 .. Taken' : to[m] = to[n] => m = n
    <3> SUFFICES ASSUME NEW m \in Taken + 1 .. Taken', NEW n \in Taken + 1 .. Taken', to[m] = to[n]
                 PROVE  m = n
      OBVIOUS
    <3>1. m - Taken = n - Taken
      BY <1>10, <2>2, <2>4
    <3> QED
      BY <2>2, <3>1
  <2>6. \A n \in Taken + 1 .. Taken' : got'[to[n]] = Append(got[to[n]], n)
    BY <1>12, <2>2, <2>4
  <2>7. ASSUME NEW c \in Readers, \A n \in Taken + 1 .. Taken' : to[n] # c PROVE got'[c] = got[c]
    <3>1. ASSUME NEW i \in 1 .. h PROVE waiting[i] # c
      <4>1. Taken + i \in Taken + 1 .. Taken' /\ (Taken + i) - Taken = i
        BY <1>1, <2>1
      <4> QED
        BY <2>4, <2>7, <4>1
    <3> QED
      BY <1>13, <3>1
  <2> QED
    BY <1>5, <1>14, <2>1, <2>3, <2>5, <2>6, <2>7, Handing
<1>16. Len(Rest(k)) \in Nat
  BY <1>7
<1> QED
  BY <1>2, <1>4, <1>5, <1>6, <1>7, <1>8, <1>9, <1>14, <1>15, <1>16

\* Events are pushed, and the stream stays as open as it was.
LEMMA Said ==
  ASSUME StreamInv, NEW k \in Nat, Say(k), phase' = phase \/ ~done
  PROVE  StreamInv' /\ Stream!Send
<1>0. Emit(k, FALSE, 0) /\ 0 \in Nat /\ pushed \in Nat
  BY DEF Say, StreamInv
<1>1. /\ pushed' = pushed + k + 0 /\ queue' \in Seq(Nat) /\ Len(queue') <= pushed'
      /\ \A i \in 1 .. Len(queue') : queue'[i] = pushed' - Len(queue') + i
      /\ Rest(k) \in Seq(Readers)
      /\ \A i \in 1 .. Len(Rest(k)) : \E j \in 1 .. Len(waiting) :
           j = i + Handed(k) /\ Rest(k)[i] = waiting[j]
      /\ Rest(k) # << >> => Len(queue') = 0
      /\ got' \in [Readers -> Seq(Nat)] /\ Stream!HandOut
  BY <1>0, Emitted
<1>2. /\ waiting' = Rest(k) /\ view' = [c \in Readers |-> view[c]] /\ done' = done /\ atClose' = atClose
  <2>1. Woken(k, FALSE) = {}
    BY DEF Woken
  <2>2. done' = done
    BY <1>0 DEF Emit, StreamInv
  <2> QED
    BY <1>0, <2>1, <2>2 DEF Emit
<1>3. view' = view
  BY <1>2 DEF StreamInv
<1>4. /\ \A i, j \in 1 .. Len(waiting') : waiting'[i] = waiting'[j] => i = j
      /\ \A i \in 1 .. Len(waiting') : view'[waiting'[i]] = "reading"
  <2>1. ASSUME NEW i \in 1 .. Len(waiting') PROVE view'[waiting'[i]] = "reading"
    <3>1. PICK m \in 1 .. Len(waiting) : waiting'[i] = waiting[m]
      BY <1>1, <1>2
    <3>2. view[waiting[m]] = "reading"
      BY DEF StreamInv
    <3> QED
      BY <1>3, <3>1, <3>2
  <2>2. ASSUME NEW i \in 1 .. Len(waiting'), NEW j \in 1 .. Len(waiting'), waiting'[i] = waiting'[j]
        PROVE  i = j
    <3>1. PICK m \in 1 .. Len(waiting) : m = i + Handed(k) /\ waiting'[i] = waiting[m]
      BY <1>1, <1>2
    <3>2. PICK n \in 1 .. Len(waiting) : n = j + Handed(k) /\ waiting'[j] = waiting[n]
      BY <1>1, <1>2
    <3>3. m = n
      BY <2>2, <3>1, <3>2 DEF StreamInv
    <3>4. Handed(k) \in Nat /\ i \in Nat /\ j \in Nat
      BY DEF Handed, StreamInv
    <3> QED
      BY <3>1, <3>2, <3>3, <3>4
  <2> QED
    BY <2>1, <2>2
<1>5. waiting' # << >> => queue' = << >>
  BY <1>1, <1>2, EmptySeq
<1>6. pushed' \in Nat /\ pushed <= pushed'
  BY <1>0, <1>1
<1>7. done' => waiting' = << >> /\ atClose' <= pushed' /\ phase' = "ended"
  <2> SUFFICES ASSUME done PROVE waiting' = << >> /\ atClose' <= pushed' /\ phase' = "ended"
    BY <1>2
  <2>1. waiting = << >> /\ atClose <= pushed /\ phase' = "ended" /\ atClose \in Nat
    BY DEF StreamInv
  <2>2. Len(waiting') = 0
    <3>1. Len(waiting) = 0 /\ Len(Rest(k)) \in Nat
      BY <1>1, <2>1, EmptySeq
    <3>2. Len(Rest(k)) >= 1 => FALSE
      BY <1>1, <3>1
    <3> QED
      BY <1>2, <3>1, <3>2
  <2> QED
    BY <1>0, <1>1, <1>2, <1>6, <2>1, <2>2, EmptySeq
<1>8. StreamInv'
  BY <1>1, <1>2, <1>3, <1>4, <1>5, <1>6, <1>7 DEF StreamInv
<1>9. Stream!Send
  BY <1>1, <1>2, <1>3, <1>6 DEF Stream!Send, Stream!Push
<1> QED
  BY <1>8, <1>9

\* Events are pushed and the stream is closed; those who still wait are told.
LEMMA Finished ==
  ASSUME StreamInv, NEW k \in Nat, NEW late \in Nat, Finish(k, late), phase # "ended", phase' = "ended"
  PROVE  StreamInv' /\ Stream!Close
<1>0. Emit(k, TRUE, late) /\ pushed \in Nat /\ ~done
  BY DEF Finish, StreamInv
<1>1. /\ pushed' = pushed + k + late /\ queue' \in Seq(Nat) /\ Len(queue') <= pushed'
      /\ \A i \in 1 .. Len(queue') : queue'[i] = pushed' - Len(queue') + i
      /\ Rest(k) \in Seq(Readers)
      /\ Rest(k) # << >> => Taken' = pushed + k
      /\ got' \in [Readers -> Seq(Nat)] /\ Stream!HandOut
  BY <1>0, Emitted
<1>2. /\ done' /\ atClose' = pushed + k
      /\ view' = [c \in Readers |-> IF c \in Woken(k, TRUE) THEN "ended" ELSE view[c]]
      /\ waiting' = IF Woken(k, TRUE) = {} THEN Rest(k) ELSE << >>
  BY <1>0 DEF Emit
<1>3. Woken(k, TRUE) = {} <=> Rest(k) = << >>
  <2>1. Woken(k, TRUE) = {Rest(k)[i] : i \in 1 .. Len(Rest(k))}
    <3>1. Woken(k, TRUE) = {Rest(k)[i] : i \in DOMAIN Rest(k)}
      BY DEF Woken, Range
    <3>2. DOMAIN Rest(k) = 1 .. Len(Rest(k))
      BY <1>1
    <3> QED
      BY <3>1, <3>2
  <2>2. Rest(k) = << >> => Woken(k, TRUE) = {}
    <3>1. Rest(k) = << >> => 1 .. Len(Rest(k)) = {}
      BY <1>1, EmptySeq
    <3> QED
      BY <2>1, <3>1
  <2>3. Rest(k) # << >> => 1 \in 1 .. Len(Rest(k))
    BY <1>1, EmptySeq
  <2> QED
    BY <2>1, <2>2, <2>3
<1>4. waiting' = << >> /\ waiting' \in Seq(Readers) /\ Len(waiting') = 0
  BY <1>2, <1>3, EmptySeq
<1>5. view' \in [Readers -> {"reading", "ended", "empty"}] /\ Told \subseteq Told'
  <2>1. view \in [Readers -> {"reading", "ended", "empty"}]
    BY DEF StreamInv
  <2> QED
    BY <1>2, <2>1 DEF Told
<1>6. /\ pushed' \in Nat /\ pushed <= pushed' /\ pushed + k \in Nat
      /\ pushed + k \in pushed .. pushed' /\ pushed + k <= pushed'
  BY <1>0, <1>1
<1>7. StreamInv'
  <2>1. done' \in BOOLEAN
    BY <1>0 DEF Emit
  <2>2. \A i, j \in 1 .. Len(waiting') : FALSE
    BY <1>4
  <2> QED
    BY <1>1, <1>2, <1>4, <1>5, <1>6, <2>1, <2>2 DEF StreamInv
<1>8. Closed = 0 /\ Closed' = pushed + k + 1
  <2>1. Closed = 0
    BY <1>0 DEF Closed
  <2>2. Closed' = pushed + k + 1
    BY <1>2 DEF Closed
  <2> QED
    BY <2>1, <2>2
<1>9. Told' = Told \/ (Closed' > 0 /\ Closed' - 1 <= Taken')
  <2>1. CASE Rest(k) = << >>
    <3>1. view' = view
      BY <1>2, <1>3, <2>1 DEF StreamInv
    <3> QED
      BY <3>1 DEF Told
  <2>2. CASE Rest(k) # << >>
    BY <1>1, <1>6, <1>8, <2>2
  <2> QED
    BY <2>1, <2>2
<1>10. Closed' - 1 \in pushed .. pushed'
  BY <1>6, <1>8
<1>11. Stream!Push
  BY <1>1, <1>6 DEF Stream!Push
<1> QED
  BY <1>5, <1>7, <1>8, <1>9, <1>10, <1>11 DEF Stream!Close, Stream!Drained, Told, Closed, Taken

\* The stream is not touched, and a run that ended stays so.
LEMMA Quiet ==
  ASSUME StreamInv, UNCHANGED stream, phase' = phase \/ phase # "ended"
  PROVE  StreamInv' /\ UNCHANGED Stream!vars
<1>1. UNCHANGED <<queue, waiting, got, view, pushed, done, atClose>>
  BY DEF stream
<1>2. StreamInv'
  BY <1>1 DEF StreamInv
<1>3. UNCHANGED Stream!vars
  BY <1>1 DEF Stream!vars
<1> QED
  BY <1>2, <1>3

\* A reader takes the oldest event of the queue.
LEMMA Reads ==
  ASSUME StreamInv, NEW c \in Readers, Read(c)
  PROVE  StreamInv' /\ Stream!Send
<1>1. /\ UNCHANGED <<phase, waiting, view, pushed, done, atClose>>
      /\ got' = [got EXCEPT ![c] = Append(got[c], Head(queue))]
      /\ queue' = Tail(queue) /\ queue # << >> /\ view[c] = "reading"
  BY DEF Read, Reading, run
<1>2. /\ pushed \in Nat /\ queue \in Seq(Nat) /\ Len(queue) \in Nat /\ Len(queue) <= pushed
      /\ got \in [Readers -> Seq(Nat)]
      /\ \A i \in 1 .. Len(queue) : queue[i] = pushed - Len(queue) + i
  BY DEF StreamInv
<1>3. waiting = << >> /\ Len(queue) >= 1
  BY <1>1, <1>2, EmptySeq DEF StreamInv
<1>4. /\ queue' \in Seq(Nat) /\ Len(queue') = Len(queue) - 1
      /\ \A i \in 1 .. Len(queue') : queue'[i] = queue[i + 1]
      /\ Head(queue) = queue[1]
  BY <1>1, <1>2, HeadTailProperties
<1>5. Head(queue) = Taken + 1 /\ Taken + 1 \in Nat /\ Taken' = Taken + 1 /\ Taken + 1 <= pushed' /\ Taken \in Nat
  <2>1. queue[1] = pushed - Len(queue) + 1
    BY <1>2, <1>3
  <2>2. pushed' - Len(queue') = pushed - Len(queue) + 1
    BY <1>1, <1>2, <1>4
  <2> QED
    BY <1>1, <1>2, <1>3, <1>4, <2>1, <2>2 DEF Taken
<1>6. got' \in [Readers -> Seq(Nat)] /\ got'[c] = Append(got[c], Taken + 1)
      /\ \A d \in Readers : d # c => got'[d] = got[d]
  BY <1>1, <1>2, <1>5
<1>7. ASSUME NEW i \in 1 .. Len(queue') PROVE queue'[i] = pushed' - Len(queue') + i
  <2>1. i + 1 \in 1 .. Len(queue)
    BY <1>2, <1>4
  <2>2. queue'[i] = pushed - Len(queue) + (i + 1)
    BY <1>2, <1>4, <2>1
  <2> QED
    BY <1>1, <1>2, <1>4, <2>2
<1>8. StreamInv'
  <2>1. Len(queue') <= pushed' /\ waiting' = << >>
    BY <1>1, <1>2, <1>3, <1>4
  <2>2. /\ \A i, j \in 1 .. Len(waiting') : waiting'[i] = waiting'[j] => i = j
        /\ \A i \in 1 .. Len(waiting') : view'[waiting'[i]] = "reading"
        /\ waiting' \in Seq(Readers)
    BY <1>1 DEF StreamInv
  <2>3. /\ pushed' \in Nat /\ atClose' \in Nat /\ done' \in BOOLEAN
        /\ view' \in [Readers -> {"reading", "ended", "empty"}]
        /\ done' => waiting' = << >> /\ atClose' <= pushed' /\ phase' = "ended"
    BY <1>1 DEF StreamInv
  <2> QED
    BY <1>4, <1>6, <1>7, <2>1, <2>2, <2>3 DEF StreamInv
<1>9. Stream!HandOut
  <2> DEFINE to == [n \in Taken + 1 .. Taken' |-> c]
  <2>1. c \in Readers \ Told
    BY <1>1 DEF Told
  <2> HIDE DEF Taken, Told
  <2>2. to \in [Taken + 1 .. Taken' -> Readers \ Told] /\ \A n \in Taken + 1 .. Taken' : to[n] = c
    BY <2>1
  <2> HIDE DEF to
  <2>3. Taken + 1 .. Taken' = {Taken + 1} /\ Taken' \in Taken .. pushed' /\ pushed' \in Nat
    BY <1>1, <1>2, <1>5
  <2>4. \A n \in Taken + 1 .. Taken' : got'[to[n]] = Append(got[to[n]], n)
    BY <1>6, <2>2, <2>3
  <2>5. \A m, n \in Taken + 1 .. Taken' : to[m] = to[n] => m = n
    BY <2>3
  <2>6. \A d \in Readers : (\A n \in Taken + 1 .. Taken' : to[n] # d) => got'[d] = got[d]
    BY <1>6, <2>2, <2>3
  <2> QED
    BY <1>6, <2>2, <2>3, <2>4, <2>5, <2>6, Handing
<1>10. Stream!Send
  BY <1>1, <1>2, <1>9 DEF Stream!Send, Stream!Push
<1> QED
  BY <1>8, <1>10

\* A reader is told the end, or was turned away before a wasm run.
LEMMA Leaves ==
  ASSUME StreamInv, NEW c \in Readers, ReadEnd(c)
  PROVE  StreamInv' /\ (Stream!End(c) \/ UNCHANGED Stream!vars)
<1>1. /\ UNCHANGED <<phase, queue, waiting, got, pushed, done, atClose>>
      /\ view[c] = "reading" /\ c \notin Range(waiting)
      /\ \/ view' = [view EXCEPT ![c] = "empty"]
         \/ queue = << >> /\ done /\ view' = [view EXCEPT ![c] = "ended"]
  BY DEF ReadEnd, Reading, run
<1>2. /\ view \in [Readers -> {"reading", "ended", "empty"}] /\ waiting \in Seq(Readers)
      /\ pushed \in Nat /\ atClose \in Nat
  BY DEF StreamInv
<1>3. StreamInv'
  <2>1. view' \in [Readers -> {"reading", "ended", "empty"}] /\ \A d \in Readers : d # c => view'[d] = view[d]
    BY <1>1, <1>2
  <2>2. ASSUME NEW i \in 1 .. Len(waiting) PROVE view'[waiting[i]] = "reading"
    <3>1. waiting[i] # c /\ waiting[i] \in Readers
      BY <1>1, <1>2 DEF Range
    <3>2. view[waiting[i]] = "reading"
      BY DEF StreamInv
    <3> QED
      BY <2>1, <3>1, <3>2
  <2> QED
    BY <1>1, <2>1, <2>2 DEF StreamInv
<1>4. CASE view' = [view EXCEPT ![c] = "empty"]
  <2>1. Told' = Told
    BY <1>1, <1>2, <1>4 DEF Told
  <2> QED
    BY <1>1, <1>3, <2>1 DEF Stream!vars, Told
<1>5. CASE queue = << >> /\ done /\ view' = [view EXCEPT ![c] = "ended"]
  <2>1. Told' = Told \cup {c}
    BY <1>1, <1>2, <1>5 DEF Told
  <2>2. Closed > 0 /\ Closed - 1 <= Taken
    <3>1. atClose <= pushed /\ Len(queue) = 0
      BY <1>5, EmptySeq DEF StreamInv
    <3> QED
      BY <1>2, <1>5, <3>1 DEF Closed, Taken
  <2> QED
    BY <1>1, <1>3, <2>1, <2>2 DEF Stream!End, Stream!Drained, Told, Closed, Taken
<1> QED
  BY <1>1, <1>4, <1>5

\* A reader waits, behind those who wait already.
LEMMA Waits ==
  ASSUME StreamInv, NEW c \in Readers, Await(c)
  PROVE  StreamInv' /\ UNCHANGED Stream!vars
<1>1. /\ UNCHANGED <<phase, queue, got, view, pushed, done, atClose>>
      /\ waiting' = Append(waiting, c) /\ queue = << >> /\ ~done
      /\ view[c] = "reading" /\ c \notin Range(waiting)
  BY DEF Await, Reading, run
<1>2. /\ waiting \in Seq(Readers) /\ Len(waiting) \in Nat
      /\ \A i, j \in 1 .. Len(waiting) : waiting[i] = waiting[j] => i = j
      /\ \A i \in 1 .. Len(waiting) : view[waiting[i]] = "reading"
  BY DEF StreamInv
<1>3. /\ waiting' \in Seq(Readers) /\ Len(waiting') = Len(waiting) + 1
      /\ \A i \in 1 .. Len(waiting) : waiting'[i] = waiting[i]
      /\ waiting'[Len(waiting) + 1] = c
  BY <1>1, <1>2, AppendProperties
<1>4. \A i \in 1 .. Len(waiting') : i = Len(waiting) + 1 \/ i \in 1 .. Len(waiting)
  BY <1>2, <1>3
<1>5. \A i \in 1 .. Len(waiting) : waiting[i] # c
  BY <1>1, <1>2 DEF Range
<1>6. ASSUME NEW i \in 1 .. Len(waiting') PROVE view'[waiting'[i]] = "reading"
  BY <1>1, <1>2, <1>3, <1>4
<1>7. ASSUME NEW i \in 1 .. Len(waiting'), NEW j \in 1 .. Len(waiting'), waiting'[i] = waiting'[j]
      PROVE  i = j
  BY <1>2, <1>3, <1>4, <1>5, <1>7
<1>8. StreamInv'
  BY <1>1, <1>3, <1>6, <1>7 DEF StreamInv
<1>9. UNCHANGED Stream!vars
  BY <1>1 DEF Stream!vars
<1> QED
  BY <1>8, <1>9

\* The first steps of a run.
LEMMA StartsKeepStream ==
  ASSUME StreamInv, Starts
  PROVE  StreamInv' /\ [Stream!Next]_(Stream!vars)
<1>1. ASSUME UNCHANGED stream, phase # "ended" PROVE StreamInv' /\ [Stream!Next]_(Stream!vars)
  BY <1>1, Quiet
<1>2. CASE ExecuteNative \/ ExecuteCloudCode \/ ExecuteWasm \/ EngineMissing \/ EngineFound
  BY <1>1, <1>2 DEF ExecuteNative, ExecuteCloudCode, ExecuteWasm, EngineMissing, EngineFound
<1>3. CASE PluginCreated \/ PluginRaises \/ ShellSpawn \/ ShellFails
  BY <1>1, <1>3 DEF PluginCreated, PluginRaises, ShellSpawn, ShellFails
<1>4. CASE DockerRun
  <2>1. Say(1) /\ ~done
    BY <1>4 DEF DockerRun, StreamInv
  <2> QED
    BY <2>1, Said DEF Stream!Next
<1>5. CASE DockerRaises
  <2>1. Finish(1, 0) /\ phase # "ended" /\ phase' = "ended"
    BY <1>5 DEF DockerRaises
  <2> QED
    BY <2>1, Finished DEF Stream!Next
<1>6. CASE DockerRejects
  <2>1. Say(1) /\ ~done
    BY <1>6 DEF DockerRejects, StreamInv
  <2> QED
    BY <2>1, Said DEF Stream!Next
<1> QED
  BY <1>2, <1>3, <1>4, <1>5, <1>6 DEF Starts

\* The agent's loop.
LEMMA LoopKeepsStream ==
  ASSUME StreamInv, Loop
  PROVE  StreamInv' /\ [Stream!Next]_(Stream!vars)
<1>1. ASSUME NEW k \in Nat, Say(k), phase # "ended" PROVE StreamInv' /\ [Stream!Next]_(Stream!vars)
  <2>1. ~done
    BY <1>1 DEF StreamInv
  <2> QED
    BY <1>1, <2>1, Said DEF Stream!Next
<1>2. ASSUME NEW k \in Nat, NEW late \in Nat, Finish(k, late), phase # "ended", phase' = "ended"
      PROVE  StreamInv' /\ [Stream!Next]_(Stream!vars)
  BY <1>2, Finished DEF Stream!Next
<1>3. CASE Imported
  BY <1>1, <1>3 DEF Imported
<1>4. CASE Hold \/ CloudCodeEnds
  <2>1. UNCHANGED stream /\ phase # "ended"
    BY <1>4 DEF Hold, CloudCodeEnds
  <2> QED
    BY <2>1, Quiet
<1>5. CASE Message
  <2>1. PICK k \in Nat, turn \in BOOLEAN : Handle(k, turn)
    <3>1. TRUE \in BOOLEAN /\ FALSE \in BOOLEAN /\ 1 \in Nat /\ 0 .. 2 \subseteq Nat
      OBVIOUS
    <3> QED
      BY <1>5, <3>1 DEF Message
  <2>2. Say(k) /\ phase # "ended"
    BY <2>1 DEF Handle
  <2> QED
    BY <1>1, <2>2
<1>6. CASE LoopLeft
  <2>1. Finish(1, 0) /\ phase # "ended" /\ phase' = "ended"
    BY <1>6 DEF LoopLeft
  <2> QED
    BY <1>2, <2>1
<1>7. CASE SdkRaises
  <2>1. Finish(0, IF Aborted THEN 0 ELSE 1) /\ phase # "ended" /\ phase' = "ended"
    BY <1>7 DEF SdkRaises
  <2>2. (IF Aborted THEN 0 ELSE 1) \in Nat
    OBVIOUS
  <2> QED
    BY <1>2, <2>1, <2>2
<1> QED
  BY <1>3, <1>4, <1>5, <1>6, <1>7 DEF Loop

\* The container or script.
LEMMA ProcessKeepsStream ==
  ASSUME StreamInv, Process
  PROVE  StreamInv' /\ [Stream!Next]_(Stream!vars)
<1>1. CASE ContainerUp \/ Exit \/ Collect \/ PipesClose \/ ShellReport \/ ShellLosesOutput
  <2>1. UNCHANGED stream /\ (phase' = phase \/ phase # "ended")
    BY <1>1 DEF ContainerUp, Exit, Collect, PipesClose, ShellReport, ShellLosesOutput, run
  <2> QED
    BY <2>1, Quiet
<1>2. ASSUME NEW n \in 0 .. 1, DockerReport(n) PROVE StreamInv' /\ [Stream!Next]_(Stream!vars)
  <2>1. /\ Finish(IF cancelled THEN n ELSE n + 1, 0) /\ phase # "ended" /\ phase' = "ended"
        /\ (IF cancelled THEN n ELSE n + 1) \in Nat
    BY <1>2 DEF DockerReport
  <2> QED
    BY <2>1, Finished DEF Stream!Next
<1>3. CASE DockerLosesOutput
  <2>1. Finish(0, 0) /\ phase # "ended" /\ phase' = "ended"
    BY <1>3 DEF DockerLosesOutput
  <2> QED
    BY <2>1, Finished DEF Stream!Next
<1> QED
  BY <1>1, <1>2, <1>3 DEF Process

\* The timer, cancel() and the bus: each command that is read is an event.
LEMMA OutsideKeepsStream ==
  ASSUME StreamInv, CommandInv, Outside
  PROVE  StreamInv' /\ [Stream!Next]_(Stream!vars)
<1>1. CASE TimerFires \/ Cancel
  BY <1>1, Quiet DEF TimerFires, Cancel
<1>2. ASSUME NEW type, SendCommand(type) PROVE StreamInv' /\ [Stream!Next]_(Stream!vars)
  BY <1>2, Quiet DEF SendCommand, run
<1>3. CASE PollCommands \/ PollRaises
  <2>1. Say(Len(cmds) - acked) /\ phase' = phase
    BY <1>3 DEF PollCommands, PollRaises, Act, run
  <2>2. Len(cmds) - acked \in Nat
    BY DEF CommandInv, CommandsTakeEffect
  <2> QED
    BY <2>1, <2>2, Said DEF Stream!Next
<1> QED
  BY <1>1, <1>2, <1>3 DEF Outside

(* ImplementsStream: the queue and the waiting readers of a sandbox, filled  *)
(* and emptied by callbacks in any order, hand out every event once and in   *)
(* order, close once, and tell a reader the end only when everything pushed  *)
(* before it has been handed out (the events generators of native.ts, wasm   *)
(* and docker.ts).                                                           *)
THEOREM StreamRefinement == Spec => ImplementsStream
<1>1. Init => StreamInv /\ Stream!Init
  <2> SUFFICES ASSUME Init PROVE StreamInv /\ Stream!Init
    OBVIOUS
  <2>1. /\ queue = << >> /\ waiting = << >> /\ got = [c \in Readers |-> << >>]
        /\ view = [c \in Readers |-> "reading"] /\ pushed = 0 /\ done = FALSE /\ atClose = 0
    BY DEF Init
  <2>0. pushed = 0 /\ pushed \in Nat /\ atClose = 0 /\ atClose \in Nat /\ done = FALSE
    BY <2>1
  <2>2. Len(queue) = 0 /\ Len(waiting) = 0 /\ queue \in Seq(Nat) /\ waiting \in Seq(Readers)
    BY <2>1, EmptySeq
  <2>3. got \in [Readers -> Seq(Nat)]
    BY <2>1, EmptySeq
  <2>4. StreamInv
    <3>1. view \in [Readers -> {"reading", "ended", "empty"}] /\ 1 .. Len(queue) = {} /\ 1 .. Len(waiting) = {}
      BY <2>1, <2>2
    <3>2. /\ \A i \in 1 .. Len(queue) : queue[i] = pushed - Len(queue) + i
          /\ \A i, j \in 1 .. Len(waiting) : waiting[i] = waiting[j] => i = j
          /\ \A i \in 1 .. Len(waiting) : view[waiting[i]] = "reading"
      BY <3>1
    <3>3. waiting # << >> => queue = << >>
      BY <2>1
    <3>4. Len(queue) <= pushed
      BY <2>0, <2>2
    <3>5. done \in BOOLEAN /\ ~done
      BY <2>0
    <3>6. pushed \in Nat /\ atClose \in Nat /\ queue \in Seq(Nat) /\ waiting \in Seq(Readers)
      BY <2>0, <2>2
    <3> QED
      BY <2>3, <3>1, <3>2, <3>3, <3>4, <3>5, <3>6, Zenon DEF StreamInv
  <2>5. Stream!Init
    <3>1. {c \in Readers : view[c] = "ended"} = {}
      BY <2>1
    <3>2. pushed - Len(queue) = 0 /\ (IF done THEN atClose + 1 ELSE 0) = 0
      BY <2>0, <2>2
    <3> QED
      BY <2>1, <3>1, <3>2 DEF Stream!Init
  <2> QED
    BY <2>4, <2>5
<1>2. StreamInv /\ CommandInv /\ [Next]_vars => StreamInv' /\ [Stream!Next]_(Stream!vars)
  <2> SUFFICES ASSUME StreamInv, CommandInv, [Next]_vars
               PROVE  StreamInv' /\ [Stream!Next]_(Stream!vars)
    OBVIOUS
  <2>1. ASSUME NEW c \in Readers, Reader(c) PROVE StreamInv' /\ [Stream!Next]_(Stream!vars)
    BY <2>1, Reads, Leaves, Waits DEF Reader, Stream!Next
  <2>2. CASE UNCHANGED vars
    BY <2>2, Quiet DEF vars, run
  <2> QED
    BY <2>1, <2>2, StartsKeepStream, LoopKeepsStream, ProcessKeepsStream, OutsideKeepsStream DEF Next
<1> QED
  BY <1>1, <1>2, CommandInvariance, PTL DEF Spec, ImplementsStream, Stream!Spec

=============================================================================
