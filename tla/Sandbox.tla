------------------------------ MODULE Sandbox ------------------------------
(***************************************************************************)
(* One execution inside an instance of the executor package: the native,   *)
(* wasm and docker sandboxes, and the cloud_code and shell runtimes, which *)
(* have neither an event stream nor a message bus.                         *)
(*                                                                         *)
(* execute() races with the timer it sets, with cancel(), with the         *)
(* callback that polls for commands, and with the readers of `events`.     *)
(* The agent SDK, the docker daemon and the script are external: they      *)
(* decide when a message comes and when a process starts or ends.          *)
(***************************************************************************)
EXTENDS Naturals, Sequences, Functions

CONSTANTS Kinds,        \* the implementations considered
          Readers,      \* the loops over `events`
          Interval,     \* turns between two checkpoints (5 in the code)
          MaxPushed,    \* bounds: events,
          MaxCommands,  \*   commands,
          MaxTurns      \*   turns of the agent

ASSUME SandboxAssumption ==
  /\ Kinds \subseteq {"native", "wasm", "docker", "cloud_code", "shell"}
  /\ Interval \in Nat \ {0}
  /\ MaxPushed \in Nat /\ MaxCommands \in Nat /\ MaxTurns \in Nat

VARIABLES
  kind,      \* which implementation this is
  bus,       \* a message bus was injected (native only)
  phase,     \* where execute() is
  timer,     \* killTimer, timeoutHandle
  timedOut,  \* the timer has fired
  cancelled, \* a cancel() has reached the controller or the flag
  proc,      \* the container or script
  pipes,     \* a descendant of the script keeps its output open
  outcome,   \* the status of the result
  turns,     \* turnCount
  saved,     \* the turn of the latest checkpoint in task_messages
  paused,    \* _paused
  polling,   \* commandPollHandle is set
  cmds,      \* inbound rows of task_messages, oldest first
  acked,     \* how many of them are acknowledged
  acted,     \* history: how many of them were acted upon, once or more
  queue,     \* eventQueue: numbers of events, in the order of their push
  waiting,   \* eventResolvers: the readers that wait, in order
  got,       \* what each reader was given
  view,      \* whether a reader goes on reading
  pushed,    \* history: how many events were pushed
  done,      \* closeEvents was called
  atClose    \* history: how many events were pushed by then

run == <<phase, timer, timedOut, cancelled, outcome>>
process == <<proc, pipes>>
agent == <<turns, saved>>
commands == <<paused, polling, cmds, acked, acted>>
stream == <<queue, waiting, got, view, pushed, done, atClose>>
vars == <<kind, bus, run, process, agent, commands, stream>>

Native == kind \in {"native", "wasm"}   \* wasm runs a native instance inside
Agentic == Native \/ kind = "cloud_code"
HasStream == Native \/ kind = "docker"
Aborted == timedOut \/ cancelled       \* controller.signal.aborted

\* How many of k pushes go to readers that wait, and who still waits then.
Handed(k) == IF k < Len(waiting) THEN k ELSE Len(waiting)
Rest(k) == SubSeq(waiting, Handed(k) + 1, Len(waiting))

Queued(k, late) == [i \in 1 .. (k + late - Handed(k)) |-> pushed + Handed(k) + i]

\* Mutation of Woken: closing forgets the readers that wait.
WokenNone(k, close) == {}

Woken(k, close) == IF close THEN Range(Rest(k)) ELSE {}

(***************************************************************************)
(* The event queue.  A push goes to the reader that waits longest, or to   *)
(* the queue; closing answers every reader that still waits.  Emit(k,      *)
(* close, late) is k pushes, perhaps closeEvents(), and `late` pushes      *)
(* after it, all in one callback: no reader runs in between.               *)
(***************************************************************************)
Emit(k, close, late) ==
  /\ got' = [c \in Readers |->
               IF \E i \in 1 .. Handed(k) : waiting[i] = c
               THEN Append(got[c], pushed + CHOOSE i \in 1 .. Handed(k) : waiting[i] = c)
               ELSE got[c]]
  /\ queue' = queue \o Queued(k, late)
  /\ waiting' = IF Woken(k, close) = {} THEN Rest(k) ELSE <<>>
  /\ view' = [c \in Readers |-> IF c \in Woken(k, close) THEN "ended" ELSE view[c]]
  /\ pushed' = pushed + k + late
  /\ done' = (done \/ close)
  /\ atClose' = IF close THEN pushed + k ELSE atClose

Say(k) == Emit(k, FALSE, 0)
Finish(k, late) == Emit(k, TRUE, late)

(***************************************************************************)
(* next(): a queued event first, then the end, else wait.  Before a wasm   *)
(* instance has its inner one, `events` is an iterable that is empty.      *)
(***************************************************************************)
NoInner == kind = "wasm" /\ phase \in {"idle", "checking"}

Reading(c) == view[c] = "reading" /\ c \notin Range(waiting)

Read(c) ==
  /\ HasStream /\ Reading(c) /\ queue # <<>>
  /\ got' = [got EXCEPT ![c] = Append(@, Head(queue))]
  /\ queue' = Tail(queue)
  /\ UNCHANGED <<kind, bus, run, process, agent, commands, waiting, view, pushed, done, atClose>>

\* Mutation of ReadEnd: the end is seen before what is queued.
ReadEndFirst(c) ==
  /\ HasStream /\ Reading(c)
  /\ IF NoInner
     THEN view' = [view EXCEPT ![c] = "empty"]
     ELSE done /\ view' = [view EXCEPT ![c] = "ended"]
  /\ UNCHANGED <<kind, bus, run, process, agent, commands, queue, waiting, got, pushed, done, atClose>>

ReadEnd(c) ==
  /\ HasStream /\ Reading(c)
  /\ IF NoInner
     THEN view' = [view EXCEPT ![c] = "empty"]
     ELSE /\ queue = <<>> /\ done
          /\ view' = [view EXCEPT ![c] = "ended"]
  /\ UNCHANGED <<kind, bus, run, process, agent, commands, queue, waiting, got, pushed, done, atClose>>

Await(c) ==
  /\ HasStream /\ Reading(c) /\ queue = <<>> /\ ~done
  /\ ~NoInner
  /\ waiting' = Append(waiting, c)
  /\ UNCHANGED <<kind, bus, run, process, agent, commands, queue, got, view, pushed, done, atClose>>

(***************************************************************************)
(* execute(), up to its first await.                                       *)
(***************************************************************************)
Begun == /\ timer' = "set"
         /\ UNCHANGED <<kind, bus, timedOut, cancelled, outcome>>

\* native: the timer, the poll for commands, then the import of the SDK.
ExecuteNative ==
  /\ phase = "idle" /\ kind = "native"
  /\ Begun /\ phase' = "starting" /\ polling' = bus
  /\ UNCHANGED <<process, agent, paused, cmds, acked, acted, stream>>

\* cloud_code: the controller is registered for cancel(), the timer set.
ExecuteCloudCode ==
  /\ phase = "idle" /\ kind = "cloud_code"
  /\ Begun /\ phase' = "running"
  /\ UNCHANGED <<process, agent, commands, stream>>

\* wasm looks for its engine first, with no timer yet; without the engine it
\* runs the native instance, with it a plugin is created before.
ExecuteWasm ==
  /\ phase = "idle" /\ kind = "wasm"
  /\ phase' = "checking"
  /\ UNCHANGED <<kind, bus, timer, timedOut, cancelled, outcome, process, agent, commands, stream>>

EngineMissing ==
  /\ phase = "checking"
  /\ Begun /\ phase' = "starting"
  /\ UNCHANGED <<process, agent, commands, stream>>

EngineFound ==
  /\ phase = "checking"
  /\ phase' = "plugin"
  /\ UNCHANGED <<kind, bus, timer, timedOut, cancelled, outcome, process, agent, commands, stream>>

PluginCreated ==
  /\ phase = "plugin"
  /\ Begun /\ phase' = "starting"
  /\ UNCHANGED <<process, agent, commands, stream>>

\* createPlugin() raises: execute() rejects and the stream is never closed.
PluginRaises ==
  /\ phase = "plugin"
  /\ phase' = "ended" /\ outcome' = "rejected"
  /\ UNCHANGED <<kind, bus, timer, timedOut, cancelled, process, agent, commands, stream>>

\* docker spawns `docker run` at once, under a name cancel() can stop.
DockerRun ==
  /\ phase = "idle" /\ kind = "docker"
  /\ Begun /\ phase' = "running"
  /\ proc' = "starting"
  /\ Say(1)
  /\ UNCHANGED <<pipes, agent, commands>>

\* How the catch of docker reports.
CatchStatus == IF cancelled THEN "cancelled" ELSE IF timedOut THEN "timed_out" ELSE "failed"

\* Writing the environment file raises, outside the try: execute() rejects and
\* the stream is never closed.
DockerRejects ==
  /\ phase = "idle" /\ kind = "docker"
  /\ phase' = "ended" /\ outcome' = "rejected"
  /\ Say(1)
  /\ UNCHANGED <<kind, bus, timer, timedOut, cancelled, process, agent, commands>>

\* The spawn raises.
DockerRaises ==
  /\ phase = "idle" /\ kind = "docker"
  /\ phase' = "ended" /\ outcome' = CatchStatus
  /\ Finish(1, 0)
  /\ UNCHANGED <<kind, bus, timer, timedOut, cancelled, process, agent, commands>>

\* Writing the prompt or reading the output raises: `docker run` goes on, and
\* finally{} forgets its name.
DockerLosesOutput ==
  /\ phase = "running" /\ kind = "docker"
  /\ phase' = "ended" /\ outcome' = CatchStatus
  /\ timer' = "off"
  /\ Finish(0, 0)
  /\ UNCHANGED <<kind, bus, timedOut, cancelled, process, agent, commands>>

ShellSpawn ==
  /\ phase = "idle" /\ kind = "shell"
  /\ Begun /\ phase' = "running"
  /\ proc' = "up"
  /\ UNCHANGED <<pipes, agent, commands, stream>>

\* The shell runtime is disabled, or its spawn raises.
ShellFails ==
  /\ phase = "idle" /\ kind = "shell"
  /\ phase' = "ended" /\ outcome' = "failed"
  /\ UNCHANGED <<kind, bus, timer, timedOut, cancelled, process, agent, commands, stream>>

(***************************************************************************)
(* The agent loop of native, also inside wasm; then that of cloud_code.    *)
(***************************************************************************)
Imported ==
  /\ phase = "starting" /\ pushed < MaxPushed
  /\ phase' = "running"
  /\ Say(1)
  /\ UNCHANGED <<kind, bus, timer, timedOut, cancelled, outcome, process, agent, commands>>

\* A message of the SDK comes while the sandbox is paused: it waits with it.
Hold ==
  /\ Native /\ phase = "running" /\ ~Aborted /\ paused
  /\ phase' = "held"
  /\ UNCHANGED <<kind, bus, timer, timedOut, cancelled, outcome, process, agent, commands, stream>>

\* What is stored as the latest checkpoint, if it is one of turn n.
Checkpoint(n) == IF bus THEN n ELSE saved

Handle(k, turn) ==
  /\ Native /\ phase \in {"running", "held"} /\ ~Aborted /\ ~paused
  /\ phase' = "running"
  /\ turn => turns < MaxTurns
  /\ turns' = IF turn THEN turns + 1 ELSE turns
  /\ saved' = IF turn /\ turns' % Interval = 0 THEN Checkpoint(turns') ELSE saved
  /\ Say(k) /\ pushed' <= MaxPushed
  /\ UNCHANGED <<kind, bus, timer, timedOut, cancelled, outcome, process, commands>>

\* Text, one event; a tool call, two; a result or nothing of interest; a turn.
Message == \/ \E k \in 0 .. 2 : Handle(k, FALSE)
           \/ Handle(1, TRUE)

\* The loop is left: the stream of the SDK ended, or the run was aborted and
\* a message came, or the pause noticed the abort.  All three are "completed".
LoopLeft ==
  /\ Native
  /\ phase = "running" \/ (phase = "held" /\ Aborted)
  /\ phase' = "ended" /\ outcome' = "completed"
  /\ timer' = "off" /\ polling' = FALSE
  /\ saved' = Checkpoint(turns)
  /\ Finish(1, 0)
  /\ UNCHANGED <<kind, bus, timedOut, cancelled, process, turns, paused, cmds, acked, acted>>

\* Mutation of SdkRaises: the poll for commands is not cleared.
SdkRaisesPolling ==
  /\ Native /\ phase \in {"starting", "running"}
  /\ phase' = "ended"
  /\ outcome' = IF Aborted THEN "timed_out" ELSE "failed"
  /\ timer' = "off"
  /\ Finish(0, IF Aborted THEN 0 ELSE 1)
  /\ UNCHANGED <<kind, bus, timedOut, cancelled, process, agent, commands>>

\* The SDK, its import or a checkpoint raises.  The failure is logged on a
\* closed stream.
SdkRaises ==
  /\ Native
  /\ phase \in {"starting", "running"} \/ (phase = "held" /\ Aborted)
  /\ phase' = "ended"
  /\ outcome' = IF Aborted THEN "timed_out" ELSE "failed"
  /\ timer' = "off" /\ polling' = FALSE
  /\ Finish(0, IF Aborted THEN 0 ELSE 1)
  /\ UNCHANGED <<kind, bus, timedOut, cancelled, process, agent, paused, cmds, acked, acted>>

\* cloud_code says nothing of messages; its loop ends, breaks or raises.
CloudCodeEnds ==
  /\ phase = "running" /\ kind = "cloud_code"
  /\ phase' = "ended" /\ timer' = "off"
  /\ outcome' \in {"completed", IF Aborted THEN "timed_out" ELSE "failed"}
  /\ UNCHANGED <<kind, bus, timedOut, cancelled, process, agent, commands, stream>>

(***************************************************************************)
(* The container or script.  `docker stop` of a container that does not    *)
(* exist yet fails, and the failure is ignored; after execute() neither    *)
(* its name nor the script is known any more.                              *)
(***************************************************************************)
Stopped == IF proc = "up" /\ phase # "ended" THEN "stopping" ELSE proc

ContainerUp ==
  /\ proc = "starting" /\ proc' = "up"
  /\ UNCHANGED <<kind, bus, run, pipes, agent, commands, stream>>

Exit ==
  /\ proc \in {"starting", "up", "stopping"}
  /\ proc = "starting" => kind = "docker"
  /\ proc' \in IF proc = "up" THEN {"ok", "error"} ELSE {"error"}
  /\ pipes' \in IF kind = "shell" THEN BOOLEAN ELSE {FALSE}
  /\ UNCHANGED <<kind, bus, run, agent, commands, stream>>

\* The output (docker) or the exit (shell) was awaited; the timer is cleared.
Collect ==
  /\ phase = "running" /\ proc \in {"ok", "error"}
  /\ phase' = "collected" /\ timer' = "off"
  /\ UNCHANGED <<kind, bus, timedOut, cancelled, outcome, process, agent, commands, stream>>

PipesClose ==
  /\ pipes /\ pipes' = FALSE
  /\ UNCHANGED <<kind, bus, run, proc, agent, commands, stream>>

ExitStatus == IF proc = "error" THEN "failed" ELSE "completed"

DockerReport(lines) ==
  /\ phase = "collected" /\ kind = "docker"
  /\ phase' = "ended"
  /\ outcome' = CASE cancelled -> "cancelled"
                  [] timedOut /\ ~cancelled -> "timed_out"
                  [] OTHER -> ExitStatus
  /\ Finish(IF cancelled THEN lines ELSE lines + 1, 0)
  /\ UNCHANGED <<kind, bus, timer, timedOut, cancelled, process, agent, commands>>

\* Reading the output of a script ends when the last descendant closes it ...
ShellReport ==
  /\ phase = "collected" /\ kind = "shell" /\ ~pipes
  /\ phase' = "ended"
  /\ outcome' = IF timedOut THEN "timed_out" ELSE ExitStatus
  /\ UNCHANGED <<kind, bus, timer, timedOut, cancelled, process, agent, commands, stream>>

\* ... or raises.
ShellLosesOutput ==
  /\ phase = "collected" /\ kind = "shell"
  /\ phase' = "ended" /\ outcome' = "failed"
  /\ UNCHANGED <<kind, bus, timer, timedOut, cancelled, process, agent, commands, stream>>

(***************************************************************************)
(* The timer, and cancel() at any moment: before execute(), between two of *)
(* its awaits, and after it, from stop().                                  *)
(***************************************************************************)
\* Mutation of TimerFires: the timeout is noted and the agent is not aborted.
TimerOnlyNotes ==
  /\ timer = "set" /\ timer' = "fired"
  /\ timedOut' = ~Agentic
  /\ UNCHANGED <<kind, bus, phase, cancelled, outcome, process, agent, commands, stream>>

TimerFires ==
  /\ timer = "set" /\ timer' = "fired"
  /\ timedOut' = TRUE
  /\ proc' = Stopped
  /\ UNCHANGED <<kind, bus, phase, cancelled, outcome, pipes, agent, commands, stream>>

\* wasm has nothing to pass the call on to before its inner instance, and a
\* runtime knows the execution only while it runs.
Reached == CASE kind = "wasm" -> ~NoInner
             [] kind = "cloud_code" -> phase \notin {"idle", "ended"}
             [] kind = "shell" -> FALSE          \* no flag: only the process is killed
             [] OTHER -> TRUE

Cancel ==
  /\ cancelled' = (cancelled \/ Reached)
  /\ polling' = (polling /\ ~Reached)
  /\ proc' = Stopped
  /\ UNCHANGED <<kind, bus, phase, timer, timedOut, outcome, pipes, agent, paused, cmds, acked, acted, stream>>

(***************************************************************************)
(* The message bus: a command is a pending row; the poll reads all pending *)
(* rows, acts on each and acknowledges those it read, in one callback.     *)
(* The prompt of a `command` goes to a list that nothing takes from.       *)
(***************************************************************************)
SendCommand(type) ==
  /\ bus /\ Len(cmds) < MaxCommands
  /\ cmds' = Append(cmds, type)
  /\ UNCHANGED <<kind, bus, run, process, agent, paused, polling, acked, acted, stream>>

Pending == (acked + 1) .. Len(cmds)

Act ==
  /\ polling /\ Pending # {}
  /\ paused' = IF \A i \in Pending : cmds[i] = "command" THEN paused
               ELSE \E i \in Pending : /\ cmds[i] = "pause"
                                       /\ \A j \in Pending : j > i => cmds[j] # "resume"
  /\ acted' = Len(cmds)
  /\ Say(Len(cmds) - acked)
  /\ UNCHANGED <<kind, bus, run, process, agent, polling>>

\* What other processes have sent between the read and the acknowledgement.
Arrives == {<< >>} \cup {<<type>> : type \in IF Len(cmds) < MaxCommands THEN {"command", "pause", "resume"} ELSE {}}

\* Mutation of PollCommands: every pending row is acknowledged, read or not.
PollAcksAll ==
  /\ Act
  /\ \E new \in Arrives : cmds' = cmds \o new
  /\ acked' = Len(cmds')

PollCommands ==
  /\ Act
  /\ \E new \in Arrives : cmds' = cmds \o new
  /\ acked' = Len(cmds)

\* The acknowledgement raises, out of the callback.  The server shuts down; until
\* it has, the poll comes again and reads the same rows.
PollRaises ==
  /\ Act /\ pushed' <= MaxPushed
  /\ UNCHANGED <<cmds, acked>>

-----------------------------------------------------------------------------
Init ==
  /\ kind \in Kinds
  /\ bus \in (IF kind = "native" THEN BOOLEAN ELSE {FALSE})
  /\ phase = "idle" /\ timer = "off" /\ timedOut = FALSE /\ cancelled = FALSE
  /\ outcome = "none" /\ proc = "none" /\ pipes = FALSE
  /\ turns = 0 /\ saved = 0
  /\ paused = FALSE /\ polling = FALSE /\ cmds = <<>> /\ acked = 0 /\ acted = 0
  /\ queue = <<>> /\ waiting = <<>> /\ got = [c \in Readers |-> <<>>]
  /\ view = [c \in Readers |-> "reading"] /\ pushed = 0 /\ done = FALSE /\ atClose = 0

Starts == ExecuteNative \/ ExecuteCloudCode \/ ExecuteWasm \/ EngineMissing \/ EngineFound \/ PluginCreated
            \/ PluginRaises \/ DockerRun \/ DockerRejects \/ DockerRaises \/ ShellSpawn \/ ShellFails
Loop == Imported \/ Hold \/ Message \/ LoopLeft \/ SdkRaises \/ CloudCodeEnds
Process == ContainerUp \/ Exit \/ Collect \/ PipesClose \/ ShellReport \/ ShellLosesOutput
             \/ DockerLosesOutput \/ (\E n \in 0 .. 1 : DockerReport(n))
Outside == TimerFires \/ Cancel \/ PollCommands \/ PollRaises
             \/ \E type \in {"command", "pause", "resume"} : SendCommand(type)
Reader(c) == Read(c) \/ ReadEnd(c) \/ Await(c)

Next == Starts \/ Loop \/ Process \/ Outside \/ \E c \in Readers : Reader(c)

Spec == Init /\ [][Next]_vars

(***************************************************************************)
(* What happens by itself: the timer fires, a pause looks at the abort     *)
(* twice a second, readers read.  Nothing is assumed of the SDK, of docker *)
(* or of a script: the SDK is not known to heed the abort it is passed.    *)
(***************************************************************************)
FairSpec ==
  /\ Spec
  /\ WF_vars(TimerFires)
  /\ WF_vars(phase = "held" /\ (LoopLeft \/ SdkRaises))
  /\ \A c \in Readers : WF_vars(Reader(c))
=============================================================================
