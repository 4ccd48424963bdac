------------------------- MODULE SandboxProperties -------------------------
(***************************************************************************)
(* What a caller of a sandbox relies on.                                   *)
(***************************************************************************)
EXTENDS Sandbox

\* The types of native.ts, docker.ts and message-bus.ts, as modelled.
TypeOK ==
  /\ kind \in Kinds /\ bus \in BOOLEAN
  /\ phase \in {"idle", "checking", "plugin", "starting", "running", "held", "collected", "ended"}
  /\ timer \in {"off", "set", "fired"} /\ timedOut \in BOOLEAN /\ cancelled \in BOOLEAN
  /\ proc \in {"none", "starting", "up", "stopping", "ok", "error"} /\ pipes \in BOOLEAN
  /\ outcome \in {"none", "completed", "failed", "timed_out", "cancelled", "rejected"}
  /\ turns \in Nat /\ saved \in Nat
  /\ paused \in BOOLEAN /\ polling \in BOOLEAN
  /\ cmds \in Seq({"command", "pause", "resume"}) /\ acked \in Nat /\ acted \in Nat
  /\ queue \in Seq(Nat) /\ waiting \in Seq(Readers) /\ got \in [Readers -> Seq(Nat)]
  /\ view \in [Readers -> {"reading", "ended", "empty"}]
  /\ pushed \in Nat /\ done \in BOOLEAN /\ atClose \in Nat

\* The commands to the first n say that the run is to pause.
SayPause(n) == \E i \in 1 .. n : cmds[i] = "pause" /\ \A j \in 1 .. n : j > i => cmds[j] # "resume"

\* No command is lost, whoever sends it while the poll runs: it is acknowledged
\* only after it was acted upon.  And the latest word holds, although rows whose
\* acknowledgement raised are acted upon again, older ones after newer ones.
CommandsTakeEffect == acked <= acted /\ acted <= Len(cmds) /\ paused = SayPause(acted)

\* When execute() has settled, by whichever path, it has left no timer to abort
\* another run and no poll that would swallow commands; and no process, unless
\* docker lost its output, which is reported and stops nothing.
NothingLeftRunning ==
  phase = "ended" =>
    /\ timer # "set"
    /\ ~polling
    /\ proc \in {"starting", "up", "stopping"} => kind = "docker" /\ outcome \notin {"completed", "rejected"}

\* A pause ends, with a resume or at the latest when the time of the run is over:
\* even if its commands are not read any more, or it was cancelled meanwhile.
PauseEnds == (phase = "held") ~> (phase # "held")

\* A reader is told the end, or was turned away before a wasm run began.  Only an
\* execute() that rejects leaves its readers waiting: when docker's environment
\* file cannot be written, or the plugin of wasm not created.
ReadersSeeTheEnd ==
  \A c \in Readers :
    (HasStream /\ phase = "ended" /\ outcome # "rejected") ~> (view[c] # "reading")

\* The stream is an EventStream.  `empty` readers were given another iterable.
Stream == INSTANCE EventStream WITH
  pushed <- pushed, got <- got,
  taken  <- pushed - Len(queue),
  closed <- IF done THEN atClose + 1 ELSE 0,
  ended  <- {c \in Readers : view[c] = "ended"}

ImplementsStream == Stream!Spec

=============================================================================
