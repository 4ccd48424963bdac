\* Every implementation, two readers; a checkpoint every second turn.
SPECIFICATION FairSpec
CONSTANTS
  Kinds = {"native", "wasm", "docker", "cloud_code", "shell"}
  Readers = {"r1", "r2"}
  Interval = 2
  MaxPushed = 3
  MaxCommands = 2
  MaxTurns = 2
CHECK_DEADLOCK FALSE
INVARIANTS CommandsTakeEffect NothingLeftRunning
PROPERTIES PauseEnds ReadersSeeTheEnd ImplementsStream
