SPECIFICATION FairSpec
CONSTANTS
  Keys = {"a", "exit", "^C", "^D"}
  OutputKinds = {"text", "^D"}
  MaxTyped = 3
  MaxWritten = 2
  PackedKeys = {"a", "exit", "^D"}
  PackedKinds = {"text"}
  MaxPacked = 3
  BufSize = 2
  OutSize = 2
  Overhead = 3
  Compress = {TRUE, FALSE}
  PipeSize = 1
  SocketSize = 1
  PackedSize = 2
INVARIANTS
  TypeOK
  InputIntact
  OutputIntact
  TerminalRestored
PROPERTIES
  SessionEnds
  EofEnds
  TailShown
CHECK_DEADLOCK FALSE
