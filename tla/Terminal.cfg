SPECIFICATION FairSpec
CONSTANTS
  Keys = {"a", "cr", "^C", "^D"}
  OutputKinds = {"text", "nl", "^C", "^D"}
  MaxTyped = 3
  MaxWritten = 2
  BufSize = 2
  PipeSize = 1
INVARIANTS
  TypeOK
  EchoIntact
  ExitClean
  EndsForAReason
PROPERTIES
  TypedEndEnds
CHECK_DEADLOCK FALSE
