\* Two threads on two sublists: waits get lost.
SPECIFICATION TimeSpec
CONSTANTS
  NumThreads = 2
  ListCounts = {2}
  NumTurns = 1
  Waits = {0, 1, 2}
  SyncModes = {"m"}
INVARIANTS ReportsWaitTime
