\* Three threads race for the sum under the locks of one or two sublists, or none.
SPECIFICATION TimeSpec
CONSTANTS
  NumThreads = 3
  ListCounts = {1, 2}
  NumTurns = 2
  Waits = {0, 1}
  SyncModes = {"none", "m"}
INVARIANTS NeverOverstated ExactForOneList
