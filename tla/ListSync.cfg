\* Two threads with two elements each, hashed in every way into 0 to 3 sublists.
SPECIFICATION FairSpec
CONSTANTS
  NumThreads = 2
  NumIterations = 2
  ListCounts = {0, 1, 2, 3}
INVARIANTS NoFalseAlarm SizeBounds ContentsExact
PROPERTIES Termination
