\* Two threads, one element each, hashed in every way into two sublists, locked or not.
SPECIFICATION FairSpec
CONSTANTS
  NumThreads = 2
  NumIterations = 1
  NumLists = 2
  SyncModes = {"none", "m", "s"}
  Procs <- MCProcs
  ListElements <- MCElements
  HeadIds <- MCHeadIds
  SelfLoopCheck = TRUE
  CountCap = 5
INVARIANTS SublistsAreApart
PROPERTIES Termination
