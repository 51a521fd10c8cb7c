\* Two threads, two elements each, one sublist, every order of the keys.
SPECIFICATION Spec
CONSTANTS
  NumThreads = 2
  NumIterations = 2
  NumLists = 1
  SyncModes = {"m"}
  Procs <- MCProcs
  ListElements <- MCElements
  HeadIds <- MCHeadIds
  SelfLoopCheck = TRUE
  CountCap = 5
INVARIANTS FreeListsAreRings
PROPERTIES ListsAreAtomic
