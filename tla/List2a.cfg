\* Two threads with two elements each, under the lock or racing, every key order.
SPECIFICATION Spec
CONSTANTS
  NumThreads = 2
  MaxIterations = 2
  Options <- MCOptions
  Procs <- MCProcs
  ListElements <- MCElements
  HeadIds = {0}
  SelfLoopCheck = FALSE
  CountCap = 5
INVARIANTS KeysFromPool SeesOnlyOwn UnlinksOwnOrHead
