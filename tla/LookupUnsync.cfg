\* Two unsynchronised threads: lookup answers with the list head.
SPECIFICATION Spec
CONSTANTS
  NumThreads = 2
  MaxIterations = 1
  Options <- Racing
  Procs <- MCProcs
  ListElements <- MCElements
  HeadIds = {0}
  SelfLoopCheck = FALSE
  CountCap = 5
INVARIANTS LookupReturnsMatch
