\* Two threads, two iterations: with IntHalf = 3 the four increments exceed
\* the int range -3..2, so the compare-and-swap loop wraps around.
SPECIFICATION FairSpec
CONSTANTS
  NumThreads = 2
  NumIterations = 2
  IntHalf = 3
  SyncModes = {"none", "m", "s", "c"}
INVARIANTS FinalCounterZero RaceBound
PROPERTIES AddIsAtomic Termination
