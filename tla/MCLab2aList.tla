------------------------------ MODULE MCLab2aList ------------------------------
(* Values for the constants of Lab2aList.                                  *)
EXTENDS Lab2aList

MCProcs    == 0..NumThreads
MCElements == (0..(NumThreads - 1)) \X (0..(MaxIterations - 1))

(* Two elements for each thread behind the lock, at most one where they    *)
(* race.                                                                   *)
MCOptions ==
  {[sync |-> s, iterations |-> 2] : s \in {"m", "s"}}
  \cup {[sync |-> "none", iterations |-> n] : n \in {0, 1}}

Racing == {[sync |-> "none", iterations |-> 1]}

=============================================================================
