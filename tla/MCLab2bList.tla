------------------------------ MODULE MCLab2bList ------------------------------
(* Values for the constants of Lab2bList that follow from the others.      *)
EXTENDS Lab2bList

MCProcs    == 0..NumThreads
MCElements == (0..(NumThreads - 1)) \X (0..(NumIterations - 1))
MCHeadIds  == 0..(NumLists - 1)

=============================================================================
