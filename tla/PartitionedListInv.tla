-------------------------- MODULE PartitionedListInv --------------------------
(***************************************************************************)
(* The inductive invariant from which PartitionedListProofs derives the    *)
(* safety properties of PartitionedList.                                   *)
(***************************************************************************)
EXTENDS PartitionedList

(* What the step of a thread says about its loops.                         *)
ControlInv ==
  \A t \in Threads :
    /\ pc[t] \in {"lock", "op", "unlock"} => turn[t] < LoopBound(t) /\ num_lists > 0
    /\ pc[t] = "unborn" => phase[t] = "insert" /\ turn[t] = 0
    /\ pc[t] = "returned" => phase[t] = "delete" /\ turn[t] = NumIterations
    /\ num_lists = 0 => IF phase[t] = "insert" THEN turn[t] = 0 ELSE NumIterations = 0

(* What the progress of main() says about the threads.                     *)
MainInv ==
  /\ \A t \in Threads : main = "create" /\ t >= t_main => pc[t] = "unborn"
  /\ \A t \in Threads : main = "join" /\ t < t_main => pc[t] = "returned"

(* The lock of a sublist is held by the thread inside an operation on it.  *)
LockInv ==
  \A t \in Threads, l \in Lists : lock[l] = t <=> Inside(t) /\ ListIndex(t) = l

(* Loop turns of thread t whose operation is done.                         *)
Done(t) == turn[t] + (IF pc[t] = "unlock" THEN 1 ELSE 0)

(* Whether thread t has inserted and not yet deleted its j-th element.     *)
Holds(t, j) ==
  \/ phase[t] = "insert" /\ j < Done(t)
  \/ phase[t] = "count"
  \/ phase[t] = "delete" /\ j >= Done(t)

(* A sublist holds just those elements that hash to it and that the        *)
(* progress of their thread says are in.                                   *)
ContentsInv ==
  \A l \in Lists :
    contents[l] = {e \in Elements : hash[e] = l /\ Holds(e[1], e[2])}

(* The elements that hash to a sublist below n, of all threads and of one. *)
Below(n)       == {e \in Elements : hash[e] < n}
OwnBelow(t, n) == {e \in Below(n) : e[1] = t}

(* Adding up lengths counts at least the own elements, and at most all     *)
(* elements, of the sublists passed.                                       *)
SizeInv ==
  \A t \in Threads :
    /\ phase[t] = "insert" => size[t] = 0
    /\ phase[t] = "count" =>
         /\ Cardinality(OwnBelow(t, Done(t))) <= size[t]
         /\ size[t] <= Cardinality(Below(Done(t)))
    /\ size[t] <= Cardinality(Elements)

(* At every moment the contents of the sublists, and the bounds on each    *)
(* half-finished sum of lengths, are what the progress of the threads says.*)
ContentsExact == ControlInv /\ MainInv /\ LockInv /\ ContentsInv /\ SizeInv

IInv ==
  /\ TypeOK /\ ControlInv /\ MainInv /\ LockInv /\ ContentsInv /\ SizeInv
  /\ NoFalseAlarm

=============================================================================
