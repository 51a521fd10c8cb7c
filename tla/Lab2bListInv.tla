----------------------------- MODULE Lab2bListInv -----------------------------
(***************************************************************************)
(* The inductive invariant of a synchronised lab2b/lab2_list.c, from which *)
(* Lab2bListProofs derives that it implements PartitionedList.             *)
(***************************************************************************)
EXTENDS Lab2bList, SortedListInv

(* Loop turns of thread t whose operation has taken effect.                *)
Made(t) == turn[t] + (IF AbstractPc(t) = "unlock" THEN 1 ELSE 0)

IsIn(e) ==
  LET t == e[1] IN
    \/ phase[t] = "insert" /\ e[2] < Made(t)
    \/ phase[t] = "count"
    \/ phase[t] = "delete" /\ e[2] >= Made(t)

Contents(l) == {e \in ListElements : hash[e] = l /\ IsIn(e)}

Operates(t) == th[t].pc \notin IdleLabels

(* What the step of a thread says about its loops.                         *)
ControlInv ==
  /\ phase \in [Threads -> {"insert", "count", "delete"}]
  /\ turn \in [Threads -> Nat]
  /\ size \in [Threads -> Nat]
  /\ \A t \in Threads :
       LET at == th[t].pc IN
       /\ at # "unlock"
       /\ at = "unborn" => phase[t] = "insert" /\ turn[t] = 0
       /\ at = "returned" => phase[t] = "delete" /\ turn[t] >= NumIterations
       /\ at = "lock" \/ Operates(t) => turn[t] < LoopBound(t)
       /\ at \in InsertLabels => phase[t] = "insert"
       /\ at \in LookupLabels \cup UnlinkLabels => phase[t] = "delete"
       /\ at \in LengthLabels => phase[t] = "count"

(* What the progress of main() says about the threads and itself.          *)
MainInv ==
  /\ main \in {"create", "join", "check"}
  /\ t_main \in Nat
  /\ main \in {"create", "join"} => t_main <= NumThreads
  /\ main = "create" => \A t \in Threads : t >= t_main => th[t].pc = "unborn"
  /\ main = "join" => \A t \in Threads : t < t_main => th[t].pc = "returned"
  /\ main = "check" => \A t \in Threads : th[t].pc = "returned"
  /\ th[MainProc].pc # "unborn" =>
       /\ main = "check" /\ t_main < NumLists
       /\ th[MainProc].pc \in LengthLabels \cup {"done"}
       /\ Inside(MainProc, t_main, {})
       /\ th[MainProc].pc = "done" => th[MainProc].count = 0

(* A thread inside an operation is where it should be, on the element of   *)
(* its turn, and its result is right.                                      *)
OperationInv(t) ==
  /\ Inside(t, ListIndex(t), Contents(ListIndex(t)))
  /\ phase[t] # "count" => th[t].elem = Element(t)
  /\ th[t].pc = "done" =>
       th[t].count = IF phase[t] = "count" THEN Cardinality(Contents(ListIndex(t))) ELSE 0

(* The lock of a sublist is held by the thread inside an operation on it;  *)
(* a free sublist is whole.                                                *)
ListsInv ==
  /\ \A t \in Threads, l \in HeadIds : lock[l] = t <=> Operates(t) /\ ListIndex(t) = l
  /\ \A l \in HeadIds : lock[l] = NoThread => Ring(l, Contents(l))
  /\ \A t \in Threads : Operates(t) => OperationInv(t)

(* Elements that have not been inserted are linked to nothing.             *)
Fresh(e) ==
  LET t == e[1] IN
    phase[t] = "insert" /\ (e[2] > turn[t] \/ (e[2] = turn[t] /\ ~Operates(t)))

FreshInv == \A e \in ListElements : Fresh(e) => mem[e].prev = Null

SyncInv ==
  /\ sync # "none"
  /\ MemInv /\ RegisterInv
  /\ hash \in [ListElements -> HeadIds] /\ key \in Keys
  /\ lock \in [HeadIds -> Threads \cup {NoThread}]
  /\ outcome # "segfault"
  /\ ControlInv /\ MainInv /\ ListsInv /\ FreshInv

=============================================================================
