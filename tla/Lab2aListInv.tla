------------------------------ MODULE Lab2aListInv ------------------------------
(***************************************************************************)
(* Inductive invariants of lab2a/lab2_list.c: RaceInv of any process, and  *)
(* with it SyncInv of one with --sync, from which Lab2aListProofs derives  *)
(* the properties of Lab2aList.                                            *)
(***************************************************************************)
EXTENDS Lab2aList, SortedListInv

(* The elements that main() draws keys for.                                *)
Used == {e \in ListElements : e[2] < num_iterations}

(* The keys are those drawn so far, in the order of list_elements.         *)
KeyInv ==
  /\ Pool!IInv
  /\ num_elementstocreate = NumThreads * num_iterations
  /\ key \in [ListElements -> Nat \cup {Pool!NoKey}]
  /\ \A x \in Pool!Indices : key[ElementAt(x)] = actual_keys[x]
  /\ \A e \in ListElements \ Used : key[e] = Pool!NoKey
  /\ \A x \in Pool!Indices : actual_keys[x] = Pool!NoKey <=> x >= i

Operates(t) == th[t].pc \notin IdleLabels

(* What the step of a thread says about its loops and its element.         *)
ControlInv(t) ==
  LET at == th[t].pc IN
  /\ at \in IdleLabels \cup InsertLabels \cup LookupLabels \cup UnlinkLabels
              \cup LengthLabels \cup {"done"}
  /\ at \in {"unborn", "lock"} => phase[t] = "insert" /\ turn[t] = 0
  /\ at = "loop" => phase[t] # "count"
  /\ at \in {"unlock", "returned"} => phase[t] = "delete" /\ turn[t] = num_iterations
  /\ Operates(t) =>
       IF phase[t] = "count" THEN turn[t] = num_iterations ELSE turn[t] < num_iterations
  /\ at \in InsertLabels => phase[t] = "insert"
  /\ at \in LookupLabels \cup UnlinkLabels => phase[t] = "delete"
  /\ at \in LengthLabels => phase[t] = "count"
  /\ at \in InsertLabels \cup {"lookup", "seek", "seekOn"} => th[t].elem = Element(t)
  /\ at \in UnlinkLabels \cup {"delete"} => th[t].elem \in {Element(t), list_head}

(* What the progress of main() says about the threads and itself.          *)
MainInv ==
  /\ main \in {"keys", "create", "join", "check"}
  /\ t_main \in 0..NumThreads
  /\ main = "keys" => \A t \in Threads : th[t].pc = "unborn"
  /\ main # "keys" => i = num_elementstocreate
  /\ main = "create" => \A t \in Threads : t >= t_main => th[t].pc = "unborn"
  /\ main = "join" => \A t \in Threads : t < t_main => th[t].pc = "returned"
  /\ main = "check" => \A t \in Threads : th[t].pc = "returned"
  /\ th[MainProc].pc # "unborn" =>
       main = "check" /\ th[MainProc].pc \in LengthLabels \cup {"done"}

RaceInv ==
  /\ sync \in {"none", "m", "s"} /\ num_iterations \in 0..MaxIterations
  /\ MemInv /\ RegisterInv /\ KeyInv
  /\ phase \in [Threads -> {"insert", "count", "delete"}]
  /\ turn \in [Threads -> 0..num_iterations]
  /\ \A t \in Threads : ControlInv(t)
  /\ MainInv

-----------------------------------------------------------------------------
(* With --sync.                                                            *)

(* Loop turns of thread t whose operation has taken effect, and what is    *)
(* then in the list.                                                       *)
Made(t) ==
  turn[t] + (IF phase[t] # "count" /\ th[t].pc \in MadeLabels THEN 1 ELSE 0)

Elements(t) ==
  {<<t, j>> : j \in IF phase[t] = "delete" THEN Made(t)..(num_iterations - 1)
                    ELSE 0..(Made(t) - 1)}

Holds(t) == th[t].pc \notin {"unborn", "lock", "returned"}

(* A thread inside an operation is where it should be on the list of its   *)
(* own elements, and has counted them right.                               *)
OperationInv(t) ==
  /\ Inside(t, 0, Elements(t))
  /\ phase[t] # "count" => th[t].elem = Element(t)
  /\ th[t].pc = "done" =>
       th[t].count = IF phase[t] = "count" THEN Cardinality(Elements(t)) ELSE 0

(* The lock is held from the first turn to the last; the list is whole     *)
(* between two operations, and empty while the lock is free.               *)
ListInv ==
  /\ lock \in Threads \cup {NoThread}
  /\ \A t \in Threads : lock = t <=> Holds(t)
  /\ lock = NoThread => Ring(0, {})
  /\ \A t \in Threads : Holds(t) /\ ~Operates(t) => Ring(0, Elements(t))
  /\ \A t \in Threads : Operates(t) => OperationInv(t)

(* main() counts the list when all threads have returned.                  *)
CheckInv ==
  th[MainProc].pc # "unborn" =>
    /\ Inside(MainProc, 0, {})
    /\ th[MainProc].pc = "done" => th[MainProc].count = 0

(* Elements that have not been inserted are linked to nothing.             *)
Fresh(e) ==
  LET t == e[1] IN
    phase[t] = "insert" /\ (e[2] > turn[t] \/ (e[2] = turn[t] /\ ~Operates(t)))

FreshInv == \A e \in ListElements : Fresh(e) => mem[e].prev = Null

SyncInv ==
  /\ sync # "none" /\ RaceInv
  /\ ListInv /\ CheckInv /\ FreshInv
  /\ outcome \notin {"segfault", "corrupted"}

=============================================================================
