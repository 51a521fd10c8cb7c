------------------------------- MODULE Lab2bList -------------------------------
(***************************************************************************)
(* lab2b/lab2_list.c on the pointers of lab2b/SortedList.c: the threads    *)
(* interleave between any two accesses to the lists, with a lock per       *)
(* sublist ("m", "s") or without ("none").  A synchronised program         *)
(* implements PartitionedList, where an operation is one step.             *)
(***************************************************************************)
EXTENDS SortedList

CONSTANTS
  NumThreads,    \* --threads
  NumIterations, \* --iterations
  NumLists,      \* --lists, at least 1: PartitionedList covers 0
  SyncModes      \* the --sync settings to consider

ASSUME Lab2bAssumption ==
  /\ NumThreads \in Nat
  /\ NumIterations \in Nat
  /\ NumLists \in Nat \ {0}
  /\ SyncModes \subseteq {"none", "m", "s"}
  /\ Procs = 0..NumThreads
  /\ ListElements = (0..(NumThreads - 1)) \X (0..(NumIterations - 1))
  /\ HeadIds = 0..(NumLists - 1)
  /\ SelfLoopCheck = TRUE

Threads  == 0..(NumThreads - 1)
MainProc == NumThreads
NoThread == -1

VARIABLES
  sync,   \* sync_flag and sync_type
  hash,   \* sublist of each element, arbitrary as in PartitionedList
  lock,   \* owner of the lock of each sublist, or NoThread
  phase,  \* the loop of listOperations() each thread is in
  turn,   \* the index of that loop
  size,   \* the local size of each thread
  main,   \* where main() is: "create", "join" or "check" loop
  t_main  \* the index of that loop

setup == <<key, sync, hash>>
vars  == <<mem, key, th, outcome, sync, hash, lock, phase, turn, size, main, t_main>>

-----------------------------------------------------------------------------

Init ==
  /\ mem = InitMem
  /\ key \in Keys
  /\ th = [p \in Procs |-> Idle("unborn")]
  /\ outcome = "running"
  /\ sync \in SyncModes
  /\ hash \in [ListElements -> HeadIds]
  /\ lock = [l \in HeadIds |-> NoThread]
  /\ phase = [t \in Threads |-> "insert"]
  /\ turn = [t \in Threads |-> 0]
  /\ size = [t \in Threads |-> 0]
  /\ main = "create"
  /\ t_main = 0

Element(t)   == <<t, turn[t]>>

(* Mutant: the sublist of an element is not that of its key.               *)
ListIndexByTurn(t) == IF phase[t] = "count" THEN turn[t] ELSE turn[t] % NumLists

ListIndex(t) == IF phase[t] = "count" THEN turn[t] ELSE hash[Element(t)]
LoopBound(t) == IF phase[t] = "count" THEN NumLists ELSE NumIterations

NextPhase == [insert |-> "count", count |-> "delete"]

(* The head of a loop of listOperations(), with the size check after the   *)
(* loop over the sublists.                                                 *)
LoopHead(t) ==
  /\ On(t, "loop")
  /\ \/ /\ turn[t] < LoopBound(t)
        /\ Set(t, [pc |-> "lock"])
        /\ UNCHANGED <<phase, turn, outcome>>
     \/ /\ turn[t] >= LoopBound(t) /\ phase[t] = "count" /\ size[t] < NumIterations
        /\ outcome' = "corrupted"
        /\ UNCHANGED <<th, phase, turn>>
     \/ /\ turn[t] >= LoopBound(t) /\ phase[t] # "delete"
        /\ phase[t] = "count" => size[t] >= NumIterations
        /\ phase' = [phase EXCEPT ![t] = NextPhase[@]]
        /\ turn' = [turn EXCEPT ![t] = 0]
        /\ UNCHANGED <<th, outcome>>
     \/ /\ turn[t] >= LoopBound(t) /\ phase[t] = "delete"
        /\ Set(t, [pc |-> "returned"])
        /\ UNCHANGED <<phase, turn, outcome>>
  /\ UNCHANGED <<mem, setup, lock, size, main, t_main>>

Operation == [insert |-> "insert", count |-> "length", delete |-> "lookup"]

(* Mutant: the list is used without waiting for its lock.                  *)
LockUnguarded(t) ==
  /\ On(t, "lock")
  /\ lock' = IF sync = "none" THEN lock ELSE [lock EXCEPT ![ListIndex(t)] = t]
  /\ Set(t, [pc |-> Operation[phase[t]], list |-> Head(ListIndex(t)),
             elem |-> IF phase[t] = "count" THEN Null ELSE Element(t)])
  /\ UNCHANGED <<mem, setup, outcome, phase, turn, size, main, t_main>>

(* activateSync() and the call of the operation of the loop.               *)
Lock(t) ==
  /\ On(t, "lock")
  /\ \/ sync = "none" /\ UNCHANGED lock
     \/ /\ sync # "none" /\ lock[ListIndex(t)] = NoThread
        /\ lock' = [lock EXCEPT ![ListIndex(t)] = t]
  /\ Set(t, [pc |-> Operation[phase[t]], list |-> Head(ListIndex(t)),
             elem |-> IF phase[t] = "count" THEN Null ELSE Element(t)])
  /\ UNCHANGED <<mem, setup, outcome, phase, turn, size, main, t_main>>

Operating(t) ==
  /\ Operate(t)
  /\ UNCHANGED <<setup, lock, phase, turn, size, main, t_main>>

(* delete() was given what lookup() found, which was nothing.              *)
DeleteFailed(t) ==
  /\ On(t, "failed")
  /\ outcome' = "corrupted"
  /\ UNCHANGED <<mem, setup, th, lock, phase, turn, size, main, t_main>>

(* Mutant: the loop index is not increased.                                *)
UnlockNoStep(t) ==
  /\ On(t, "done")
  /\ size' = [size EXCEPT ![t] = @ + th[t].count]
  /\ lock' = IF sync = "none" THEN lock ELSE [lock EXCEPT ![ListIndex(t)] = NoThread]
  /\ Set(t, Idle("loop"))
  /\ UNCHANGED <<mem, setup, outcome, phase, turn, main, t_main>>

(* size += and deactivateSync(), on to the next turn.                      *)
Unlock(t) ==
  /\ On(t, "done")
  /\ size' = [size EXCEPT ![t] = @ + th[t].count]
  /\ lock' = IF sync = "none" THEN lock ELSE [lock EXCEPT ![ListIndex(t)] = NoThread]
  /\ turn' = [turn EXCEPT ![t] = @ + 1]
  /\ Set(t, Idle("loop"))
  /\ UNCHANGED <<mem, setup, outcome, phase, main, t_main>>

Thread(t) ==
  \/ LoopHead(t) \/ Lock(t) \/ Operating(t) \/ DeleteFailed(t) \/ Unlock(t)

-----------------------------------------------------------------------------

(* exit(2) on a pthread error; a mutex is initialised only with --sync=m.  *)
PthreadError ==
  /\ outcome = "running"
  /\ \/ main = "create" /\ (t_main < NumThreads \/ (t_main = 0 /\ sync = "m"))
     \/ main = "join" /\ t_main < NumThreads /\ th[t_main].pc = "returned"
  /\ outcome' = "exit2"
  /\ UNCHANGED <<mem, setup, th, lock, phase, turn, size, main, t_main>>

CreateThread ==
  /\ outcome = "running" /\ main = "create" /\ t_main < NumThreads
  /\ Set(t_main, [pc |-> "loop"])
  /\ t_main' = t_main + 1
  /\ UNCHANGED <<mem, setup, outcome, lock, phase, turn, size, main>>

(* From the loop that creates the threads to the one that joins them, and  *)
(* on to the one that checks the lists.                                    *)
NextLoop ==
  /\ outcome = "running" /\ main \in {"create", "join"} /\ t_main = NumThreads
  /\ main' = IF main = "create" THEN "join" ELSE "check"
  /\ t_main' = 0
  /\ UNCHANGED <<mem, setup, th, outcome, lock, phase, turn, size>>

JoinThread ==
  /\ outcome = "running" /\ main = "join" /\ t_main < NumThreads
  /\ th[t_main].pc = "returned"
  /\ t_main' = t_main + 1
  /\ UNCHANGED <<mem, setup, th, outcome, lock, phase, turn, size, main>>

(* main() calls SortedList_length() on every list, without its lock.       *)
CheckList ==
  /\ On(MainProc, "unborn") /\ main = "check" /\ t_main < NumLists
  /\ Set(MainProc, [pc |-> "length", list |-> Head(t_main)])
  /\ UNCHANGED <<mem, setup, outcome, lock, phase, turn, size, main, t_main>>

CheckOperating ==
  /\ Operate(MainProc)
  /\ UNCHANGED <<setup, lock, phase, turn, size, main, t_main>>

ListChecked ==
  /\ On(MainProc, "done")
  /\ IF th[MainProc].count # 0
     THEN outcome' = "corrupted" /\ UNCHANGED <<th, t_main>>
     ELSE /\ Set(MainProc, Idle("unborn"))
          /\ t_main' = t_main + 1
          /\ UNCHANGED outcome
  /\ UNCHANGED <<mem, setup, lock, phase, turn, size, main>>

(* The averages are computed by a division by threads * iterations * 3.    *)
Report ==
  /\ outcome = "running" /\ main = "check" /\ t_main = NumLists
  /\ outcome' = IF NumThreads * NumIterations = 0 THEN "sigfpe" ELSE "printed"
  /\ UNCHANGED <<mem, setup, th, lock, phase, turn, size, main, t_main>>

Main ==
  \/ PthreadError \/ CreateThread \/ NextLoop \/ JoinThread \/ CheckList
  \/ CheckOperating \/ ListChecked \/ Report

Terminated == outcome # "running" /\ UNCHANGED vars

Next == Main \/ (\E t \in Threads : Thread(t)) \/ Terminated

Spec == Init /\ [][Next]_vars

FairSpec == Spec /\ WF_vars(Main) /\ \A t \in Threads : WF_vars(Thread(t))

-----------------------------------------------------------------------------

Done(t) == turn[t] + (IF th[t].pc = "done" THEN 1 ELSE 0)

Holds(t, j) ==
  \/ phase[t] = "insert" /\ j < Done(t)
  \/ phase[t] = "count"
  \/ phase[t] = "delete" /\ j >= Done(t)

(* With --sync, whenever the lock of a sublist is free its pointers form a *)
(* sorted doubly linked ring through exactly the elements that hash to it  *)
(* and that their threads have inserted and not yet deleted.               *)
FreeListsAreRings ==
  sync # "none" =>
    \A l \in HeadIds : lock[l] = NoThread =>
      IsRing(l, {e \in ListElements : hash[e] = l /\ Holds(e[1], e[2])})

ListOf(q) == IF IsHead(q) THEN q[2] ELSE hash[q]

(* Even where races corrupt the lists they stay apart: no pointer, in      *)
(* memory or in a local variable, leads from one sublist into another.  So *)
(* the lock of a sublist guards every node an operation on it touches.     *)
SublistsAreApart ==
  /\ \A q \in Nodes, f \in {"next", "prev"} :
       mem[q][f] # Null => ListOf(mem[q][f]) = ListOf(q)
  /\ \A p \in Procs : InOperation(p) =>
       \A v \in {"elem", "curr", "tmp", "val"} :
         th[p][v] # Null => ListOf(th[p][v]) = ListOf(th[p].list)

(* What PartitionedList sees: while an insert or a delete is going on, its *)
(* effect on the elements that the backward pointers lead through is one   *)
(* store, curr->prev = element or next->prev = element->prev.              *)
AbstractPc(t) ==
  LET at == th[t].pc IN
    CASE at \in {"unborn", "loop", "lock", "returned"} -> at
      [] at \in {"done", "only3", "only4", "link6"} -> "unlock"
      [] OTHER -> "op"

(* The variables of PartitionedList as functions of those here.            *)
contentsBar == [l \in HeadIds |-> Chain(l, "prev")]
pcBar       == [t \in Threads |-> AbstractPc(t)]
sizeBar     == [t \in Threads |-> size[t] + IF th[t].pc = "done" THEN th[t].count ELSE 0]
mainBar     == IF main = "check" THEN "join" ELSE main
t_mainBar   == IF main = "check" THEN NumThreads ELSE t_main
outcomeBar  == IF outcome = "segfault" THEN "corrupted" ELSE outcome

Abstract == INSTANCE PartitionedList WITH
  ListCounts <- {NumLists}, num_lists <- NumLists, contents <- contentsBar, pc <- pcBar,
  size <- sizeBar, main <- mainBar, t_main <- t_mainBar, outcome <- outcomeBar

(* A synchronised program implements PartitionedList: each operation on    *)
(* the pointers takes effect in one step, and its result is that of the    *)
(* operation on a set.                                                     *)
ListsAreAtomic == Abstract!Spec

(* A synchronised process always ends: no thread waits for a sublist while *)
(* it holds another, and every walk gets back to the head.                 *)
Termination == sync # "none" => <>(outcome # "running")

=============================================================================
