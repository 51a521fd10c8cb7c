---------------------------- MODULE PartitionedList ----------------------------
(***************************************************************************)
(* lab2b/lab2_list.c with --sync=m or --sync=s: every thread inserts its   *)
(* elements into the hashed sublists, adds up the lengths of all sublists, *)
(* and deletes its elements again, each operation under the lock of one    *)
(* sublist.  A sublist is the set of the elements linked into it and an    *)
(* operation of SortedList.c is one step; Lab2bList takes it apart.        *)
(* A mutex and a spin lock differ in how they wait, not in what they admit:*)
(* the lock of a sublist is modelled by its owner for both.                *)
(***************************************************************************)
EXTENDS Integers, FiniteSets

CONSTANTS
  NumThreads,    \* --threads
  NumIterations, \* --iterations
  ListCounts     \* the --lists settings to consider

(* main() rejects negative values only.                                    *)
ASSUME ListAssumption ==
  /\ NumThreads \in Nat
  /\ NumIterations \in Nat
  /\ ListCounts \subseteq Nat

Threads  == 0..(NumThreads - 1)
NoThread == -1
Turns    == 0..(NumIterations - 1)

(* Element <<t, j>> is list_elements[t + j * num_threads], the j-th one    *)
(* that thread t visits.                                                   *)
Elements == Threads \X Turns

VARIABLES
  num_lists, \* --lists
  hash,      \* sublist of each element: simpleHashAndMod() of its random key
  contents,  \* the elements in each sublist
  lock,      \* owner of the lock of each sublist, or NoThread
  pc,        \* next step of each thread
  phase,     \* the loop of listOperations() each thread is in
  turn,      \* the index of that loop
  size,      \* the local size of each thread
  main,      \* where main() is: "create" or "join" loop
  t_main,    \* loop variable t of main()
  outcome    \* how the process ended, or "running"

Lists      == 0..(num_lists - 1)
setup      == <<num_lists, hash>>
mainVars   == <<main, t_main, outcome>>
vars       == <<num_lists, hash, contents, lock, pc, phase, turn, size, main,
                t_main, outcome>>

-----------------------------------------------------------------------------

(* The elements stand for those of a program with so many more that every  *)
(* distribution over the sublists occurs among them, so hash is arbitrary. *)
(* Without sublists the hash is never computed: % 0 ends the process first.*)
Init ==
  /\ num_lists \in ListCounts
  /\ hash \in [Elements -> IF num_lists = 0 THEN {0} ELSE Lists]
  /\ contents = [l \in Lists |-> {}]
  /\ lock = [l \in Lists |-> NoThread]
  /\ pc = [t \in Threads |-> "unborn"]
  /\ phase = [t \in Threads |-> "insert"]
  /\ turn = [t \in Threads |-> 0]
  /\ size = [t \in Threads |-> 0]
  /\ main = "create"
  /\ t_main = 0
  /\ outcome = "running"

Goto(t, label) == pc' = [pc EXCEPT ![t] = label]

At(t, label) == outcome = "running" /\ pc[t] = label

(* list_elements + i of a thread in one of its loops.                      *)
Element(t) == <<t, turn[t]>>

(* Mutant: the loop over the sublists forgets list_index = i.              *)
ListIndexStuck(t) == IF phase[t] = "count" THEN 0 ELSE hash[Element(t)]

(* list_index of a thread in one of its loops.                             *)
ListIndex(t) == IF phase[t] = "count" THEN turn[t] ELSE hash[Element(t)]

(* Mutant: the size check asks for more than the thread's own elements.    *)
LeaveLoopStrict(t) ==
  \/ /\ phase[t] \in {"insert", "count"}
     /\ phase[t] = "count" => size[t] > NumIterations
     /\ phase' = [phase EXCEPT ![t] = IF @ = "insert" THEN "count" ELSE "delete"]
     /\ turn' = [turn EXCEPT ![t] = 0]
     /\ UNCHANGED <<pc, outcome>>
  \/ /\ phase[t] = "count" /\ size[t] <= NumIterations
     /\ outcome' = "corrupted"
     /\ UNCHANGED <<pc, phase, turn>>
  \/ /\ phase[t] = "delete"
     /\ Goto(t, "returned")
     /\ UNCHANGED <<phase, turn, outcome>>

(* The loop of thread t is over: the next one starts, the size check       *)
(* between the last two ends the process or not, or the thread returns.    *)
LeaveLoop(t) ==
  \/ /\ phase[t] = "insert"
     /\ phase' = [phase EXCEPT ![t] = "count"]
     /\ turn' = [turn EXCEPT ![t] = 0]
     /\ UNCHANGED <<pc, outcome>>
  \/ /\ phase[t] = "count" /\ size[t] < NumIterations
     /\ outcome' = "corrupted"
     /\ UNCHANGED <<pc, phase, turn>>
  \/ /\ phase[t] = "count" /\ size[t] >= NumIterations
     /\ phase' = [phase EXCEPT ![t] = "delete"]
     /\ turn' = [turn EXCEPT ![t] = 0]
     /\ UNCHANGED <<pc, outcome>>
  \/ /\ phase[t] = "delete"
     /\ Goto(t, "returned")
     /\ UNCHANGED <<phase, turn, outcome>>

LoopBound(t) == IF phase[t] = "count" THEN num_lists ELSE NumIterations

(* The head of a loop: the next turn starts by hashing a key, which is a   *)
(* division by zero when there is no sublist.                              *)
LoopHead(t) ==
  /\ At(t, "loop")
  /\ IF turn[t] >= LoopBound(t)
     THEN LeaveLoop(t)
     ELSE /\ IF phase[t] # "count" /\ num_lists = 0
             THEN outcome' = "sigfpe" /\ UNCHANGED pc
             ELSE Goto(t, "lock") /\ UNCHANGED outcome
          /\ UNCHANGED <<phase, turn>>
  /\ UNCHANGED <<setup, contents, lock, size, main, t_main>>

(* Mutant: nobody waits for the lock.                                      *)
LockUnguarded(t) ==
  /\ At(t, "lock")
  /\ lock' = [lock EXCEPT ![ListIndex(t)] = t]
  /\ Goto(t, "op")
  /\ UNCHANGED <<setup, contents, phase, turn, size, mainVars>>

(* activateSync()                                                          *)
Lock(t) ==
  /\ At(t, "lock")
  /\ lock[ListIndex(t)] = NoThread
  /\ lock' = [lock EXCEPT ![ListIndex(t)] = t]
  /\ Goto(t, "op")
  /\ UNCHANGED <<setup, contents, phase, turn, size, mainVars>>

Insert(t) ==
  /\ At(t, "op") /\ phase[t] = "insert"
  /\ contents' = [contents EXCEPT ![ListIndex(t)] = @ \cup {Element(t)}]
  /\ Goto(t, "unlock")
  /\ UNCHANGED <<setup, lock, phase, turn, size, mainVars>>

Length(t) ==
  /\ At(t, "op") /\ phase[t] = "count"
  /\ size' = [size EXCEPT ![t] = @ + Cardinality(contents[ListIndex(t)])]
  /\ Goto(t, "unlock")
  /\ UNCHANGED <<setup, contents, lock, phase, turn, mainVars>>

(* Looks the key up and deletes what it found; exits if that is nothing.   *)
LookupAndDelete(t) ==
  /\ At(t, "op") /\ phase[t] = "delete"
  /\ IF Element(t) \in contents[ListIndex(t)]
     THEN /\ contents' = [contents EXCEPT ![ListIndex(t)] = @ \ {Element(t)}]
          /\ Goto(t, "unlock")
          /\ UNCHANGED outcome
     ELSE outcome' = "corrupted" /\ UNCHANGED <<contents, pc>>
  /\ UNCHANGED <<setup, lock, phase, turn, size, main, t_main>>

(* Mutant: the loop over the sublists does not move on.                    *)
UnlockNoStep(t) ==
  /\ At(t, "unlock")
  /\ lock' = [lock EXCEPT ![ListIndex(t)] = NoThread]
  /\ turn' = [turn EXCEPT ![t] = IF phase[t] = "count" THEN @ ELSE @ + 1]
  /\ Goto(t, "loop")
  /\ UNCHANGED <<setup, contents, phase, size, mainVars>>

(* deactivateSync() and the increment of the loop.                         *)
Unlock(t) ==
  /\ At(t, "unlock")
  /\ lock' = [lock EXCEPT ![ListIndex(t)] = NoThread]
  /\ turn' = [turn EXCEPT ![t] = @ + 1]
  /\ Goto(t, "loop")
  /\ UNCHANGED <<setup, contents, phase, size, mainVars>>

Thread(t) ==
  \/ LoopHead(t) \/ Lock(t) \/ Insert(t) \/ Length(t) \/ LookupAndDelete(t)
  \/ Unlock(t)

-----------------------------------------------------------------------------

(* exit(2) on a pthread error.                                             *)
PthreadError ==
  /\ outcome = "running"
  /\ \/ main = "create" /\ (t_main < NumThreads \/ (t_main = 0 /\ num_lists > 0))
     \/ main = "join" /\ t_main < NumThreads /\ pc[t_main] = "returned"
  /\ outcome' = "exit2"
  /\ UNCHANGED <<setup, contents, lock, pc, phase, turn, size, main, t_main>>

CreateThread ==
  /\ outcome = "running" /\ main = "create" /\ t_main < NumThreads
  /\ Goto(t_main, "loop")
  /\ t_main' = t_main + 1
  /\ UNCHANGED <<setup, contents, lock, phase, turn, size, main, outcome>>

AllCreated ==
  /\ outcome = "running" /\ main = "create" /\ t_main = NumThreads
  /\ main' = "join" /\ t_main' = 0
  /\ UNCHANGED <<setup, contents, lock, pc, phase, turn, size, outcome>>

JoinThread ==
  /\ outcome = "running" /\ main = "join" /\ t_main < NumThreads
  /\ pc[t_main] = "returned"
  /\ t_main' = t_main + 1
  /\ UNCHANGED <<setup, contents, lock, pc, phase, turn, size, main, outcome>>

(* Every sublist must be empty again; then the averages are computed by a  *)
(* division by threads * iterations * 3.                                   *)
Report ==
  /\ outcome = "running" /\ main = "join" /\ t_main = NumThreads
  /\ outcome' = IF \E l \in Lists : contents[l] # {} THEN "corrupted"
                ELSE IF NumThreads * NumIterations = 0 THEN "sigfpe" ELSE "printed"
  /\ UNCHANGED <<setup, contents, lock, pc, phase, turn, size, main, t_main>>

Main == PthreadError \/ CreateThread \/ AllCreated \/ JoinThread \/ Report

Terminated == outcome # "running" /\ UNCHANGED vars

Next == Main \/ (\E t \in Threads : Thread(t)) \/ Terminated

Spec == Init /\ [][Next]_vars

FairSpec == Spec /\ WF_vars(Main) /\ \A t \in Threads : WF_vars(Thread(t))

-----------------------------------------------------------------------------

Labels == {"unborn", "loop", "lock", "op", "unlock", "returned"}

(* Every variable keeps its type, and every loop index its range.          *)
TypeOK ==
  /\ num_lists \in ListCounts
  /\ hash \in [Elements -> IF num_lists = 0 THEN {0} ELSE Lists]
  /\ contents \in [Lists -> SUBSET Elements]
  /\ lock \in [Lists -> Threads \cup {NoThread}]
  /\ pc \in [Threads -> Labels]
  /\ phase \in [Threads -> {"insert", "count", "delete"}]
  /\ turn \in [Threads -> Nat]
  /\ \A t \in Threads : turn[t] <= LoopBound(t)
  /\ size \in [Threads -> Nat]
  /\ main \in {"create", "join"}
  /\ t_main \in 0..NumThreads
  /\ outcome \in {"running", "exit2", "corrupted", "sigfpe", "printed"}

(* The self-checks of the program (the size check, the lookup that finds   *)
(* nothing, the emptiness check of main()) never report a synchronised run *)
(* as corrupted, however the threads interleave between two sublists.      *)
NoFalseAlarm == outcome # "corrupted"

(* Two threads inside an operation work on different sublists.             *)
Inside(t) == pc[t] \in {"op", "unlock"}

SublistExclusion ==
  \A t, u \in Threads :
    Inside(t) /\ Inside(u) /\ ListIndex(t) = ListIndex(u) => t = u

(* The sum of the lengths is read one sublist at a time while other        *)
(* threads insert and delete: no element is counted twice, and none of the *)
(* thread's own is missed.                                                 *)
SizeBounds ==
  \A t \in Threads :
    /\ size[t] <= Cardinality(Elements)
    /\ phase[t] = "count" /\ turn[t] = num_lists => size[t] >= NumIterations

(* The process always ends.                                                *)
Termination == <>(outcome # "running")

=============================================================================
