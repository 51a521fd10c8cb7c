------------------------------- MODULE Lab2aList -------------------------------
(***************************************************************************)
(* lab2a/lab2_list.c on the pointers of lab2a/SortedList.c: one list, and  *)
(* one lock around the whole body of a thread ("m", "s") or none.  main()  *)
(* first draws the keys of the elements, as KeyPool says.                  *)
(***************************************************************************)
EXTENDS SortedList

CONSTANTS
  NumThreads,    \* --threads
  MaxIterations, \* bound of the model for --iterations
  Options        \* the settings of --sync and --iterations to consider

ASSUME Lab2aAssumption ==
  /\ NumThreads \in Nat
  /\ MaxIterations \in Nat
  /\ Options \subseteq [sync : {"none", "m", "s"}, iterations : 0..MaxIterations]
  /\ Procs = 0..NumThreads
  /\ ListElements = (0..(NumThreads - 1)) \X (0..(MaxIterations - 1))
  /\ HeadIds = {0}
  /\ SelfLoopCheck = FALSE

Threads   == 0..(NumThreads - 1)
MainProc  == NumThreads
NoThread  == -1
list_head == Head(0)

VARIABLES
  sync,   \* sync_flag and sync_type
  num_iterations, \* --iterations
  lock,   \* owner of m_lock or spin_lock, or NoThread
  phase,  \* how far listOperations() of each thread is: "insert", "count", "delete"
  turn,   \* how many turns of the loop of that phase are over
  main,   \* where main() is: "keys", "create", "join" or "check"
  t_main, \* the loop index of main(), which is i in the loop that draws keys
  num_elementstocreate, random_keys, random_keys_maxindex, actual_keys, i \* see KeyPool

pool  == <<num_elementstocreate, random_keys, random_keys_maxindex, actual_keys, i>>
setup == <<key, sync, num_iterations, pool>>
vars  == <<mem, setup, th, outcome, lock, phase, turn, main, t_main>>

Pool == INSTANCE KeyPool WITH
  ElementCounts <- {NumThreads * option.iterations : option \in Options}

-----------------------------------------------------------------------------

Init ==
  /\ \E option \in Options : sync = option.sync /\ num_iterations = option.iterations
  /\ mem = InitMem
  /\ key = [e \in ListElements |-> Pool!NoKey]
  /\ num_elementstocreate = NumThreads * num_iterations
  /\ Pool!Init
  /\ th = [p \in Procs |-> Idle("unborn")]
  /\ outcome = "running"
  /\ lock = NoThread
  /\ phase = [t \in Threads |-> "insert"]
  /\ turn = [t \in Threads |-> 0]
  /\ main = "keys"
  /\ t_main = 0

(* list_elements + i, for i = threadID + turn * num_threads.               *)
Element(t) == <<t, turn[t]>>

(* Mutant: the thread does not wait for the lock.                          *)
LockUnguarded(t) ==
  /\ On(t, "lock")
  /\ lock' = IF sync = "none" THEN lock ELSE t
  /\ Set(t, [pc |-> "loop"])
  /\ UNCHANGED <<mem, setup, outcome, phase, turn, main, t_main>>

Lock(t) ==
  /\ On(t, "lock")
  /\ \/ sync = "none" /\ UNCHANGED lock
     \/ sync # "none" /\ lock = NoThread /\ lock' = t
  /\ Set(t, [pc |-> "loop"])
  /\ UNCHANGED <<mem, setup, outcome, phase, turn, main, t_main>>

Operation == [insert |-> "insert", delete |-> "lookup"]

(* The loops over the elements of the thread, with the call of length()    *)
(* after the first of them.                                                *)
LoopHead(t) ==
  /\ On(t, "loop")
  /\ \/ /\ turn[t] < num_iterations
        /\ Set(t, [pc |-> Operation[phase[t]], list |-> list_head, elem |-> Element(t)])
        /\ UNCHANGED phase
     \/ /\ turn[t] = num_iterations /\ phase[t] = "insert"
        /\ phase' = [phase EXCEPT ![t] = "count"]
        /\ Set(t, [pc |-> "length", list |-> list_head])
     \/ /\ turn[t] = num_iterations /\ phase[t] = "delete"
        /\ Set(t, [pc |-> "unlock"])
        /\ UNCHANGED phase
  /\ UNCHANGED <<mem, setup, outcome, lock, turn, main, t_main>>

Operating(t) ==
  /\ Operate(t)
  /\ UNCHANGED <<setup, lock, phase, turn, main, t_main>>

(* insert() or delete() has returned, 0 if delete(): lookup() never yields *)
(* the NULL that delete() answers with 1.                                  *)
NextTurn(t) ==
  /\ On(t, "done") /\ phase[t] # "count"
  /\ turn' = [turn EXCEPT ![t] = @ + 1]
  /\ Set(t, Idle("loop"))
  /\ UNCHANGED <<mem, setup, outcome, lock, phase, main, t_main>>

(* The size of the list must be num_elementstocreate/num_threads.          *)
CheckSize(t) ==
  /\ On(t, "done") /\ phase[t] = "count"
  /\ IF th[t].count # num_iterations
     THEN outcome' = "corrupted" /\ UNCHANGED <<th, phase, turn>>
     ELSE /\ phase' = [phase EXCEPT ![t] = "delete"]
          /\ turn' = [turn EXCEPT ![t] = 0]
          /\ Set(t, Idle("loop"))
          /\ UNCHANGED outcome
  /\ UNCHANGED <<mem, setup, lock, main, t_main>>

Unlock(t) ==
  /\ On(t, "unlock")
  /\ lock' = IF sync = "none" THEN lock ELSE NoThread
  /\ Set(t, Idle("returned"))
  /\ UNCHANGED <<mem, setup, outcome, phase, turn, main, t_main>>

Thread(t) ==
  \/ Lock(t) \/ LoopHead(t) \/ Operating(t) \/ NextTurn(t) \/ CheckSize(t) \/ Unlock(t)

-----------------------------------------------------------------------------

(* The element that is number n in list_elements: i = threadID + turn *    *)
(* num_threads of listOperations().                                        *)
ElementAt(n) == <<n % NumThreads, n \div NumThreads>>

(* list_elements[i].key = generateKey().                                   *)
GenerateKey ==
  /\ outcome = "running" /\ main = "keys"
  /\ Pool!Draw
  /\ key' = [key EXCEPT ![ElementAt(i)] = actual_keys'[i]]
  /\ UNCHANGED <<mem, sync, num_iterations, th, outcome, lock, phase, turn, main, t_main>>

(* exit(2) on a pthread error.                                             *)
PthreadError ==
  /\ outcome = "running"
  /\ \/ main = "create" /\ (t_main < NumThreads \/ (t_main = 0 /\ sync = "m"))
     \/ main = "join" /\ t_main < NumThreads /\ th[t_main].pc = "returned"
  /\ outcome' = "exit2"
  /\ UNCHANGED <<mem, setup, th, lock, phase, turn, main, t_main>>

CreateThread ==
  /\ outcome = "running" /\ main = "create" /\ t_main < NumThreads
  /\ Set(t_main, [pc |-> "lock"])
  /\ t_main' = t_main + 1
  /\ UNCHANGED <<mem, setup, outcome, lock, phase, turn, main>>

NextLoop ==
  /\ outcome = "running"
  /\ \/ main = "keys" /\ i = num_elementstocreate /\ main' = "create"
     \/ main = "create" /\ t_main = NumThreads /\ main' = "join"
  /\ t_main' = 0
  /\ UNCHANGED <<mem, setup, th, outcome, lock, phase, turn>>

JoinThread ==
  /\ outcome = "running" /\ main = "join" /\ t_main < NumThreads
  /\ th[t_main].pc = "returned"
  /\ t_main' = t_main + 1
  /\ UNCHANGED <<mem, setup, th, outcome, lock, phase, turn, main>>

(* main() calls SortedList_length() when every thread is joined.           *)
CheckList ==
  /\ outcome = "running" /\ main = "join" /\ t_main = NumThreads
  /\ main' = "check"
  /\ Set(MainProc, [pc |-> "length", list |-> list_head])
  /\ UNCHANGED <<mem, setup, outcome, lock, phase, turn, t_main>>

CheckOperating ==
  /\ Operate(MainProc)
  /\ UNCHANGED <<setup, lock, phase, turn, main, t_main>>

(* An empty list is followed by a division by threads * iterations * 3.    *)
Report ==
  /\ On(MainProc, "done")
  /\ outcome' = IF th[MainProc].count # 0 THEN "corrupted"
                ELSE IF NumThreads * num_iterations = 0 THEN "sigfpe" ELSE "printed"
  /\ UNCHANGED <<mem, setup, th, lock, phase, turn, main, t_main>>

Main ==
  \/ GenerateKey \/ PthreadError \/ CreateThread \/ NextLoop \/ JoinThread \/ CheckList
  \/ CheckOperating \/ Report

Terminated == outcome # "running" /\ UNCHANGED vars

Next == Main \/ (\E t \in Threads : Thread(t)) \/ Terminated

Spec == Init /\ [][Next]_vars

-----------------------------------------------------------------------------

(* The elements that thread t has inserted and not deleted yet, once the   *)
(* operation it may be in has returned.                                    *)
Own(t) ==
  {<<t, j>> : j \in IF phase[t] = "delete" THEN turn[t]..(num_iterations - 1)
                    ELSE 0..(turn[t] - 1)}

(* No two elements have the same key when the threads start, and the keys  *)
(* are 0, 1, ..., all orders of which Lab2bList starts from.               *)
KeysFromPool ==
  main # "keys" =>
    LET used == {e \in ListElements : e[2] < num_iterations}
    IN  /\ {key[e] : e \in used} = 0..(num_elementstocreate - 1)
        /\ \A e, f \in used : key[e] = key[f] => e = f

(* With the lock a thread sees the list as if it were its own:             *)
(* between operations it is a sorted ring of exactly the elements of the   *)
(* thread that holds the lock, and it is empty while nobody holds it.  So  *)
(* no thread follows NULL, and no size check reports a corrupted list.     *)
SeesOnlyOwn ==
  sync # "none" =>
    /\ \A t \in Threads : On(t, "loop") => IsRing(0, Own(t))
    /\ (\A t \in Threads : th[t].pc \in {"unborn", "lock", "returned"}) => IsRing(0, {})
    /\ outcome \notin {"segfault", "corrupted"}

(* Even where races corrupt the list, lookup() hands delete() nothing but  *)
(* the thread's own element or the list head: no element is ever unlinked  *)
(* by another thread than the one that inserted it.                        *)
UnlinksOwnOrHead ==
  \A t \in Threads :
    th[t].pc \in DOMAIN DeleteLoads \cup DOMAIN DeleteStores =>
      th[t].elem \in {Element(t), list_head}

(* SortedList.h of lookup: "pointer to matching element, or NULL if none   *)
(* is found".                                                              *)
LookupReturnsMatch ==
  \A t \in Threads : th[t].pc = "delete" => th[t].elem \in {Element(t), Null}

=============================================================================
