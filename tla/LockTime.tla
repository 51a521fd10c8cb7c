------------------------------- MODULE LockTime -------------------------------
(***************************************************************************)
(* The measurement of lab2b/lab2_list.c: activateSync() adds the time it   *)
(* waited for the lock of a sublist to the global lock_time while holding  *)
(* just that lock, so two threads may add to it at the same time.          *)
(* The turns of listOperations() are abstracted to a number of             *)
(* acquisitions, each of any sublist.                                      *)
(***************************************************************************)
EXTENDS Integers

CONSTANTS
  NumThreads, \* --threads
  ListCounts, \* the settings of --lists to consider
  NumTurns,   \* calls of activateSync() a thread makes
  Waits,      \* what one call may measure, in any unit
  SyncModes   \* the --sync settings to consider

(* The clock is taken to be monotonic while a thread waits.                *)
ASSUME TimeAssumption ==
  /\ NumThreads \in Nat
  /\ ListCounts \subseteq Nat
  /\ NumTurns \in Nat
  /\ Waits \subseteq Nat
  /\ SyncModes \subseteq {"none", "m", "s"}

Threads  == 0..(NumThreads - 1)
NoThread == -1
Labels   == {"lock", "load", "store", "op"}

VARIABLES
  sync,       \* sync_flag and sync_type
  num_lists,  \* --lists
  lock,       \* owner of the lock of each sublist, or NoThread
  lock_time,  \* the global sum
  pc,         \* next step of each thread
  turns,      \* calls of activateSync() made
  list_index, \* the sublist of the call in progress
  wait,       \* lock_end - lock_start of the call in progress
  reg,        \* lock_time as read by the += in progress
  waited      \* auxiliary: the sum of all the waits measured and added

setup    == <<sync, num_lists>>
timeVars == <<sync, num_lists, lock, lock_time, pc, turns, list_index, wait, reg, waited>>

Lists == 0..(num_lists - 1)

-----------------------------------------------------------------------------

TimeInit ==
  /\ sync \in SyncModes
  /\ num_lists \in ListCounts
  /\ lock = [l \in Lists |-> NoThread]
  /\ lock_time = 0
  /\ pc = [t \in Threads |-> "lock"]
  /\ turns = [t \in Threads |-> 0]
  /\ list_index = [t \in Threads |-> 0]
  /\ wait = [t \in Threads |-> 0]
  /\ reg = [t \in Threads |-> 0]
  /\ waited = 0

Goto(t, label) == pc' = [pc EXCEPT ![t] = label]

(* Mutant: the lock is not waited for.                                     *)
ActivateUnguarded(t) ==
  /\ pc[t] = "lock" /\ turns[t] < NumTurns
  /\ \E l \in Lists, w \in Waits :
       /\ list_index' = [list_index EXCEPT ![t] = l]
       /\ wait' = [wait EXCEPT ![t] = w]
       /\ IF sync = "none" THEN UNCHANGED lock
          ELSE lock' = [lock EXCEPT ![l] = t]
  /\ Goto(t, "load")
  /\ UNCHANGED <<setup, lock_time, turns, reg, waited>>

(* activateSync() up to the second clock_gettime().                        *)
Activate(t) ==
  /\ pc[t] = "lock" /\ turns[t] < NumTurns
  /\ \E l \in Lists, w \in Waits :
       /\ list_index' = [list_index EXCEPT ![t] = l]
       /\ wait' = [wait EXCEPT ![t] = w]
       /\ IF sync = "none" THEN UNCHANGED lock
          ELSE lock[l] = NoThread /\ lock' = [lock EXCEPT ![l] = t]
  /\ Goto(t, "load")
  /\ UNCHANGED <<setup, lock_time, turns, reg, waited>>

(* lock_time += ... reads the sum and writes it back.                      *)
LoadTime(t) ==
  /\ pc[t] = "load"
  /\ reg' = [reg EXCEPT ![t] = lock_time]
  /\ Goto(t, "store")
  /\ UNCHANGED <<setup, lock, lock_time, turns, list_index, wait, waited>>

(* Mutant: the sum is added to once before and once after the operation.   *)
StoreTimeTwice(t) ==
  /\ pc[t] = "store"
  /\ lock_time' = reg[t] + 2 * wait[t]
  /\ waited' = waited + wait[t]
  /\ Goto(t, "op")
  /\ UNCHANGED <<setup, lock, turns, list_index, wait, reg>>

StoreTime(t) ==
  /\ pc[t] = "store"
  /\ lock_time' = reg[t] + wait[t]
  /\ waited' = waited + wait[t]
  /\ Goto(t, "op")
  /\ UNCHANGED <<setup, lock, turns, list_index, wait, reg>>

(* The operation on the sublist, and deactivateSync().                     *)
Deactivate(t) ==
  /\ pc[t] = "op"
  /\ IF sync = "none" THEN UNCHANGED lock
     ELSE lock' = [lock EXCEPT ![list_index[t]] = NoThread]
  /\ turns' = [turns EXCEPT ![t] = @ + 1]
  /\ list_index' = [list_index EXCEPT ![t] = 0]
  /\ wait' = [wait EXCEPT ![t] = 0]
  /\ reg' = [reg EXCEPT ![t] = 0]
  /\ Goto(t, "lock")
  /\ UNCHANGED <<setup, lock_time, waited>>

Finished ==
  /\ \A t \in Threads : pc[t] = "lock" /\ turns[t] = NumTurns
  /\ UNCHANGED timeVars

TimeNext ==
  \/ \E t \in Threads : Activate(t) \/ LoadTime(t) \/ StoreTime(t) \/ Deactivate(t)
  \/ Finished

TimeSpec == TimeInit /\ [][TimeNext]_timeVars

-----------------------------------------------------------------------------

(* Every variable keeps its type.                                          *)
TimeTypeOK ==
  /\ sync \in SyncModes /\ num_lists \in ListCounts
  /\ lock \in [Lists -> Threads \cup {NoThread}]
  /\ lock_time \in Nat /\ waited \in Nat
  /\ pc \in [Threads -> Labels]
  /\ turns \in [Threads -> 0..NumTurns]
  /\ list_index \in [Threads -> Nat]
  /\ wait \in [Threads -> Nat]
  /\ reg \in [Threads -> Nat]

(* The sum never reports more than was waited, however the updates race.   *)
NeverOverstated == lock_time <= waited

(* With a single sublist its lock protects the sum too, which is exact.    *)
ExactForOneList == num_lists = 1 /\ sync # "none" => lock_time = waited

(* What lab2b_list.gp says of the eighth column, which is computed from    *)
(* lock_time when all threads are done: it is the time waited for locks.   *)
ReportsWaitTime ==
  sync # "none" /\ (\A t \in Threads : turns[t] = NumTurns) => lock_time = waited

=============================================================================
