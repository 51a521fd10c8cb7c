------------------------------ MODULE AddCounter ------------------------------
(***************************************************************************)
(* lab2a/lab2_add.c: NumThreads threads add +1, then -1, NumIterations     *)
(* times each, to one shared long long counter, protected as --sync says:  *)
(*   "m" a mutex, "s" a test-and-set spin lock, "c" a compare-and-swap     *)
(*   loop, "none" nothing (no --sync, or a letter add() does not test for).*)
(* Every access to shared memory is a step of its own, so sched_yield()    *)
(* (--yield) adds no behaviour and is left out.                            *)
(***************************************************************************)
EXTENDS Integers, FiniteSets

CONSTANTS
  NumThreads,    \* --threads
  NumIterations, \* --iterations
  IntHalf,       \* 2^31 in the build: an int holds -IntHalf .. IntHalf - 1
  SyncModes      \* the --sync settings to consider

(* main() rejects only negative values, so 0 threads or iterations pass.   *)
ASSUME AddAssumption ==
  /\ NumThreads \in Nat
  /\ NumIterations \in Nat
  /\ IntHalf \in Nat \ {0}
  /\ SyncModes \subseteq {"none", "m", "s", "c"}

Threads  == 0..(NumThreads - 1)
NoThread == -1
IntRange == -IntHalf .. (IntHalf - 1)

(* The conversion of a wider integer to int that gcc makes: modulo 2^32.   *)
ToInt(x) == ((x + IntHalf) % (2 * IntHalf)) - IntHalf

Labels == {"unborn", "lock", "load", "store", "unlock", "casLoad", "cas",
           "returned"}

VARIABLES
  sync,        \* opt_sync and sync_type, set by the option loop of main()
  counter,     \* the long long every thread adds to
  m_lock,      \* owner of the pthread mutex, or NoThread
  atomic_lock, \* the word of the spin lock
  pc,          \* next step of each thread
  calls,       \* add() calls of add_ntimes() that have returned
  reg,         \* sum, or old_value, of the add() call in progress
  main,        \* where main() is: "create" or "join" loop
  t_main,      \* loop variable t of main()
  outcome      \* how the process ended, or "running"

locks      == <<m_lock, atomic_lock>>
mainVars   == <<main, t_main, outcome>>
vars       == <<sync, counter, m_lock, atomic_lock, pc, calls, reg, main,
                t_main, outcome>>

-----------------------------------------------------------------------------

(* Mutant: the increment loop runs once too often.                         *)
AddendOffByOne(n) == IF n <= NumIterations THEN 1 ELSE -1

(* The value argument of the add() call a thread makes after n calls.      *)
Addend(n) == IF n < NumIterations THEN 1 ELSE -1

(* The branches at the top of add().                                       *)
FirstStep ==
  IF sync = "c" THEN "casLoad" ELSE IF sync \in {"m", "s"} THEN "lock" ELSE "load"

(* Mutant: add() does not know --sync=s and runs unprotected.              *)
EntryNoSpin(n) ==
  IF n = 2 * NumIterations THEN "returned"
  ELSE IF sync = "s" THEN "load" ELSE FirstStep

(* First step of the next add() call after n returned ones, or the end.    *)
Entry(n) == IF n = 2 * NumIterations THEN "returned" ELSE FirstStep

Init ==
  /\ sync \in SyncModes
  /\ counter = 0
  /\ m_lock = NoThread
  /\ atomic_lock = 0
  /\ pc = [t \in Threads |-> "unborn"]
  /\ calls = [t \in Threads |-> 0]
  /\ reg = [t \in Threads |-> 0]
  /\ main = "create"
  /\ t_main = 0
  /\ outcome = "running"

Goto(t, label) == pc' = [pc EXCEPT ![t] = label]

At(t, label) == outcome = "running" /\ pc[t] = label

(* add() returns and the loops of add_ntimes() go on.                      *)
Return(t) ==
  /\ calls' = [calls EXCEPT ![t] = @ + 1]
  /\ Goto(t, Entry(calls[t] + 1))

(* A spinning or blocked thread stays at "lock" until the lock is free.    *)
Lock(t) ==
  /\ At(t, "lock")
  /\ \/ sync = "m" /\ m_lock = NoThread /\ m_lock' = t /\ UNCHANGED atomic_lock
     \/ sync = "s" /\ atomic_lock = 0 /\ atomic_lock' = 1 /\ UNCHANGED m_lock
  /\ Goto(t, "load")
  /\ UNCHANGED <<sync, counter, calls, reg, mainVars>>

Load(t) ==
  /\ At(t, "load")
  /\ reg' = [reg EXCEPT ![t] = counter + Addend(calls[t])]
  /\ Goto(t, "store")
  /\ UNCHANGED <<sync, counter, locks, calls, mainVars>>

Store(t) ==
  /\ At(t, "store")
  /\ counter' = reg[t]
  /\ IF sync = "none" THEN Return(t) ELSE Goto(t, "unlock") /\ UNCHANGED calls
  /\ UNCHANGED <<sync, locks, reg, mainVars>>

Unlock(t) ==
  /\ At(t, "unlock")
  /\ \/ sync = "m" /\ m_lock' = NoThread /\ UNCHANGED atomic_lock
     \/ sync = "s" /\ atomic_lock' = 0 /\ UNCHANGED m_lock
  /\ Return(t)
  /\ UNCHANGED <<sync, counter, reg, mainVars>>

(* old_value is an int: the long long counter is narrowed when it is read. *)
CasLoad(t) ==
  /\ At(t, "casLoad")
  /\ reg' = [reg EXCEPT ![t] = ToInt(counter)]
  /\ Goto(t, "cas")
  /\ UNCHANGED <<sync, counter, locks, calls, mainVars>>

(* Mutant: a plain store in place of the compare and swap.                 *)
CasUnconditional(t) ==
  /\ At(t, "cas")
  /\ counter' = ToInt(reg[t] + Addend(calls[t]))
  /\ Return(t)
  /\ UNCHANGED <<sync, locks, reg, mainVars>>

(* Mutant: a failed swap is retried without reading the counter again.     *)
CasStaleRetry(t) ==
  /\ At(t, "cas")
  /\ IF counter = reg[t]
     THEN counter' = ToInt(reg[t] + Addend(calls[t])) /\ Return(t)
     ELSE UNCHANGED <<counter, calls, pc>>
  /\ UNCHANGED <<sync, locks, reg, mainVars>>

(* new_value is an int too.  A failed swap starts the loop over.           *)
Cas(t) ==
  /\ At(t, "cas")
  /\ IF counter = reg[t]
     THEN counter' = ToInt(reg[t] + Addend(calls[t])) /\ Return(t)
     ELSE Goto(t, "casLoad") /\ UNCHANGED <<counter, calls>>
  /\ UNCHANGED <<sync, locks, reg, mainVars>>

Thread(t) ==
  \/ Lock(t) \/ Load(t) \/ Store(t) \/ Unlock(t) \/ CasLoad(t) \/ Cas(t)

-----------------------------------------------------------------------------

(* exit(2) on a pthread error, which ends every thread of the process.     *)
PthreadError ==
  /\ outcome = "running"
  /\ \/ main = "create" /\ (t_main < NumThreads \/ (sync = "m" /\ t_main = 0))
     \/ main = "join" /\ t_main < NumThreads /\ pc[t_main] = "returned"
  /\ outcome' = "exit2"
  /\ UNCHANGED <<sync, counter, locks, pc, calls, reg, main, t_main>>

CreateThread ==
  /\ outcome = "running" /\ main = "create" /\ t_main < NumThreads
  /\ Goto(t_main, Entry(0))
  /\ t_main' = t_main + 1
  /\ UNCHANGED <<sync, counter, locks, calls, reg, main, outcome>>

AllCreated ==
  /\ outcome = "running" /\ main = "create" /\ t_main = NumThreads
  /\ main' = "join" /\ t_main' = 0
  /\ UNCHANGED <<sync, counter, locks, pc, calls, reg, outcome>>

JoinThread ==
  /\ outcome = "running" /\ main = "join" /\ t_main < NumThreads
  /\ pc[t_main] = "returned"
  /\ t_main' = t_main + 1
  /\ UNCHANGED <<sync, counter, locks, pc, calls, reg, main, outcome>>

(* num_threads * num_iterations * 2 is computed in int, then divides.      *)
NumOperations == ToInt(NumThreads * NumIterations * 2)

Report ==
  /\ outcome = "running" /\ main = "join" /\ t_main = NumThreads
  /\ outcome' = IF NumOperations = 0 THEN "sigfpe" ELSE "printed"
  /\ UNCHANGED <<sync, counter, locks, pc, calls, reg, main, t_main>>

Main == PthreadError \/ CreateThread \/ AllCreated \/ JoinThread \/ Report

Terminated == outcome # "running" /\ UNCHANGED vars

Next == Main \/ (\E t \in Threads : Thread(t)) \/ Terminated

Spec == Init /\ [][Next]_vars

(* The kernel runs every thread that can run, and main().  Nothing is      *)
(* promised about who wins a contended lock or swap.                       *)
FairSpec == Spec /\ WF_vars(Main) /\ \A t \in Threads : WF_vars(Thread(t))

-----------------------------------------------------------------------------

(* Every variable of the process keeps its C type.                         *)
TypeOK ==
  /\ sync \in SyncModes
  /\ counter \in Int
  /\ m_lock \in Threads \cup {NoThread}
  /\ atomic_lock \in {0, 1}
  /\ pc \in [Threads -> Labels]
  /\ calls \in [Threads -> 0..(2 * NumIterations)]
  /\ reg \in [Threads -> Int]
  /\ main \in {"create", "join"}
  /\ t_main \in 0..NumThreads
  /\ outcome \in {"running", "exit2", "sigfpe", "printed"}

Critical(t) == pc[t] \in {"load", "store", "unlock"}

(* With --sync=m or --sync=s no two threads are between the lock and the   *)
(* unlock of add(), and the lock word is taken exactly while one is.       *)
MutualExclusion ==
  sync \in {"m", "s"} =>
    /\ \A t, u \in Threads : Critical(t) /\ Critical(u) => t = u
    /\ (m_lock # NoThread \/ atomic_lock = 1) <=> \E t \in Threads : Critical(t)

(* With any --sync setting add() knows, the counter main() prints after    *)
(* joining every thread is 0, also when an int sum of the swap loop has    *)
(* wrapped around on the way.                                              *)
FinalCounterZero == outcome = "printed" /\ sync # "none" => counter = 0

(* add() calls of thread t whose effect is in the counter.                 *)
Committed(t) == calls[t] + (IF pc[t] = "unlock" THEN 1 ELSE 0)

(* With any --sync setting add() knows, a run is one of the atomic counter:*)
(* every lock, swap and retry step maps to one whole add() or to nothing.  *)
Atomic == INSTANCE AtomicCounter
            WITH exact <- sync # "none", value <- counter,
                 made <- [t \in Threads |-> Committed(t)],
                 Modulus <- 2 * IntHalf

AddIsAtomic == Atomic!Spec

(* The increments, and the decrements, that have returned.                 *)
Returned(turns) == {call \in Threads \X turns : call[2] < calls[call[1]]}
Increments == Cardinality(Returned(0..(NumIterations - 1)))
Decrements == Cardinality(Returned(NumIterations..(2 * NumIterations - 1)))

(* Without --sync updates get lost, but the race is bounded: the counter   *)
(* never exceeds the increments that have been stored, nor falls below     *)
(* minus the decrements, whatever stale sums the threads write back.       *)
RaceBound == sync = "none" => -Decrements <= counter /\ counter <= Increments

(* The process always ends: no thread waits for a lock or retries a swap   *)
(* for ever, because the others run out of calls to make.                  *)
Termination == <>(outcome # "running")

=============================================================================
