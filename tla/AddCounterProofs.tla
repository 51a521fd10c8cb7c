--------------------------- MODULE AddCounterProofs ---------------------------
(***************************************************************************)
(* Proofs about AddCounter for every number of threads and iterations and  *)
(* every width of an int: the inductive invariant IInv, and from it type   *)
(* correctness, mutual exclusion, the final value of the counter and that   *)
(* the program implements AtomicCounter.                                   *)
(***************************************************************************)
EXTENDS AddCounterInv, FiniteSetTheorems, TLAPS

USE AddAssumption

(* Two facts of arithmetic, apart from the products they are used on.      *)
LEMMA Distributive ==
  ASSUME NEW a \in Int, NEW b \in Int, NEW c \in Int
  PROVE  a * (b + c) = a * b + a * c
BY SMT

LEMMA Shift ==
  ASSUME NEW a \in Int, NEW b \in Int, NEW c \in Int, NEW d \in Int
  PROVE  (a + b) + c = (a + c - d) + (b + d)
BY SMT

(* Narrowing a long long to int leaves an int alone and wraps the two      *)
(* values next to the range of an int around.                              *)
LEMMA ToIntSmall == ASSUME NEW x \in IntRange PROVE ToInt(x) = x
  BY SMT DEF ToInt, IntRange

LEMMA ToIntType == ASSUME NEW x \in Int PROVE ToInt(x) \in IntRange
  BY SMT DEF ToInt, IntRange

LEMMA ToIntSum ==
  ASSUME NEW x \in IntRange, NEW d \in {1, -1}
  PROVE  \E w \in {-1, 0, 1} : ToInt(x + d) = x + d - 2 * IntHalf * w
<1>1. CASE x + d \in IntRange
  <2>1. ToInt(x + d) = x + d - 2 * IntHalf * 0
    BY <1>1, ToIntSmall, SMT DEF IntRange
  <2> QED BY <2>1
<1>2. CASE x + d = IntHalf
  <2>1. ToInt(x + d) = -IntHalf
    BY <1>2, SMT DEF ToInt
  <2>2. ToInt(x + d) = x + d - 2 * IntHalf * 1
    BY <1>2, <2>1, SMT DEF IntRange
  <2> QED BY <2>2
<1>3. CASE x + d = -IntHalf - 1
  <2>1. ToInt(x + d) = IntHalf - 1
    BY <1>3, SMT DEF ToInt
  <2>2. ToInt(x + d) = x + d - 2 * IntHalf * (-1)
    BY <1>3, <2>1, SMT DEF IntRange
  <2> QED BY <2>2
<1> QED BY <1>1, <1>2, <1>3, SMT DEF IntRange

(* Reading the addend of call n off the net sum of n calls.                *)
LEMMA NetStep ==
  ASSUME NEW n \in 0..(2 * NumIterations - 1)
  PROVE  /\ Net(n + 1) = Net(n) + Addend(n)
         /\ Addend(n) \in {1, -1}
  BY SMT DEF Net, Addend

LEMMA NetEnds == Net(0) = 0 /\ Net(2 * NumIterations) = 0
  BY SMT DEF Net

(* A wrapped int that sums up to 0 has not wrapped.                        *)
LEMMA NoWrap ==
  ASSUME NEW c \in IntRange, NEW w \in Int, 0 = c + 2 * IntHalf * w
  PROVE  c = 0
<1>1. CASE w >= 1
  BY <1>1, SMT DEF IntRange
<1>2. CASE w <= -1
  BY <1>2, SMT DEF IntRange
<1>3. CASE w = 0
  BY <1>3, SMT DEF IntRange
<1> QED BY <1>1, <1>2, <1>3, SMT

-----------------------------------------------------------------------------

(* Entry only ever yields the label of a thread outside the lock.          *)
LEMMA EntryLabel ==
  ASSUME TypeOK, NEW n \in 0..(2 * NumIterations)
  PROVE  /\ Entry(n) \in {"returned", "casLoad", "lock", "load"}
         /\ Entry(n) = "returned" <=> n = 2 * NumIterations
         /\ Entry(n) = "casLoad" => sync = "c"
         /\ Entry(n) = "lock" => sync \in {"m", "s"}
         /\ Entry(n) = "load" => sync = "none"
  BY AddAssumption, SMT DEF Entry, FirstStep, TypeOK

LEMMA InitIInv == Init => IInv
<1> SUFFICES ASSUME Init PROVE IInv
  OBVIOUS
<1>1. TypeOK /\ ControlInv /\ MainInv /\ LockInv /\ CasInv
  BY DEF Init, TypeOK, ControlInv, MainInv, LockInv, CasInv, Threads, NoThread,
         Labels, Critical, IntRange
<1>2. Ledger
  <2> DEFINE zero == [i \in 0..NumThreads |-> 0]
  <2>1. LedgerOf(zero, 0)
    <3>1. \A t \in Threads : Committed(t) = 0
      BY DEF Init, Committed
    <3> QED BY <3>1, NetEnds DEF LedgerOf, Init, Threads
  <2>2. zero \in [0..NumThreads -> Int] /\ 0 \in Int
    OBVIOUS
  <2> HIDE DEF zero
  <2> QED BY <2>1, <2>2 DEF Ledger
<1> QED BY <1>1, <1>2 DEF IInv

(* A thread in the middle of add() has a call left to count.               *)
LEMMA CallInProgress ==
  ASSUME IInv, NEW t \in Threads, pc[t] \notin {"unborn", "returned"}
  PROVE  calls[t] \in 0..(2 * NumIterations - 1)
<1>1. calls[t] \in 0..(2 * NumIterations) /\ calls[t] < 2 * NumIterations
  BY DEF IInv, TypeOK, ControlInv
<1> QED BY <1>1, SMT

(* Every step keeps the types.                                             *)
LEMMA TypeStep == IInv /\ [Next]_vars => TypeOK'
<1> SUFFICES ASSUME IInv, [Next]_vars PROVE TypeOK'
  OBVIOUS
<1> USE DEF IInv, TypeOK, Threads, NoThread, Labels, mainVars, locks
<1>1. ASSUME NEW t \in Threads, Lock(t) PROVE TypeOK'
  BY <1>1 DEF Lock, At, Goto
<1>2. ASSUME NEW t \in Threads, Load(t) PROVE TypeOK'
  <2>1. counter + Addend(calls[t]) \in Int
    BY SMT DEF Addend
  <2> QED BY <1>2, <2>1 DEF Load, At, Goto
<1>3. ASSUME NEW t \in Threads, Store(t) PROVE TypeOK'
  <2>0. calls[t] \in 0..(2 * NumIterations - 1)
    BY <1>3, CallInProgress DEF Store, At
  <2>1. calls[t] + 1 \in 0..(2 * NumIterations)
    BY <2>0, SMT
  <2>2. Entry(calls[t] + 1) \in Labels
    BY <2>1, EntryLabel
  <2> QED BY <1>3, <2>1, <2>2 DEF Store, At, Goto, Return
<1>4. ASSUME NEW t \in Threads, Unlock(t) PROVE TypeOK'
  <2>0. calls[t] \in 0..(2 * NumIterations - 1)
    BY <1>4, CallInProgress DEF Unlock, At
  <2>1. calls[t] + 1 \in 0..(2 * NumIterations)
    BY <2>0, SMT
  <2>2. Entry(calls[t] + 1) \in Labels
    BY <2>1, EntryLabel
  <2> QED BY <1>4, <2>1, <2>2 DEF Unlock, At, Goto, Return
<1>5. ASSUME NEW t \in Threads, CasLoad(t) PROVE TypeOK'
  <2>1. ToInt(counter) \in Int
    BY ToIntType DEF IntRange
  <2> QED BY <1>5, <2>1 DEF CasLoad, At, Goto
<1>6. ASSUME NEW t \in Threads, Cas(t) PROVE TypeOK'
  <2>0. calls[t] \in 0..(2 * NumIterations - 1)
    BY <1>6, CallInProgress DEF Cas, At
  <2>1. calls[t] + 1 \in 0..(2 * NumIterations)
    BY <2>0, SMT
  <2>2. Entry(calls[t] + 1) \in Labels
    BY <2>1, EntryLabel
  <2>3. ToInt(reg[t] + Addend(calls[t])) \in Int
    <3>1. reg[t] + Addend(calls[t]) \in Int
      BY DEF Addend
    <3> QED BY <3>1, ToIntType DEF IntRange
  <2> QED BY <1>6, <2>1, <2>2, <2>3 DEF Cas, At, Goto, Return
<1>7. CASE Main
  <2>1. CASE CreateThread
    <3>1. Entry(0) \in Labels
      BY EntryLabel
    <3> QED BY <2>1, <3>1 DEF CreateThread, Goto
  <2>2. CASE PthreadError
    BY <2>2 DEF PthreadError
  <2>3. CASE AllCreated
    BY <2>3 DEF AllCreated
  <2>4. CASE JoinThread
    BY <2>4 DEF JoinThread
  <2>5. CASE Report
    BY <2>5, SMT DEF Report
  <2> QED BY <1>7, <2>1, <2>2, <2>3, <2>4, <2>5 DEF Main
<1>8. CASE UNCHANGED vars
  BY <1>8 DEF vars
<1> QED BY <1>1, <1>2, <1>3, <1>4, <1>5, <1>6, <1>7, <1>8
        DEF Next, Thread, Terminated

(* What a step does to the label of a thread.                              *)
LEMMA ControlStep == IInv /\ [Next]_vars => ControlInv'
<1> SUFFICES ASSUME IInv, [Next]_vars PROVE ControlInv'
  OBVIOUS
<1> USE DEF IInv, TypeOK, ControlInv, Goto, At, mainVars, locks
<1>1. ASSUME NEW t \in Threads, Lock(t) PROVE ControlInv'
  BY <1>1 DEF Lock
<1>2. ASSUME NEW t \in Threads, Load(t) PROVE ControlInv'
  BY <1>2 DEF Load
<1>3. ASSUME NEW t \in Threads, Store(t) PROVE ControlInv'
  <2>0. calls[t] \in 0..(2 * NumIterations - 1)
    BY <1>3, CallInProgress DEF Store
  <2>1. calls[t] + 1 \in 0..(2 * NumIterations)
    BY <2>0, SMT
  <2>2. CASE sync = "none"
    BY <1>3, <2>0, <2>1, <2>2, EntryLabel DEF Store, Return
  <2>3. CASE sync # "none"
    BY <1>3, <2>0, <2>3, AddAssumption DEF Store
  <2> QED BY <2>2, <2>3
<1>4. ASSUME NEW t \in Threads, Unlock(t) PROVE ControlInv'
  <2>0. calls[t] \in 0..(2 * NumIterations - 1)
    BY <1>4, CallInProgress DEF Unlock
  <2>1. calls[t] + 1 \in 0..(2 * NumIterations)
    BY <2>0, SMT
  <2> QED BY <1>4, <2>0, <2>1, EntryLabel DEF Unlock, Return
<1>5. ASSUME NEW t \in Threads, CasLoad(t) PROVE ControlInv'
  BY <1>5 DEF CasLoad
<1>6. ASSUME NEW t \in Threads, Cas(t) PROVE ControlInv'
  <2>0. calls[t] \in 0..(2 * NumIterations - 1)
    BY <1>6, CallInProgress DEF Cas
  <2>1. calls[t] + 1 \in 0..(2 * NumIterations)
    BY <2>0, SMT
  <2>2. CASE counter = reg[t]
    BY <1>6, <2>0, <2>1, <2>2, EntryLabel DEF Cas, Return
  <2>3. CASE counter # reg[t]
    BY <1>6, <2>0, <2>3 DEF Cas
  <2> QED BY <2>2, <2>3
<1>7. CASE Main
  <2>1. CASE CreateThread
    <3>1. 0 \in 0..(2 * NumIterations)
      BY SMT
    <3>2. t_main \in Threads /\ calls[t_main] = 0
      BY <2>1, SMT DEF CreateThread, Threads, MainInv
    <3> QED BY <2>1, <3>1, <3>2, EntryLabel, SMT DEF CreateThread
  <2>2. CASE PthreadError \/ AllCreated \/ JoinThread \/ Report
    BY <2>2 DEF PthreadError, AllCreated, JoinThread, Report
  <2> QED BY <1>7, <2>1, <2>2 DEF Main
<1>8. CASE UNCHANGED vars
  BY <1>8 DEF vars
<1> QED BY <1>1, <1>2, <1>3, <1>4, <1>5, <1>6, <1>7, <1>8
        DEF Next, Thread, Terminated

(* No step of a thread is taken before it is created or after it returned. *)
LEMMA MainStep == IInv /\ [Next]_vars => MainInv'
<1> SUFFICES ASSUME IInv, [Next]_vars PROVE MainInv'
  OBVIOUS
<1> USE DEF IInv, TypeOK, MainInv, Goto, At, mainVars, locks
<1>1. ASSUME NEW t \in Threads, Thread(t) PROVE MainInv'
  <2>1. /\ pc[t] \notin {"unborn", "returned"}
        /\ UNCHANGED <<main, t_main, outcome>>
        /\ \A u \in Threads : u # t => pc'[u] = pc[u]
    <3>1. CASE Lock(t)
      BY <3>1 DEF Lock
    <3>2. CASE Load(t)
      BY <3>2 DEF Load
    <3>3. CASE Store(t)
      BY <3>3 DEF Store, Return
    <3>4. CASE Unlock(t)
      BY <3>4 DEF Unlock, Return
    <3>5. CASE CasLoad(t)
      BY <3>5 DEF CasLoad
    <3>6. CASE Cas(t)
      BY <3>6 DEF Cas, Return
    <3> QED BY <1>1, <3>1, <3>2, <3>3, <3>4, <3>5, <3>6 DEF Thread
  <2> QED BY <2>1
<1>2. CASE Main
  <2>1. CASE PthreadError
    BY <2>1 DEF PthreadError
  <2>2. CASE CreateThread
    BY <2>2, SMT DEF CreateThread, Threads
  <2>3. CASE AllCreated
    BY <2>3, SMT DEF AllCreated, Threads
  <2>4. CASE JoinThread
    BY <2>4, SMT DEF JoinThread, Threads
  <2>5. CASE Report
    BY <2>5, SMT DEF Report
  <2> QED BY <1>2, <2>1, <2>2, <2>3, <2>4, <2>5 DEF Main
<1>3. CASE UNCHANGED vars
  BY <1>3 DEF vars
<1> QED BY <1>1, <1>2, <1>3 DEF Next, Terminated

(* The lock changes hands only through a thread that is, or was, critical. *)
LEMMA LockStep == IInv /\ [Next]_vars => LockInv'
<1> SUFFICES ASSUME IInv, [Next]_vars PROVE LockInv'
  OBVIOUS
<1> USE DEF IInv, TypeOK, ControlInv, LockInv, Critical, Goto, At, mainVars, locks
<1>1. ASSUME NEW t \in Threads, Lock(t) PROVE LockInv'
  <2>1. CASE sync = "m"
    BY <1>1, <2>1 DEF Lock, NoThread, Threads
  <2>2. CASE sync = "s"
    BY <1>1, <2>2 DEF Lock
  <2> QED BY <1>1, <2>1, <2>2 DEF Lock
<1>2. ASSUME NEW t \in Threads, Load(t) PROVE LockInv'
  BY <1>2 DEF Load
<1>3. ASSUME NEW t \in Threads, Store(t) PROVE LockInv'
  <2>1. CASE sync = "none"
    BY <1>3, <2>1 DEF Store, Return
  <2>2. CASE sync # "none"
    BY <1>3, <2>2, AddAssumption DEF Store
  <2> QED BY <2>1, <2>2
<1>4. ASSUME NEW t \in Threads, Unlock(t) PROVE LockInv'
  <2>0. calls[t] \in 0..(2 * NumIterations - 1)
    BY <1>4, CallInProgress DEF Unlock
  <2>1. calls[t] + 1 \in 0..(2 * NumIterations)
    BY <2>0, SMT
  <2>2. pc' = [pc EXCEPT ![t] = Entry(calls[t] + 1)] /\ Entry(calls[t] + 1) \in {"returned", "lock"}
    BY <1>4, <2>1, EntryLabel DEF Unlock, Return
  <2>3. CASE sync = "m"
    <3>1. m_lock' = NoThread /\ UNCHANGED <<sync, atomic_lock, counter, reg>>
      BY <1>4, <2>3 DEF Unlock
    <3>2. \A u \in Threads : m_lock = u <=> Critical(u)
      BY <2>3
    <3>3. \A u \in Threads : ~Critical(u)'
      BY <1>4, <2>2, <3>2 DEF Unlock
    <3>4. NoThread \notin Threads
      BY SMT DEF NoThread, Threads
    <3> QED BY <2>3, <3>1, <3>3, <3>4
  <2>4. CASE sync = "s"
    BY <1>4, <2>2, <2>4 DEF Unlock
  <2> QED BY <1>4, <2>3, <2>4 DEF Unlock
<1>5. ASSUME NEW t \in Threads, CasLoad(t) PROVE LockInv'
  BY <1>5 DEF CasLoad
<1>6. ASSUME NEW t \in Threads, Cas(t) PROVE LockInv'
  BY <1>6 DEF Cas, Return
<1>7. CASE Main
  <2>1. CASE CreateThread
    <3>1. 0 \in 0..(2 * NumIterations)
      BY SMT
    <3>2. t_main \in Threads /\ pc[t_main] = "unborn"
      BY <2>1, SMT DEF CreateThread, Threads, MainInv
    <3>3. sync \in {"m", "s"} => Entry(0) \in {"returned", "lock"}
      BY <3>1, EntryLabel
    <3> QED BY <2>1, <3>2, <3>3 DEF CreateThread
  <2>2. CASE PthreadError \/ AllCreated \/ JoinThread \/ Report
    BY <2>2 DEF PthreadError, AllCreated, JoinThread, Report
  <2> QED BY <1>7, <2>1, <2>2 DEF Main
<1>8. CASE UNCHANGED vars
  BY <1>8 DEF vars
<1> QED BY <1>1, <1>2, <1>3, <1>4, <1>5, <1>6, <1>7, <1>8
        DEF Next, Thread, Terminated

(* The swap loop narrows every sum to an int before it stores it.          *)
LEMMA CasStep == IInv /\ [Next]_vars => CasInv'
<1> SUFFICES ASSUME IInv, [Next]_vars, sync = "c"
             PROVE  CasInv' 
  BY DEF CasInv, Next, Main, Thread, Lock, Load, Store, Unlock, CasLoad, Cas,
         PthreadError, CreateThread, AllCreated, JoinThread, Report,
         Terminated, vars
<1> USE DEF IInv, TypeOK, ControlInv, CasInv, Goto, At, mainVars, locks
<1>1. ASSUME NEW t \in Threads, Lock(t) \/ Load(t) \/ Store(t) \/ Unlock(t)
      PROVE  CasInv'
  BY <1>1 DEF Lock, Load, Store, Unlock
<1>2. ASSUME NEW t \in Threads, CasLoad(t) PROVE CasInv'
  <2>1. ToInt(counter) \in IntRange
    BY ToIntType
  <2> QED BY <1>2, <2>1 DEF CasLoad
<1>3. ASSUME NEW t \in Threads, Cas(t) PROVE CasInv'
  <2>0. calls[t] \in 0..(2 * NumIterations - 1)
    BY <1>3, CallInProgress DEF Cas
  <2>1. calls[t] + 1 \in 0..(2 * NumIterations)
    BY <2>0, SMT
  <2>2. ToInt(reg[t] + Addend(calls[t])) \in IntRange
    <3>1. reg[t] + Addend(calls[t]) \in Int
      BY DEF Addend
    <3> QED BY <3>1, ToIntType
  <2>3. Entry(calls[t] + 1) # "cas"
    BY <2>1, EntryLabel
  <2> QED BY <1>3, <2>2, <2>3 DEF Cas, Return
<1>4. CASE Main
  <2>1. Entry(0) # "cas"
    <3>1. 0 \in 0..(2 * NumIterations)
      BY SMT
    <3> QED BY <3>1, EntryLabel
  <2>2. CASE CreateThread
    BY <2>1, <2>2 DEF CreateThread
  <2>3. CASE PthreadError \/ AllCreated \/ JoinThread \/ Report
    BY <2>3 DEF PthreadError, AllCreated, JoinThread, Report
  <2> QED BY <1>4, <2>2, <2>3 DEF Main
<1>5. CASE UNCHANGED vars
  BY <1>5 DEF vars
<1> QED BY <1>1, <1>2, <1>3, <1>4, <1>5 DEF Next, Thread, Terminated

(* A step that commits no add() call keeps the ledger as it is.            *)
LEMMA LedgerKept ==
  ASSUME NEW sum \in [0..NumThreads -> Int], NEW wraps \in Int,
         LedgerOf(sum, wraps),
         UNCHANGED <<sync, counter, main, t_main>>,
         \A t \in Threads : Committed(t)' = Committed(t)
  PROVE  LedgerOf(sum, wraps)'
  BY DEF LedgerOf

(* A step of thread t that commits its call n adds the addend to every     *)
(* partial sum beyond t, and a wrap of the int to the count of wraps.      *)
LEMMA LedgerCommit ==
  ASSUME TypeOK,
         NEW sum \in [0..NumThreads -> Int], NEW wraps \in Int,
         LedgerOf(sum, wraps),
         NEW t \in Threads, NEW n \in 0..(2 * NumIterations - 1),
         Committed(t) = n, Committed(t)' = n + 1,
         \A u \in Threads : u # t => Committed(u)' = Committed(u),
         NEW w \in {-1, 0, 1}, sync # "c" => w = 0,
         counter' = counter + Addend(n) - 2 * IntHalf * w,
         main = "join" => t_main <= t,
         UNCHANGED <<sync, main, t_main>>
  PROVE  Ledger'
<1> DEFINE new == [i \in 0..NumThreads |->
                     IF i > t THEN sum[i] + Addend(n) ELSE sum[i]]
<1>0. /\ Addend(n) \in Int
      /\ Net(n) \in Int
      /\ Net(n + 1) = Net(n) + Addend(n)
      /\ Threads = 0..(NumThreads - 1)
  BY NetStep, SMT DEF Net, Threads
<1>1. new \in [0..NumThreads -> Int]
  BY <1>0, SMTT(30)
<1>2. wraps + w \in Int
  OBVIOUS
<1>3. new[0] = 0
  BY <1>0, SMT DEF LedgerOf
<1>4. ASSUME NEW u \in Threads PROVE new[u + 1] = new[u] + Net(Committed(u)')
  <2>0. u \in 0..NumThreads /\ u + 1 \in 0..NumThreads
    BY <1>0, SMT
  <2>1. /\ new[u] = IF u > t THEN sum[u] + Addend(n) ELSE sum[u]
        /\ new[u + 1] = IF u + 1 > t THEN sum[u + 1] + Addend(n) ELSE sum[u + 1]
    BY <2>0
  <2>2. sum[u] \in Int /\ sum[u + 1] \in Int /\ sum[u + 1] = sum[u] + Net(Committed(u))
    BY <2>0 DEF LedgerOf
  <2>3. CASE u = t
    BY <1>0, <2>1, <2>2, <2>3, SMTT(30)
  <2>4. CASE u < t
    <3>1. new[u] = sum[u] /\ new[u + 1] = sum[u + 1]
      BY <1>0, <2>1, <2>4, SMT
    <3> QED BY <2>2, <2>4, <3>1, <1>0, SMT
  <2>5. CASE u > t
    <3>1. new[u] = sum[u] + Addend(n) /\ new[u + 1] = sum[u + 1] + Addend(n)
      BY <1>0, <2>1, <2>5, SMT
    <3>2. Committed(u)' = Committed(u)
      BY <2>5, <1>0, SMT
    <3>3. Committed(u) \in Int
      <4>1. calls[u] \in Int
        BY DEF TypeOK
      <4> QED BY <4>1 DEF Committed
    <3>4. Net(Committed(u)) \in Int
      BY <3>3, SMT DEF Net
    <3>5. Net(Committed(u)') = Net(Committed(u))
      BY <3>2
    <3> HIDE DEF new
    <3>6. new[u + 1] = new[u] + Net(Committed(u))
      BY <1>0, <2>2, <3>1, <3>4, SMTT(30)
    <3> QED BY <3>5, <3>6, Zenon
  <2>6. u = t \/ u < t \/ u > t
    BY <1>0, SMT
  <2> QED BY <2>3, <2>4, <2>5, <2>6
<1>5. new[NumThreads] = counter' + 2 * IntHalf * (wraps + w)
  <2>1. new[NumThreads] = sum[NumThreads] + Addend(n)
    BY <1>0, SMT
  <2>2. sum[NumThreads] = counter + 2 * IntHalf * wraps /\ counter \in Int
    BY DEF LedgerOf, TypeOK
  <2>3. 2 * IntHalf \in Int /\ wraps \in Int /\ w \in Int
    BY SMT
  <2>4. 2 * IntHalf * (wraps + w) = 2 * IntHalf * wraps + 2 * IntHalf * w
    BY <2>3, Distributive
  <2> DEFINE before == 2 * IntHalf * wraps
             step   == 2 * IntHalf * w
  <2>5. before \in Int /\ step \in Int /\ Addend(n) \in Int
    BY <1>0, <2>3, SMT
  <2>6. counter' = counter + Addend(n) - step /\ sum[NumThreads] = counter + before
    BY <2>2
  <2>7. 2 * IntHalf * (wraps + w) = before + step
    BY <2>4
  <2>8. (counter + before) + Addend(n) = (counter + Addend(n) - step) + (before + step)
    BY <2>2, <2>5, Shift
  <2> HIDE DEF before, step, new
  <2> QED BY <2>1, <2>6, <2>7, <2>8
<1>6. sync' # "c" => wraps + w = 0
  BY DEF LedgerOf
<1>7. main' = "join" => new[t_main'] = 0
  <2>1. main = "join" => sum[t_main] = 0
    BY DEF LedgerOf
  <2>2. t_main \in 0..NumThreads
    BY DEF TypeOK
  <2> QED BY <1>0, <2>1, <2>2, SMT
<1> HIDE DEF new
<1>8. LedgerOf(new, wraps + w)'
  BY <1>3, <1>4, <1>5, <1>6, <1>7 DEF LedgerOf
<1> QED BY <1>1, <1>2, <1>8 DEF Ledger

LEMMA LedgerStep == IInv /\ [Next]_vars => Ledger'
<1> SUFFICES ASSUME IInv, [Next]_vars, sync # "none" PROVE Ledger'
  BY DEF Ledger, Next, Main, Thread, Lock, Load, Store, Unlock, CasLoad, Cas,
         PthreadError, CreateThread, AllCreated, JoinThread, Report,
         Terminated, vars
<1> USE DEF IInv, TypeOK, ControlInv, Goto, At, mainVars, locks
<1>0. PICK sum \in [0..NumThreads -> Int], wraps \in Int : LedgerOf(sum, wraps)
  BY DEF Ledger
<1>1. ASSUME sync' = sync, counter' = counter, main' = main, t_main' = t_main,
             \A t \in Threads : Committed(t)' = Committed(t)
      PROVE  Ledger'
  BY <1>0, <1>1, LedgerKept DEF Ledger
<1>2. ASSUME NEW t \in Threads, Lock(t) \/ Load(t) \/ CasLoad(t) PROVE Ledger'
  BY <1>1, <1>2 DEF Lock, Load, CasLoad, Committed
<1>3. ASSUME NEW t \in Threads, pc[t] \notin {"unborn", "returned"}
      PROVE  main = "join" => t_main <= t
  BY <1>3, SMT DEF MainInv, Threads
<1>4. ASSUME NEW t \in Threads, Store(t) PROVE Ledger'
  <2>0. calls[t] \in 0..(2 * NumIterations - 1)
    BY <1>4, CallInProgress DEF Store
  <2>1. sync \in {"m", "s"}
    BY <1>4, AddAssumption DEF Store
  <2>2. counter' = counter + Addend(calls[t])
    BY <1>4, <2>1 DEF Store, LockInv
  <2>3. counter' = counter + Addend(calls[t]) - 2 * IntHalf * 0
    <3>1. counter \in Int /\ Addend(calls[t]) \in Int
      BY SMT DEF Addend
    <3> QED BY <2>2, <3>1, SMT
  <2>4. /\ Committed(t) = calls[t] /\ Committed(t)' = calls[t] + 1
        /\ \A u \in Threads : u # t => Committed(u)' = Committed(u)
        /\ UNCHANGED <<sync, main, t_main>>
    BY <1>4, <2>1 DEF Store, Committed
  <2>5. main = "join" => t_main <= t
    BY <1>3, <1>4 DEF Store
  <2> QED BY <1>0, <2>0, <2>1, <2>3, <2>4, <2>5, LedgerCommit
<1>5. ASSUME NEW t \in Threads, Unlock(t) PROVE Ledger'
  <2>0. calls[t] \in 0..(2 * NumIterations - 1)
    BY <1>5, CallInProgress DEF Unlock
  <2>1. calls[t] + 1 \in 0..(2 * NumIterations)
    BY <2>0, SMT
  <2>2. Entry(calls[t] + 1) # "unlock"
    BY <2>1, EntryLabel
  <2> QED BY <1>1, <1>5, <2>0, <2>2 DEF Unlock, Return, Committed
<1>6. ASSUME NEW t \in Threads, Cas(t) PROVE Ledger'
  <2>0. calls[t] \in 0..(2 * NumIterations - 1)
    BY <1>6, CallInProgress DEF Cas
  <2>1. calls[t] + 1 \in 0..(2 * NumIterations)
    BY <2>0, SMT
  <2>2. Entry(calls[t] + 1) # "unlock"
    BY <2>1, EntryLabel
  <2>3. CASE counter # reg[t]
    BY <1>1, <1>6, <2>3 DEF Cas, Committed
  <2>4. CASE counter = reg[t]
    <3>1. counter \in IntRange /\ sync = "c"
      BY <1>6 DEF Cas, CasInv
    <3>2. PICK w \in {-1, 0, 1} :
            ToInt(counter + Addend(calls[t])) = counter + Addend(calls[t]) - 2 * IntHalf * w
      BY <2>0, <3>1, NetStep, ToIntSum
    <3>3. counter' = counter + Addend(calls[t]) - 2 * IntHalf * w
      BY <1>6, <2>4, <3>2 DEF Cas
    <3>4. /\ Committed(t) = calls[t] /\ Committed(t)' = calls[t] + 1
          /\ \A u \in Threads : u # t => Committed(u)' = Committed(u)
          /\ UNCHANGED <<sync, main, t_main>>
      BY <1>6, <2>0, <2>2, <2>4 DEF Cas, Return, Committed
    <3>5. main = "join" => t_main <= t
      BY <1>3, <1>6 DEF Cas
    <3> QED BY <1>0, <2>0, <3>1, <3>3, <3>4, <3>5, LedgerCommit
  <2> QED BY <2>3, <2>4
<1>7. CASE Main
  <2>1. CASE PthreadError \/ Report
    BY <1>1, <2>1 DEF PthreadError, Report, Committed
  <2>2. CASE CreateThread
    <3>1. 0 \in 0..(2 * NumIterations)
      BY SMT
    <3>2. Entry(0) # "unlock"
      BY <3>1, EntryLabel
    <3>3. t_main \in Threads /\ pc[t_main] = "unborn" /\ main = "create"
      BY <2>2, SMT DEF CreateThread, Threads, MainInv
    <3>4. \A t \in Threads : Committed(t)' = Committed(t)
      BY <2>2, <3>2, <3>3 DEF CreateThread, Committed
    <3>5. LedgerOf(sum, wraps)'
      BY <1>0, <2>2, <3>3, <3>4 DEF CreateThread, LedgerOf
    <3> QED BY <1>0, <3>5 DEF Ledger
  <2>3. CASE AllCreated
    <3>1. \A t \in Threads : Committed(t)' = Committed(t)
      BY <2>3 DEF AllCreated, Committed
    <3>2. LedgerOf(sum, wraps)'
      BY <1>0, <2>3, <3>1 DEF AllCreated, LedgerOf
    <3> QED BY <1>0, <3>2 DEF Ledger
  <2>4. CASE JoinThread
    <3>1. \A t \in Threads : Committed(t)' = Committed(t)
      BY <2>4 DEF JoinThread, Committed
    <3>2. t_main \in Threads /\ Committed(t_main) = 2 * NumIterations
      BY <2>4, SMT DEF JoinThread, Threads, Committed
    <3>3. sum[t_main + 1] = 0
      BY <1>0, <2>4, <3>2, NetEnds, SMT DEF JoinThread, LedgerOf
    <3>4. LedgerOf(sum, wraps)'
      BY <1>0, <2>4, <3>1, <3>3 DEF JoinThread, LedgerOf
    <3> QED BY <1>0, <3>4 DEF Ledger
  <2> QED BY <1>7, <2>1, <2>2, <2>3, <2>4 DEF Main
<1>8. CASE UNCHANGED vars
  BY <1>1, <1>8 DEF vars, Committed
<1> QED BY <1>2, <1>4, <1>5, <1>6, <1>7, <1>8 DEF Next, Thread, Terminated

-----------------------------------------------------------------------------

LEMMA Inductive == Spec => []IInv
<1>1. IInv /\ [Next]_vars => IInv'
  BY TypeStep, ControlStep, MainStep, LockStep, CasStep, LedgerStep DEF IInv
<1> QED BY InitIInv, <1>1, PTL DEF Spec

(* Type correctness: every variable keeps the type TypeOK gives it.        *)
THEOREM TypeCorrect == Spec => []TypeOK
<1>1. IInv => TypeOK
  BY DEF IInv
<1> QED BY Inductive, <1>1, PTL

(* The mutex and the spin lock of add() admit one thread at a time.        *)
THEOREM Mutex == Spec => []MutualExclusion
<1>1. IInv => MutualExclusion
  <2> SUFFICES ASSUME IInv PROVE MutualExclusion
    OBVIOUS
  <2>1. CASE sync = "m"
    <3>1. m_lock # NoThread <=> \E t \in Threads : Critical(t)
      <4>1. \A t \in Threads : m_lock = t <=> Critical(t)
        BY <2>1 DEF IInv, LockInv
      <4>2. NoThread \notin Threads
        BY SMT DEF NoThread, Threads
      <4>3. m_lock \in Threads \cup {NoThread}
        BY DEF IInv, TypeOK
      <4> QED BY <4>1, <4>2, <4>3
    <3> QED BY <2>1, <3>1 DEF IInv, LockInv, TypeOK, MutualExclusion
  <2>2. CASE sync = "s"
    BY <2>2 DEF IInv, LockInv, TypeOK, MutualExclusion
  <2> QED BY <2>1, <2>2 DEF MutualExclusion
<1> QED BY Inductive, <1>1, PTL

(* The counter main() prints under any --sync setting add() knows is 0,    *)
(* for every number of threads and iterations, and although the swap loop  *)
(* computes in ints that wrap around.                                      *)
THEOREM CounterZero == Spec => []FinalCounterZero
<1>1. IInv => FinalCounterZero
  <2> SUFFICES ASSUME IInv, outcome = "printed", sync # "none" PROVE counter = 0
    BY DEF FinalCounterZero
  <2>1. PICK sum \in [0..NumThreads -> Int], wraps \in Int : LedgerOf(sum, wraps)
    BY DEF IInv, Ledger
  <2>2. 0 = counter + 2 * IntHalf * wraps
    BY <2>1 DEF IInv, MainInv, LedgerOf
  <2>3. CASE sync = "c"
    BY <2>2, <2>3, NoWrap DEF IInv, CasInv
  <2>4. CASE sync # "c"
    BY <2>1, <2>2, <2>4, SMT DEF LedgerOf, IInv, TypeOK
  <2> QED BY <2>3, <2>4
<1> QED BY Inductive, <1>1, PTL

-----------------------------------------------------------------------------

(* The calls that have returned are finitely many, and the return of one   *)
(* more call of thread t adds that one, if it is among the turns.          *)
LEMMA ReturnedIsFinite ==
  ASSUME NEW turns, IsFiniteSet(turns)
  PROVE  IsFiniteSet(Returned(turns)) /\ Cardinality(Returned(turns)) \in Nat
<1>1. IsFiniteSet(Threads)
  BY FS_Interval, SMT DEF Threads
<1>2. IsFiniteSet(Threads \X turns)
  BY <1>1, FS_Product
<1>3. Returned(turns) \in SUBSET (Threads \X turns)
  BY DEF Returned
<1> QED BY <1>2, <1>3, FS_Subset, FS_CardinalityType

(* The turns of add_ntimes(), up and down.                                 *)
LEMMA TurnsAreFinite ==
  /\ IsFiniteSet(0..(NumIterations - 1)) /\ IsFiniteSet(NumIterations..(2 * NumIterations - 1))
  /\ 0..(NumIterations - 1) \subseteq Int
  /\ NumIterations..(2 * NumIterations - 1) \subseteq Int
<1>1. 2 * NumIterations - 1 \in Int
  BY SMT
<1> QED BY <1>1, FS_Interval

LEMMA OneMore ==
  ASSUME TypeOK, NEW t \in Threads, NEW turns, IsFiniteSet(turns), turns \subseteq Int,
         calls' = [calls EXCEPT ![t] = @ + 1]
  PROVE  Cardinality(Returned(turns)') =
           Cardinality(Returned(turns)) + (IF calls[t] \in turns THEN 1 ELSE 0)
<1>1. calls \in [Threads -> Nat]
  BY SMT DEF TypeOK
<1>2. \A u \in Threads : calls'[u] = IF u = t THEN calls[t] + 1 ELSE calls[u]
  BY <1>1
<1>3. <<t, calls[t]>> \notin Returned(turns)
  BY <1>1 DEF Returned
<1>4. CASE calls[t] \in turns
  <2>1. Returned(turns)' = Returned(turns) \cup {<<t, calls[t]>>}
    <3>1. ASSUME NEW u \in Threads, NEW k \in turns
          PROVE  k < calls'[u] <=> k < calls[u] \/ (u = t /\ k = calls[t])
      BY <1>1, <1>2, SMT
    <3>2. Returned(turns)' = {c \in Threads \X turns : c[2] < calls'[c[1]]}
      BY DEF Returned
    <3>3. ASSUME NEW c \in Threads \X turns
          PROVE  c[2] < calls'[c[1]] <=> c[2] < calls[c[1]] \/ c = <<t, calls[t]>>
      <4>1. c = <<c[1], c[2]>> /\ c[1] \in Threads /\ c[2] \in turns
        OBVIOUS
      <4>2. c = <<t, calls[t]>> <=> c[1] = t /\ c[2] = calls[t]
        BY <4>1
      <4> QED BY <3>1, <4>1, <4>2
    <3>4. <<t, calls[t]>> \in Threads \X turns
      BY <1>4
    <3> QED BY <3>2, <3>3, <3>4 DEF Returned
  <2> QED BY <1>3, <1>4, <2>1, ReturnedIsFinite, FS_AddElement
<1>5. CASE calls[t] \notin turns
  <2>1. Returned(turns)' = Returned(turns)
    <3>1. ASSUME NEW u \in Threads, NEW k \in turns
          PROVE  k < calls'[u] <=> k < calls[u]
      BY <1>1, <1>2, <1>5, SMT
    <3> QED BY <3>1 DEF Returned
  <2>2. Cardinality(Returned(turns)) \in Nat
    BY ReturnedIsFinite
  <2> QED BY <1>5, <2>1, <2>2
<1> QED BY <1>4, <1>5

LEMMA RaceTypes == Increments \in Nat /\ Decrements \in Nat
  BY TurnsAreFinite, ReturnedIsFinite DEF Increments, Decrements

LEMMA RaceCounts ==
  ASSUME TypeOK, NEW t \in Threads, calls' = [calls EXCEPT ![t] = @ + 1],
         calls[t] < 2 * NumIterations
  PROVE  /\ Increments' = Increments + (IF calls[t] < NumIterations THEN 1 ELSE 0)
         /\ Decrements' = Decrements + (IF calls[t] < NumIterations THEN 0 ELSE 1)
<1>1. calls[t] \in Nat
  BY SMT DEF TypeOK
<1>2. calls[t] \in 0..(NumIterations - 1) <=> calls[t] < NumIterations
  BY <1>1
<1>3. calls[t] \in NumIterations..(2 * NumIterations - 1) <=> ~(calls[t] < NumIterations)
  BY <1>1, SMT
<1>4. ASSUME NEW turns, IsFiniteSet(turns), turns \subseteq Int
      PROVE  Cardinality(Returned(turns)') =
               Cardinality(Returned(turns)) + (IF calls[t] \in turns THEN 1 ELSE 0)
  BY <1>4, OneMore
<1> DEFINE up == 0..(NumIterations - 1)
           down == NumIterations..(2 * NumIterations - 1)
<1>5. /\ IsFiniteSet(up) /\ up \subseteq Int /\ IsFiniteSet(down) /\ down \subseteq Int
      /\ calls[t] \in up <=> calls[t] < NumIterations
      /\ calls[t] \in down <=> ~(calls[t] < NumIterations)
  BY <1>2, <1>3, TurnsAreFinite
<1>6. /\ Increments = Cardinality(Returned(up)) /\ Increments' = Cardinality(Returned(up)')
      /\ Decrements = Cardinality(Returned(down)) /\ Decrements' = Cardinality(Returned(down)')
  BY DEF Increments, Decrements
<1> HIDE DEF up, down
<1>7. Increments' = Increments + (IF calls[t] \in up THEN 1 ELSE 0)
  BY <1>4, <1>5, <1>6
<1>8. Decrements' = Decrements + (IF calls[t] \in down THEN 1 ELSE 0)
  BY <1>4, <1>5, <1>6
<1> QED BY <1>5, <1>7, <1>8

(* A stale sum was within the bounds when it was loaded, and the bounds    *)
(* only move apart.                                                        *)
LEMMA RaceStep == IInv /\ RaceInv /\ [Next]_vars => RaceInv'
<1> SUFFICES ASSUME IInv, RaceInv, [Next]_vars, sync' = "none" PROVE RaceInv'
  BY DEF RaceInv
<1>1. TypeOK /\ ControlInv
  BY DEF IInv
<1>2. sync = "none"
  BY DEF Next, Main, PthreadError, CreateThread, AllCreated, JoinThread, Report, Thread,
         Lock, Load, Store, Unlock, CasLoad, Cas, Terminated, vars
<1>3. Increments \in Nat /\ Decrements \in Nat /\ counter \in Int /\ reg \in [Threads -> Int]
  BY <1>1, RaceTypes DEF TypeOK
<1>4. ASSUME calls' = calls, counter' = counter,
             \A t \in Threads : pc'[t] = "store" => pc[t] = "store" /\ reg'[t] = reg[t]
      PROVE  RaceInv'
  <2>1. Increments' = Increments /\ Decrements' = Decrements
    BY <1>4 DEF Increments, Decrements, Returned
  <2> QED BY <1>2, <1>4, <2>1 DEF RaceInv, RaceBound
<1>5. ASSUME NEW t \in Threads, Load(t) PROVE RaceInv'
  <2>1. Increments' = Increments /\ Decrements' = Decrements
    BY <1>5 DEF Load, Increments, Decrements, Returned
  <2>2. counter' = counter /\ calls' = calls /\ calls[t] \in Int
    BY <1>1, <1>5, SMT DEF Load, TypeOK
  <2>3. pc'[t] = "store" /\ reg'[t] = counter + Addend(calls[t])
    BY <1>1, <1>5 DEF Load, Goto, TypeOK
  <2>4. \A u \in Threads \ {t} : pc'[u] = pc[u] /\ reg'[u] = reg[u]
    BY <1>1, <1>5 DEF Load, Goto, TypeOK
  <2>5. -Decrements <= counter /\ counter <= Increments
    BY <1>2 DEF RaceInv, RaceBound
  <2>6. IF calls[t] < NumIterations
        THEN -Decrements <= reg'[t] /\ reg'[t] <= Increments + 1
        ELSE -Decrements - 1 <= reg'[t] /\ reg'[t] <= Increments
    BY <1>3, <2>2, <2>3, <2>5 DEF Addend
  <2> QED BY <1>2, <2>1, <2>2, <2>4, <2>5, <2>6 DEF RaceInv, RaceBound
<1>6. ASSUME NEW t \in Threads, Store(t) PROVE RaceInv'
  <2>1. /\ pc[t] = "store" /\ counter' = reg[t] /\ Return(t) /\ reg' = reg
        /\ calls' = [calls EXCEPT ![t] = @ + 1]
    BY <1>2, <1>6 DEF Store, At, Return
  <2>2. /\ calls[t] \in 0..(2 * NumIterations - 1)
        /\ calls[t] < 2 * NumIterations /\ calls[t] + 1 \in 0..(2 * NumIterations)
    <3>1. calls[t] \in 0..(2 * NumIterations - 1)
      BY <2>1, CallInProgress
    <3> QED BY <3>1, SMT
  <2>3. pc'[t] # "store"
    BY <1>1, <2>1, <2>2, EntryLabel DEF Return, Goto, TypeOK
  <2>4. \A u \in Threads \ {t} : pc'[u] = pc[u] /\ calls'[u] = calls[u]
    BY <1>1, <2>1 DEF Return, Goto, TypeOK
  <2>5. /\ Increments' = Increments + (IF calls[t] < NumIterations THEN 1 ELSE 0)
        /\ Decrements' = Decrements + (IF calls[t] < NumIterations THEN 0 ELSE 1)
    BY <1>1, <2>1, <2>2, RaceCounts
  <2>6. /\ Increments <= Increments' /\ Decrements <= Decrements'
        /\ Increments' \in Nat /\ Decrements' \in Nat
    BY <1>3, <2>5
  <2>7. IF calls[t] < NumIterations
        THEN -Decrements <= reg[t] /\ reg[t] <= Increments + 1
        ELSE -Decrements - 1 <= reg[t] /\ reg[t] <= Increments
    BY <1>2, <2>1 DEF RaceInv
  <2>8. -Decrements' <= counter' /\ counter' <= Increments'
    BY <1>3, <2>1, <2>5, <2>7
  <2>9. ASSUME NEW u \in Threads, pc'[u] = "store"
        PROVE  IF calls'[u] < NumIterations
               THEN -Decrements' <= reg'[u] /\ reg'[u] <= Increments' + 1
               ELSE -Decrements' - 1 <= reg'[u] /\ reg'[u] <= Increments'
    <3>1. pc[u] = "store" /\ calls'[u] = calls[u] /\ reg'[u] = reg[u] /\ reg[u] \in Int
      BY <1>3, <2>1, <2>3, <2>4, <2>9
    <3>2. IF calls[u] < NumIterations
          THEN -Decrements <= reg[u] /\ reg[u] <= Increments + 1
          ELSE -Decrements - 1 <= reg[u] /\ reg[u] <= Increments
      BY <1>2, <3>1 DEF RaceInv
    <3> QED BY <1>3, <2>6, <3>1, <3>2
  <2> QED BY <2>8, <2>9 DEF RaceInv, RaceBound
<1>7. ASSUME NEW t \in Threads, Lock(t) \/ Unlock(t) \/ CasLoad(t) \/ Cas(t) PROVE FALSE
  BY <1>1, <1>2, <1>7 DEF Lock, Unlock, CasLoad, Cas, At, ControlInv
<1>8. CASE Main
  <2>1. CASE CreateThread
    <3>1. Entry(0) # "store" /\ t_main \in Threads
      BY <1>1, <2>1, EntryLabel, SMT DEF CreateThread, TypeOK, Threads
    <3> QED BY <1>1, <1>4, <2>1, <3>1 DEF CreateThread, Goto, TypeOK
  <2>2. CASE PthreadError \/ AllCreated \/ JoinThread \/ Report
    BY <1>4, <2>2 DEF PthreadError, AllCreated, JoinThread, Report
  <2> QED BY <1>8, <2>1, <2>2 DEF Main
<1>9. CASE UNCHANGED vars
  BY <1>4, <1>9 DEF vars
<1> QED BY <1>5, <1>6, <1>7, <1>8, <1>9 DEF Next, Thread, Terminated

(* However the threads race, they lose updates but never make any up: the  *)
(* counter stays between minus the decrements and the increments made.     *)
THEOREM RaceBounded == Spec => []RaceBound
<1>1. Init => RaceInv
  <2> SUFFICES ASSUME Init PROVE RaceInv
    OBVIOUS
  <2>1. counter = 0 /\ \A t \in Threads : pc[t] # "store"
    BY DEF Init
  <2> QED BY <2>1, RaceTypes DEF RaceInv, RaceBound
<1>2. IInv /\ RaceInv => RaceBound
  BY DEF RaceInv, RaceBound
<1> QED BY <1>1, <1>2, RaceStep, Inductive, PTL DEF Spec

-----------------------------------------------------------------------------

LEMMA AtomicInit == Init => Atomic!Init
  BY DEF Init, Atomic!Init, Committed

(* A step of thread t that commits call n is an atomic Add.                *)
LEMMA AtomicCommit ==
  ASSUME TypeOK,
         NEW t \in Threads, NEW n \in 0..(2 * NumIterations - 1),
         Committed(t) = n, Committed(t)' = n + 1,
         \A u \in Threads : u # t => Committed(u)' = Committed(u),
         NEW w \in {-1, 0, 1},
         counter' \in Int, UNCHANGED sync,
         sync # "none" => counter' = counter + Addend(n) - 2 * IntHalf * w
  PROVE  Atomic!Next
<1> DEFINE made == [u \in Threads |-> Committed(u)]
           sum  == counter + (IF n < NumIterations THEN 1 ELSE -1)
<1>1. made[t] < 2 * NumIterations
  BY SMT
<1>2. made' = [made EXCEPT ![t] = @ + 1]
  OBVIOUS
<1>3. ASSUME sync # "none"
      PROVE  counter' \in {sum - 2 * IntHalf, sum, sum + 2 * IntHalf}
  <2>1. sum \in Int /\ sum = counter + Addend(n) /\ counter' = sum - 2 * IntHalf * w
    BY <1>3 DEF TypeOK, Addend
  <2> HIDE DEF sum
  <2>2. CASE w = 0
    BY <2>1, <2>2, SMT
  <2>3. CASE w = 1
    BY <2>1, <2>3, SMT
  <2>4. CASE w = -1
    BY <2>1, <2>4, SMT
  <2> QED BY <2>2, <2>3, <2>4
<1>4. made[t] = n
  OBVIOUS
<1> QED BY <1>1, <1>2, <1>3, <1>4 DEF Atomic!Next, Atomic!Add

LEMMA AtomicStep ==
  IInv /\ [Next]_vars => [Atomic!Next]_(Atomic!vars)
<1> SUFFICES ASSUME IInv, [Next]_vars
             PROVE  [Atomic!Next]_(Atomic!vars)
  OBVIOUS
<1> USE DEF IInv, TypeOK, ControlInv, Goto, At, mainVars, locks
<1>1. ASSUME UNCHANGED <<sync, counter>>, \A t \in Threads : Committed(t)' = Committed(t)
      PROVE  UNCHANGED Atomic!vars
  BY <1>1 DEF Atomic!vars
<1>2. ASSUME NEW t \in Threads, Lock(t) \/ Load(t) \/ CasLoad(t)
      PROVE  UNCHANGED Atomic!vars
  BY <1>1, <1>2 DEF Lock, Load, CasLoad, Committed
<1>3. ASSUME NEW t \in Threads, Store(t) PROVE [Atomic!Next]_(Atomic!vars)
  <2>0. calls[t] \in 0..(2 * NumIterations - 1)
    BY <1>3, CallInProgress DEF Store
  <2>1. calls[t] + 1 \in 0..(2 * NumIterations)
    BY <2>0, SMT
  <2>2. Entry(calls[t] + 1) # "unlock"
    BY <2>1, EntryLabel
  <2>3. counter' \in Int /\ UNCHANGED sync
    BY <1>3 DEF Store
  <2>4. ASSUME sync # "none"
        PROVE  counter' = counter + Addend(calls[t]) - 2 * IntHalf * 0
    <3>1. counter \in Int /\ Addend(calls[t]) \in Int
      BY SMT DEF Addend
    <3>2. sync \in {"m", "s"}
      BY <1>3, <2>4, AddAssumption DEF Store
    <3>3. counter' = counter + Addend(calls[t])
      BY <1>3, <3>2 DEF Store, LockInv
    <3> QED BY <3>1, <3>3, SMT
  <2>5. /\ Committed(t) = calls[t] /\ Committed(t)' = calls[t] + 1
        /\ \A u \in Threads : u # t => Committed(u)' = Committed(u)
    BY <1>3, <2>0, <2>2 DEF Store, Return, Committed
  <2> QED BY <2>0, <2>3, <2>4, <2>5, AtomicCommit
<1>4. ASSUME NEW t \in Threads, Unlock(t) PROVE UNCHANGED Atomic!vars
  <2>0. calls[t] \in 0..(2 * NumIterations - 1)
    BY <1>4, CallInProgress DEF Unlock
  <2>1. calls[t] + 1 \in 0..(2 * NumIterations)
    BY <2>0, SMT
  <2>2. Entry(calls[t] + 1) # "unlock"
    BY <2>1, EntryLabel
  <2> QED BY <1>1, <1>4, <2>0, <2>2 DEF Unlock, Return, Committed
<1>5. ASSUME NEW t \in Threads, Cas(t) PROVE [Atomic!Next]_(Atomic!vars)
  <2>0. calls[t] \in 0..(2 * NumIterations - 1)
    BY <1>5, CallInProgress DEF Cas
  <2>1. calls[t] + 1 \in 0..(2 * NumIterations)
    BY <2>0, SMT
  <2>2. Entry(calls[t] + 1) # "unlock"
    BY <2>1, EntryLabel
  <2>3. CASE counter # reg[t]
    BY <1>1, <1>5, <2>3 DEF Cas, Committed
  <2>4. CASE counter = reg[t]
    <3>1. counter \in IntRange
      BY <1>5 DEF Cas, CasInv
    <3>2. PICK w \in {-1, 0, 1} :
            ToInt(counter + Addend(calls[t])) = counter + Addend(calls[t]) - 2 * IntHalf * w
      BY <2>0, <3>1, NetStep, ToIntSum
    <3>3. counter' = counter + Addend(calls[t]) - 2 * IntHalf * w
      BY <1>5, <2>4, <3>2 DEF Cas
    <3>4. /\ Committed(t) = calls[t] /\ Committed(t)' = calls[t] + 1
          /\ \A u \in Threads : u # t => Committed(u)' = Committed(u)
      BY <1>5, <2>0, <2>2, <2>4 DEF Cas, Return, Committed
    <3>5. counter' \in Int /\ UNCHANGED sync
      <4>1. reg[t] + Addend(calls[t]) \in Int
        BY SMT DEF Addend
      <4>2. ToInt(reg[t] + Addend(calls[t])) \in Int
        BY <4>1, ToIntType, SMT DEF IntRange
      <4> QED BY <1>5, <2>4, <4>2 DEF Cas
    <3> QED BY <2>0, <3>3, <3>4, <3>5, AtomicCommit
  <2> QED BY <2>3, <2>4
<1>6. CASE Main
  <2>1. CASE PthreadError \/ AllCreated \/ JoinThread \/ Report
    BY <1>1, <2>1 DEF PthreadError, AllCreated, JoinThread, Report, Committed
  <2>2. CASE CreateThread
    <3>1. 0 \in 0..(2 * NumIterations)
      BY SMT
    <3>2. Entry(0) # "unlock"
      BY <3>1, EntryLabel
    <3>3. t_main \in Threads /\ pc[t_main] = "unborn"
      BY <2>2, SMT DEF CreateThread, Threads, MainInv
    <3> QED BY <1>1, <2>2, <3>2, <3>3 DEF CreateThread, Committed
  <2> QED BY <1>6, <2>1, <2>2 DEF Main
<1>7. CASE UNCHANGED vars
  BY <1>1, <1>7 DEF vars, Committed
<1> QED BY <1>2, <1>3, <1>4, <1>5, <1>6, <1>7 DEF Next, Thread, Terminated

(* The program implements the atomic counter: each step is one add() or    *)
(* changes nothing an observer of the counter sees.                        *)
THEOREM Refinement == Spec => AddIsAtomic
<1> QED BY Inductive, AtomicInit, AtomicStep, PTL
        DEF Spec, AddIsAtomic, Atomic!Spec

=============================================================================
