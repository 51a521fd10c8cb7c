------------------------- MODULE PartitionedListProofs -------------------------
(***************************************************************************)
(* Proofs about PartitionedList for every number of threads, iterations    *)
(* and sublists and every hash of the keys: the inductive invariant IInv,  *)
(* and from it that the self-checks of the program never fail.             *)
(***************************************************************************)
EXTENDS PartitionedListInv, FiniteSetTheorems, TLAPS

USE ListAssumption

-----------------------------------------------------------------------------
(* Counting elements.                                                      *)

LEMMA ElementsFinite ==
  /\ IsFiniteSet(Elements)
  /\ IsFiniteSet(Turns) /\ Cardinality(Turns) = NumIterations
<1>1. IsFiniteSet(Turns) /\ Cardinality(Turns) = NumIterations
  BY FS_Interval, SMT DEF Turns
<1>2. IsFiniteSet(Threads)
  BY FS_Interval, SMT DEF Threads
<1> QED BY <1>1, <1>2, FS_Product DEF Elements

LEMMA SubsetCounts ==
  ASSUME NEW S \in SUBSET Elements, NEW T \in SUBSET S
  PROVE  /\ Cardinality(S) \in Nat /\ Cardinality(T) \in Nat
         /\ Cardinality(T) <= Cardinality(S)
<1>1. IsFiniteSet(S)
  BY ElementsFinite, FS_Subset
<1>2. IsFiniteSet(T) /\ Cardinality(T) <= Cardinality(S)
  BY <1>1, FS_Subset
<1> QED BY <1>1, <1>2, FS_CardinalityType

LEMMA DisjointCount ==
  ASSUME NEW S \in SUBSET Elements, NEW T \in SUBSET Elements, S \cap T = {}
  PROVE  Cardinality(S \cup T) = Cardinality(S) + Cardinality(T)
<1>1. IsFiniteSet(S) /\ IsFiniteSet(T)
  BY ElementsFinite, FS_Subset
<1>2. Cardinality(S \cap T) = 0 /\ Cardinality(S) \in Nat /\ Cardinality(T) \in Nat
  BY <1>1, FS_EmptySet, FS_CardinalityType
<1>3. Cardinality(S \cup T) = Cardinality(S) + Cardinality(T) - Cardinality(S \cap T)
  BY <1>1, FS_Union
<1> QED BY <1>2, <1>3, SMT

(* Every thread has NumIterations elements.                                *)
LEMMA OwnCount ==
  ASSUME NEW t \in Threads
  PROVE  Cardinality({e \in Elements : e[1] = t}) = NumIterations
<1> DEFINE own == {e \in Elements : e[1] = t}
           f   == [j \in Turns |-> <<t, j>>]
<1>1. \A e \in own : e[2] \in Turns /\ e = <<t, e[2]>>
  BY DEF Elements
<1>2. \A j \in Turns : <<t, j>> \in own
  BY DEF Elements
<1>3. f \in Bijection(Turns, own)
  <2>1. f \in Injection(Turns, own)
    BY <1>2 DEF Injection, IsInjective
  <2>2. f \in Surjection(Turns, own)
    BY <1>1, <1>2 DEF Surjection
  <2> QED BY <2>1, <2>2 DEF Bijection
<1>4. ExistsBijection(Turns, own)
  BY <1>3 DEF ExistsBijection
<1> HIDE DEF own
<1>5. Cardinality(own) = Cardinality(Turns)
  BY <1>4, ElementsFinite, FS_Bijection
<1> QED BY <1>5, ElementsFinite DEF own

-----------------------------------------------------------------------------
(* Facts about a thread in the middle of a turn.                           *)

LEMMA InTurn ==
  ASSUME TypeOK, ControlInv, NEW t \in Threads, pc[t] \in {"lock", "op", "unlock"}
  PROVE  /\ ListIndex(t) \in Lists
         /\ phase[t] # "count" => Element(t) \in Elements
         /\ phase[t] # "count" => hash[Element(t)] = ListIndex(t)
         /\ phase[t] = "count" => ListIndex(t) = turn[t]
<1>1. num_lists \in Nat /\ num_lists > 0 /\ turn[t] \in Nat /\ turn[t] < LoopBound(t)
  BY DEF TypeOK, ControlInv
<1>2. CASE phase[t] = "count"
  BY <1>1, <1>2, SMT DEF ListIndex, LoopBound, Lists
<1>3. CASE phase[t] # "count"
  <2>1. turn[t] \in Turns
    BY <1>1, <1>3, SMT DEF LoopBound, Turns
  <2>2. Element(t) \in Elements
    BY <2>1 DEF Element, Elements
  <2>3. hash[Element(t)] \in Lists
    BY <1>1, <2>2 DEF TypeOK
  <2> QED BY <1>3, <2>2, <2>3 DEF ListIndex
<1> QED BY <1>2, <1>3

LEMMA InitIInv == Init => IInv
<1> SUFFICES ASSUME Init PROVE IInv
  OBVIOUS
<1>0. num_lists \in Nat
  BY DEF Init
<1>1. TypeOK
  BY <1>0, SMT DEF Init, TypeOK, Labels, LoopBound, NoThread
<1>2. ControlInv /\ MainInv /\ NoFalseAlarm
  BY DEF Init, ControlInv, MainInv, NoFalseAlarm, Threads
<1>3. LockInv
  <2>1. NoThread \notin Threads
    BY SMT DEF NoThread, Threads
  <2> QED BY <2>1 DEF Init, LockInv, Inside
<1>4. ContentsInv
  <2>1. \A e \in Elements : ~Holds(e[1], e[2])
    BY SMT DEF Init, Holds, Done, Elements, Turns
  <2> QED BY <2>1 DEF Init, ContentsInv
<1>5. SizeInv
  <2>1. Cardinality(Elements) \in Nat
    BY ElementsFinite, FS_CardinalityType
  <2> QED BY <2>1 DEF Init, SizeInv
<1> QED BY <1>1, <1>2, <1>3, <1>4, <1>5 DEF IInv

LEMMA TypeStep == IInv /\ [Next]_vars => TypeOK'
<1> SUFFICES ASSUME IInv, [Next]_vars PROVE TypeOK'
  OBVIOUS
<1> USE DEF IInv, TypeOK, Labels, Goto, At, setup, mainVars
<1>0. num_lists \in Nat
  OBVIOUS
<1>1. ASSUME NEW t \in Threads, LoopHead(t) PROVE TypeOK'
  <2>1. UNCHANGED <<num_lists, hash, contents, lock, size, main, t_main>>
    BY <1>1 DEF LoopHead
  <2>2. pc' \in [Threads -> Labels] /\ phase' \in [Threads -> {"insert", "count", "delete"}]
    BY <1>1 DEF LoopHead, LeaveLoop
  <2>3. turn' \in [Threads -> Nat] /\ outcome' \in {"running", "exit2", "corrupted", "sigfpe", "printed"}
    BY <1>1 DEF LoopHead, LeaveLoop
  <2>4. \A u \in Threads : turn'[u] <= LoopBound(u)'
    BY <1>0, <1>1, SMT DEF LoopHead, LeaveLoop, LoopBound
  <2> QED BY <2>1, <2>2, <2>3, <2>4 DEF Lists
<1>2. ASSUME NEW t \in Threads, Lock(t) PROVE TypeOK'
  BY <1>2 DEF Lock, Lists, LoopBound
<1>3. ASSUME NEW t \in Threads, Insert(t) PROVE TypeOK'
  <2>1. Element(t) \in Elements
    BY <1>3, InTurn DEF Insert
  <2>2. ListIndex(t) \in Lists
    BY <1>3, InTurn DEF Insert
  <2>3. contents[ListIndex(t)] \cup {Element(t)} \in SUBSET Elements
    BY <2>1, <2>2
  <2>4. contents' \in [Lists -> SUBSET Elements]
    BY <1>3, <2>3 DEF Insert
  <2>5. UNCHANGED <<num_lists, hash, lock, phase, turn, size, main, t_main, outcome>>
        /\ pc' \in [Threads -> Labels]
    BY <1>3 DEF Insert
  <2> QED BY <2>4, <2>5 DEF Lists, LoopBound
<1>4. ASSUME NEW t \in Threads, Length(t) PROVE TypeOK'
  <2>1. ListIndex(t) \in Lists
    BY <1>4, InTurn DEF Length
  <2>2. Cardinality(contents[ListIndex(t)]) \in Nat
    BY <2>1, SubsetCounts
  <2>3. size[t] + Cardinality(contents[ListIndex(t)]) \in Nat
    BY <2>2, SMT
  <2>4. size' \in [Threads -> Nat]
    BY <1>4, <2>3 DEF Length
  <2>5. UNCHANGED <<num_lists, hash, contents, lock, phase, turn, main, t_main, outcome>>
        /\ pc' \in [Threads -> Labels]
    BY <1>4 DEF Length
  <2> QED BY <2>4, <2>5 DEF Lists, LoopBound
<1>5. ASSUME NEW t \in Threads, LookupAndDelete(t) PROVE TypeOK'
  <2>1. ListIndex(t) \in Lists
    BY <1>5, InTurn DEF LookupAndDelete
  <2>2. contents[ListIndex(t)] \ {Element(t)} \in SUBSET Elements
    BY <2>1
  <2>3. contents' \in [Lists -> SUBSET Elements]
    BY <1>5, <2>2 DEF LookupAndDelete
  <2>4. UNCHANGED <<num_lists, hash, lock, phase, turn, size, main, t_main>>
        /\ pc' \in [Threads -> Labels]
    BY <1>5 DEF LookupAndDelete
  <2>5. outcome' \in {"running", "corrupted"}
    BY <1>5 DEF LookupAndDelete
  <2> QED BY <2>3, <2>4, <2>5 DEF Lists, LoopBound
<1>6. ASSUME NEW t \in Threads, Unlock(t) PROVE TypeOK'
  <2>1. turn[t] + 1 \in Nat /\ turn[t] + 1 <= LoopBound(t)
    BY <1>0, <1>6, SMT DEF Unlock, ControlInv, LoopBound
  <2>2. lock' \in [Lists -> Threads \cup {NoThread}]
    BY <1>6 DEF Unlock
  <2>3. turn' \in [Threads -> Nat] /\ pc' \in [Threads -> Labels]
    BY <1>6, <2>1 DEF Unlock
  <2>4. UNCHANGED <<num_lists, hash, contents, phase, size, main, t_main, outcome>>
    BY <1>6 DEF Unlock
  <2>5. \A u \in Threads : turn'[u] <= LoopBound(u)'
    BY <1>6, <2>1, <2>4 DEF Unlock, LoopBound
  <2> QED BY <2>2, <2>3, <2>4, <2>5 DEF Lists
<1>7. CASE Main
  <2>1. CASE CreateThread
    <3>1. t_main + 1 \in 0..NumThreads
      BY <2>1, SMT DEF CreateThread
    <3> QED BY <2>1, <3>1 DEF CreateThread, Lists, LoopBound
  <2>2. CASE PthreadError
    BY <2>2 DEF PthreadError, Lists, LoopBound
  <2>3. CASE AllCreated
    BY <2>3, SMT DEF AllCreated, Lists, LoopBound
  <2>4. CASE JoinThread
    BY <2>4, SMT DEF JoinThread, Lists, LoopBound
  <2>5. CASE Report
    BY <2>5 DEF Report, Lists, LoopBound
  <2> QED BY <1>7, <2>1, <2>2, <2>3, <2>4, <2>5 DEF Main
<1>8. CASE UNCHANGED vars
  BY <1>8 DEF vars, Lists, LoopBound
<1> QED BY <1>1, <1>2, <1>3, <1>4, <1>5, <1>6, <1>7, <1>8
        DEF Next, Thread, Terminated

LEMMA ControlStep == IInv /\ [Next]_vars => ControlInv'
<1> SUFFICES ASSUME IInv, [Next]_vars PROVE ControlInv'
  OBVIOUS
<1> USE DEF IInv, TypeOK, ControlInv, Goto, At, setup, mainVars
<1>0. num_lists \in Nat
  OBVIOUS
<1>1. ASSUME NEW t \in Threads, LoopHead(t) PROVE ControlInv'
  <2>1. CASE turn[t] < LoopBound(t)
    <3>1. ~(turn[t] >= LoopBound(t))
      BY <1>0, <2>1, SMT DEF LoopBound
    <3>2. UNCHANGED <<num_lists, phase, turn>> /\ (pc' = pc \/ pc' = [pc EXCEPT ![t] = "lock"])
      BY <1>1, <3>1 DEF LoopHead
    <3>3. pc'[t] = "lock" => num_lists > 0
      BY <1>0, <1>1, <2>1, <3>1, SMT DEF LoopHead, LoopBound
    <3> QED BY <1>1, <2>1, <3>2, <3>3 DEF LoopHead, LoopBound
  <2>2. CASE turn[t] >= LoopBound(t)
    <3>1. LeaveLoop(t) /\ UNCHANGED num_lists /\ pc[t] = "loop"
      BY <1>1, <2>2 DEF LoopHead
    <3>2. turn[t] = LoopBound(t)
      BY <1>0, <2>2, SMT DEF LoopBound
    <3>3. CASE phase[t] = "insert"
      <4>1. num_lists = 0 => NumIterations = 0
        BY <1>0, <1>1, <3>1, <3>2, <3>3 DEF LoopBound
      <4> QED BY <3>1, <3>2, <3>3, <4>1 DEF LeaveLoop, LoopBound
    <3>4. CASE phase[t] = "count"
      BY <3>1, <3>4 DEF LeaveLoop, LoopBound
    <3>5. CASE phase[t] = "delete"
      BY <3>1, <3>2, <3>5 DEF LeaveLoop, LoopBound
    <3> QED BY <3>3, <3>4, <3>5
  <2> QED BY <1>0, <2>1, <2>2, SMT DEF LoopBound
<1>2. ASSUME NEW t \in Threads, Lock(t) PROVE ControlInv'
  BY <1>2 DEF Lock, LoopBound
<1>3. ASSUME NEW t \in Threads, Insert(t) \/ Length(t) \/ LookupAndDelete(t)
      PROVE  ControlInv'
  BY <1>3 DEF Insert, Length, LookupAndDelete, LoopBound
<1>4. ASSUME NEW t \in Threads, Unlock(t) PROVE ControlInv'
  BY <1>4 DEF Unlock, LoopBound
<1>5. CASE Main
  BY <1>5 DEF Main, PthreadError, CreateThread, AllCreated, JoinThread, Report, LoopBound
<1>6. CASE UNCHANGED vars
  BY <1>6 DEF vars, LoopBound
<1> QED BY <1>1, <1>2, <1>3, <1>4, <1>5, <1>6 DEF Next, Thread, Terminated

LEMMA MainStep == IInv /\ [Next]_vars => MainInv'
<1> SUFFICES ASSUME IInv, [Next]_vars PROVE MainInv'
  OBVIOUS
<1> USE DEF IInv, TypeOK, MainInv, Goto, At, setup, mainVars
<1>1. ASSUME NEW t \in Threads, Thread(t) PROVE MainInv'
  <2>1. /\ pc[t] \notin {"unborn", "returned"}
        /\ UNCHANGED <<main, t_main>>
        /\ \A u \in Threads : u # t => pc'[u] = pc[u]
    <3>1. CASE LoopHead(t)
      BY <3>1 DEF LoopHead, LeaveLoop
    <3>2. CASE Lock(t) \/ Insert(t) \/ Length(t) \/ LookupAndDelete(t) \/ Unlock(t)
      BY <3>2 DEF Lock, Insert, Length, LookupAndDelete, Unlock
    <3> QED BY <1>1, <3>1, <3>2 DEF Thread
  <2> QED BY <2>1
<1>2. CASE Main
  <2>1. CASE PthreadError
    BY <2>1 DEF PthreadError
  <2>2. CASE CreateThread
    BY <2>2, SMT DEF CreateThread, Threads
  <2>3. CASE AllCreated
    BY <2>3, SMT DEF AllCreated, Threads
  <2>4. CASE JoinThread
    BY <2>4, SMT DEF JoinThread, Threads
  <2>5. CASE Report
    BY <2>5 DEF Report
  <2> QED BY <1>2, <2>1, <2>2, <2>3, <2>4, <2>5 DEF Main
<1>3. CASE UNCHANGED vars
  BY <1>3 DEF vars
<1> QED BY <1>1, <1>2, <1>3 DEF Next, Terminated

LEMMA LockStep == IInv /\ [Next]_vars => LockInv'
<1> SUFFICES ASSUME IInv, [Next]_vars PROVE LockInv'
  OBVIOUS
<1> USE DEF IInv, TypeOK, LockInv, Inside, Goto, At, setup, mainVars
<1>0. NoThread \notin Threads
  BY SMT DEF NoThread, Threads
<1>1. ASSUME NEW t \in Threads, LoopHead(t) PROVE LockInv'
  <2>1. /\ pc[t] = "loop" /\ pc'[t] \in {"loop", "lock", "returned"}
        /\ UNCHANGED <<num_lists, hash, lock>>
        /\ \A u \in Threads : u # t =>
             pc'[u] = pc[u] /\ phase'[u] = phase[u] /\ turn'[u] = turn[u]
    BY <1>1 DEF LoopHead, LeaveLoop
  <2>2. \A u \in Threads : Inside(u)' <=> Inside(u)
    BY <2>1
  <2>3. \A u \in Threads : Inside(u) => ListIndex(u)' = ListIndex(u)
    BY <2>1 DEF ListIndex, Element
  <2> QED BY <2>1, <2>2, <2>3 DEF Lists
<1>2. ASSUME NEW t \in Threads, Lock(t) PROVE LockInv'
  <2>1. ListIndex(t) \in Lists
    BY <1>2, InTurn DEF Lock
  <2>2. \A u \in Threads : ListIndex(u)' = ListIndex(u)
    BY <1>2 DEF Lock, ListIndex, Element
  <2> QED BY <1>0, <1>2, <2>1, <2>2 DEF Lock, Lists
<1>3. ASSUME NEW t \in Threads, Insert(t) \/ Length(t) \/ LookupAndDelete(t)
      PROVE  LockInv'
  <2>1. \A u \in Threads : ListIndex(u)' = ListIndex(u)
    BY <1>3 DEF Insert, Length, LookupAndDelete, ListIndex, Element
  <2> QED BY <1>3, <2>1 DEF Insert, Length, LookupAndDelete, Lists
<1>4. ASSUME NEW t \in Threads, Unlock(t) PROVE LockInv'
  <2>1. ListIndex(t) \in Lists
    BY <1>4, InTurn DEF Unlock
  <2>2. \A u \in Threads : u # t => ListIndex(u)' = ListIndex(u)
    BY <1>4 DEF Unlock, ListIndex, Element
  <2> QED BY <1>0, <1>4, <2>1, <2>2 DEF Unlock, Lists
<1>5. CASE Main
  <2>1. /\ UNCHANGED <<num_lists, hash, lock, phase, turn>>
        /\ \A u \in Threads : Inside(u)' <=> Inside(u)
    <3>1. CASE CreateThread
      <4>1. t_main \in Threads /\ pc[t_main] = "unborn"
        BY <3>1, SMT DEF CreateThread, Threads, MainInv
      <4> QED BY <3>1, <4>1 DEF CreateThread
    <3>2. CASE PthreadError \/ AllCreated \/ JoinThread \/ Report
      BY <3>2 DEF PthreadError, AllCreated, JoinThread, Report
    <3> QED BY <1>5, <3>1, <3>2 DEF Main
  <2> QED BY <2>1 DEF ListIndex, Element, Lists
<1>6. CASE UNCHANGED vars
  BY <1>6 DEF vars, ListIndex, Element, Lists
<1> QED BY <1>1, <1>2, <1>3, <1>4, <1>5, <1>6 DEF Next, Thread, Terminated

LEMMA ContentsKept ==
  ASSUME ContentsInv, UNCHANGED <<num_lists, hash, contents>>,
         \A e \in Elements : Holds(e[1], e[2])' <=> Holds(e[1], e[2])
  PROVE  ContentsInv'
  BY DEF ContentsInv, Lists

LEMMA ContentsStep == IInv /\ [Next]_vars => ContentsInv'
<1> SUFFICES ASSUME IInv, [Next]_vars PROVE ContentsInv'
  OBVIOUS
<1> USE DEF IInv, TypeOK, Goto, At, setup, mainVars
<1>0. \A e \in Elements : e[1] \in Threads /\ e[2] \in Turns /\ e = <<e[1], e[2]>>
  BY DEF Elements
<1>1. ASSUME NEW t \in Threads, LoopHead(t) PROVE ContentsInv'
  <2>1. /\ UNCHANGED <<num_lists, hash, contents>>
        /\ pc[t] = "loop" /\ pc'[t] # "unlock"
        /\ \A u \in Threads : u # t =>
             pc'[u] = pc[u] /\ phase'[u] = phase[u] /\ turn'[u] = turn[u]
    BY <1>1 DEF LoopHead, LeaveLoop
  <2>2. \A u \in Threads, j \in Turns : u # t => (Holds(u, j)' <=> Holds(u, j))
    BY <2>1 DEF Holds, Done
  <2>3. \A j \in Turns : Holds(t, j)' <=> Holds(t, j)
    <3>1. CASE phase'[t] = phase[t] /\ turn'[t] = turn[t]
      BY <2>1, <3>1 DEF Holds, Done
    <3>2. CASE ~(phase'[t] = phase[t] /\ turn'[t] = turn[t])
      <4>1. LeaveLoop(t) /\ turn[t] >= LoopBound(t)
        BY <1>1, <3>2 DEF LoopHead
      <4>2. CASE phase[t] = "insert"
        <5>1. phase'[t] = "count"
          BY <4>1, <4>2 DEF LeaveLoop
        <5>2. \A j \in Turns : j < turn[t]
          BY <4>1, <4>2, SMT DEF LoopBound, Turns
        <5> QED BY <2>1, <4>2, <5>1, <5>2, SMT DEF Holds, Done
      <4>3. CASE phase[t] = "count"
        <5>1. phase'[t] = "delete" /\ turn'[t] = 0
          BY <3>2, <4>1, <4>3 DEF LeaveLoop
        <5> QED BY <2>1, <4>3, <5>1, SMT DEF Holds, Done, Turns
      <4>4. CASE phase[t] = "delete"
        BY <3>2, <4>1, <4>4 DEF LeaveLoop
      <4> QED BY <4>2, <4>3, <4>4
    <3> QED BY <3>1, <3>2
  <2> QED BY <1>0, <2>1, <2>2, <2>3, ContentsKept
<1>2. ASSUME NEW t \in Threads, Lock(t) PROVE ContentsInv'
  BY <1>2, ContentsKept DEF Lock, Holds, Done
<1>3. ASSUME NEW t \in Threads, Insert(t) PROVE ContentsInv'
  <2>1. /\ ListIndex(t) \in Lists /\ Element(t) \in Elements
        /\ hash[Element(t)] = ListIndex(t)
    BY <1>3, InTurn DEF Insert
  <2>2. \A e \in Elements : Holds(e[1], e[2])' <=> Holds(e[1], e[2]) \/ e = Element(t)
    <3>1. \A e \in Elements : e[1] # t => (Holds(e[1], e[2])' <=> Holds(e[1], e[2]))
      BY <1>0, <1>3 DEF Insert, Holds, Done
    <3>2. \A j \in Turns : Holds(t, j)' <=> Holds(t, j) \/ j = turn[t]
      BY <1>3, SMT DEF Insert, Holds, Done, Turns
    <3> QED BY <1>0, <3>1, <3>2 DEF Element
  <2>3. ASSUME NEW l \in Lists
        PROVE  contents'[l] = {e \in Elements : hash[e] = l /\ Holds(e[1], e[2])'}
    <3>1. CASE l = ListIndex(t)
      BY <1>3, <2>1, <2>2, <3>1 DEF Insert, ContentsInv
    <3>2. CASE l # ListIndex(t)
      BY <1>3, <2>1, <2>2, <3>2 DEF Insert, ContentsInv
    <3> QED BY <3>1, <3>2
  <2> QED BY <1>3, <2>3 DEF Insert, ContentsInv, Lists
<1>4. ASSUME NEW t \in Threads, Length(t) PROVE ContentsInv'
  BY <1>4, ContentsKept DEF Length, Holds, Done
<1>5. ASSUME NEW t \in Threads, LookupAndDelete(t) PROVE ContentsInv'
  <2>1. /\ ListIndex(t) \in Lists /\ Element(t) \in Elements
        /\ hash[Element(t)] = ListIndex(t)
    BY <1>5, InTurn DEF LookupAndDelete
  <2>2. Holds(t, turn[t])
    BY <1>5, SMT DEF LookupAndDelete, Holds, Done
  <2>3. Element(t) \in contents[ListIndex(t)]
    BY <2>1, <2>2 DEF ContentsInv, Element
  <2>4. \A e \in Elements : Holds(e[1], e[2])' <=> Holds(e[1], e[2]) /\ e # Element(t)
    <3>1. \A e \in Elements : e[1] # t => (Holds(e[1], e[2])' <=> Holds(e[1], e[2]))
      BY <1>0, <1>5, <2>3 DEF LookupAndDelete, Holds, Done
    <3>2. \A j \in Turns : Holds(t, j)' <=> Holds(t, j) /\ j # turn[t]
      BY <1>5, <2>3, SMT DEF LookupAndDelete, Holds, Done, Turns
    <3> QED BY <1>0, <3>1, <3>2 DEF Element
  <2>5. ASSUME NEW l \in Lists
        PROVE  contents'[l] = {e \in Elements : hash[e] = l /\ Holds(e[1], e[2])'}
    <3>1. CASE l = ListIndex(t)
      BY <1>5, <2>1, <2>3, <2>4, <3>1 DEF LookupAndDelete, ContentsInv
    <3>2. CASE l # ListIndex(t)
      BY <1>5, <2>1, <2>3, <2>4, <3>2 DEF LookupAndDelete, ContentsInv
    <3> QED BY <3>1, <3>2
  <2> QED BY <1>5, <2>5 DEF LookupAndDelete, ContentsInv, Lists
<1>6. ASSUME NEW t \in Threads, Unlock(t) PROVE ContentsInv'
  <2>1. \A u \in Threads : Done(u)' = Done(u)
    BY <1>6, SMT DEF Unlock, Done
  <2>2. \A e \in Elements : Holds(e[1], e[2])' <=> Holds(e[1], e[2])
    BY <1>0, <1>6, <2>1 DEF Unlock, Holds
  <2> QED BY <1>6, <2>2, ContentsKept DEF Unlock
<1>7. CASE Main
  <2>1. UNCHANGED <<num_lists, hash, contents, phase, turn>>
        /\ \A u \in Threads : pc'[u] = "unlock" <=> pc[u] = "unlock"
    <3>1. CASE CreateThread
      <4>1. t_main \in Threads /\ pc[t_main] = "unborn"
        BY <3>1, SMT DEF CreateThread, Threads, MainInv
      <4> QED BY <3>1, <4>1 DEF CreateThread
    <3>2. CASE PthreadError \/ AllCreated \/ JoinThread \/ Report
      BY <3>2 DEF PthreadError, AllCreated, JoinThread, Report
    <3> QED BY <1>7, <3>1, <3>2 DEF Main
  <2>2. \A u \in Threads : Done(u)' = Done(u)
    BY <2>1 DEF Done
  <2>3. \A e \in Elements : Holds(e[1], e[2])' <=> Holds(e[1], e[2])
    BY <1>0, <2>1, <2>2 DEF Holds
  <2> QED BY <2>1, <2>3, ContentsKept
<1>8. CASE UNCHANGED vars
  BY <1>8, ContentsKept DEF vars, Holds, Done
<1> QED BY <1>1, <1>2, <1>3, <1>4, <1>5, <1>6, <1>7, <1>8
        DEF Next, Thread, Terminated

(* A sublist that has been passed adds its elements to those below.        *)
LEMMA BelowStep ==
  ASSUME TypeOK, NEW t \in Threads, NEW l \in Lists
  PROVE  LET here == {e \in Elements : hash[e] = l}
             own  == {e \in here : e[1] = t}
         IN  /\ Cardinality(Below(l + 1)) = Cardinality(Below(l)) + Cardinality(here)
             /\ Cardinality(OwnBelow(t, l + 1)) =
                  Cardinality(OwnBelow(t, l)) + Cardinality(own)
<1> DEFINE here == {e \in Elements : hash[e] = l}
           own  == {e \in here : e[1] = t}
<1>1. \A e \in Elements : hash[e] \in Int /\ (hash[e] < l + 1 <=> hash[e] < l \/ hash[e] = l)
  BY SMT DEF TypeOK, Lists
<1>2. \A e \in Elements : ~(hash[e] < l /\ hash[e] = l)
  BY <1>1, SMT DEF Lists
<1>3. Below(l + 1) = Below(l) \cup here /\ Below(l) \cap here = {}
  BY <1>1, <1>2 DEF Below
<1>4. OwnBelow(t, l + 1) = OwnBelow(t, l) \cup own /\ OwnBelow(t, l) \cap own = {}
  BY <1>3 DEF OwnBelow
<1>5. Below(l) \in SUBSET Elements /\ here \in SUBSET Elements
  BY DEF Below
<1>6. OwnBelow(t, l) \in SUBSET Elements /\ own \in SUBSET Elements
  BY DEF OwnBelow, Below
<1> HIDE DEF here, own
<1>7. Cardinality(Below(l + 1)) = Cardinality(Below(l)) + Cardinality(here)
  BY <1>3, <1>5, DisjointCount
<1>8. Cardinality(OwnBelow(t, l + 1)) = Cardinality(OwnBelow(t, l)) + Cardinality(own)
  BY <1>4, <1>6, DisjointCount
<1> QED BY <1>7, <1>8 DEF here, own

LEMMA BelowNothing ==
  ASSUME TypeOK, NEW t \in Threads
  PROVE  Cardinality(Below(0)) = 0 /\ Cardinality(OwnBelow(t, 0)) = 0
<1>1. \A e \in Elements : hash[e] >= 0
  BY SMT DEF TypeOK, Lists
<1>2. Below(0) = {} /\ OwnBelow(t, 0) = {}
  BY <1>1, SMT DEF Below, OwnBelow, TypeOK, Lists
<1> QED BY <1>2, FS_EmptySet

LEMMA SizeStep == IInv /\ [Next]_vars => SizeInv'
<1> SUFFICES ASSUME IInv, [Next]_vars PROVE SizeInv'
  OBVIOUS
<1> USE DEF IInv, TypeOK, Goto, At, setup, mainVars
<1>1. ASSUME UNCHANGED <<num_lists, hash, size>>,
             \A t \in Threads :
               /\ phase'[t] = "insert" => phase[t] = "insert"
               /\ phase'[t] = "count" => phase[t] = "count" /\ Done(t)' = Done(t)
      PROVE  SizeInv'
  BY <1>1 DEF SizeInv, Below, OwnBelow
<1>2. ASSUME NEW t \in Threads, LoopHead(t) PROVE SizeInv'
  <2>1. /\ UNCHANGED <<num_lists, hash, size>>
        /\ pc[t] = "loop" /\ pc'[t] # "unlock"
        /\ \A u \in Threads : u # t =>
             pc'[u] = pc[u] /\ phase'[u] = phase[u] /\ turn'[u] = turn[u]
    BY <1>2 DEF LoopHead, LeaveLoop
  <2>2. CASE phase'[t] = "count" /\ phase[t] # "count"
    <3>1. phase[t] = "insert" /\ turn'[t] = 0
      BY <1>2, <2>2 DEF LoopHead, LeaveLoop
    <3>2. size[t] = 0 /\ Done(t)' = 0
      BY <2>1, <3>1, SMT DEF SizeInv, Done
    <3>3. \A u \in Threads : u # t => Done(u)' = Done(u)
      BY <2>1 DEF Done
    <3>4. Cardinality(Below(0)) = 0 /\ Cardinality(OwnBelow(t, 0)) = 0
      BY BelowNothing
    <3>5. \A n : Below(n)' = Below(n) /\ \A u : OwnBelow(u, n)' = OwnBelow(u, n)
      BY <2>1 DEF Below, OwnBelow
    <3>6. /\ Cardinality(OwnBelow(t, Done(t))') <= size'[t]
          /\ size'[t] <= Cardinality(Below(Done(t))')
      BY <2>1, <3>2, <3>4, <3>5
    <3> QED BY <2>1, <2>2, <3>2, <3>3, <3>5, <3>6 DEF SizeInv
  <2>3. CASE ~(phase'[t] = "count" /\ phase[t] # "count")
    <3>1. phase'[t] = "insert" => phase[t] = "insert"
      BY <1>2 DEF LoopHead, LeaveLoop
    <3>2. phase'[t] = "count" => turn'[t] = turn[t]
      BY <1>2, <2>3 DEF LoopHead, LeaveLoop
    <3> QED BY <1>1, <2>1, <2>3, <3>1, <3>2 DEF Done
  <2> QED BY <2>2, <2>3
<1>3. ASSUME NEW t \in Threads, Lock(t) PROVE SizeInv'
  BY <1>1, <1>3 DEF Lock, Done
<1>4. ASSUME NEW t \in Threads, Insert(t) \/ LookupAndDelete(t) PROVE SizeInv'
  BY <1>1, <1>4 DEF Insert, LookupAndDelete, Done
<1>5. ASSUME NEW t \in Threads, Length(t) PROVE SizeInv'
  <2> DEFINE l    == turn[t]
             here == {e \in Elements : hash[e] = l}
             own  == {e \in here : e[1] = t}
  <2>1. phase[t] = "count" /\ ListIndex(t) = l /\ l \in Lists /\ l \in Nat
    BY <1>5, InTurn DEF Length
  <2>2. contents[l] \in SUBSET here /\ own \in SUBSET contents[l]
    BY <2>1 DEF ContentsInv, Holds
  <2>3. /\ Cardinality(own) \in Nat /\ Cardinality(here) \in Nat
        /\ Cardinality(contents[l]) \in Nat
        /\ Cardinality(own) <= Cardinality(contents[l])
        /\ Cardinality(contents[l]) <= Cardinality(here)
    <3>1. here \in SUBSET Elements /\ contents[l] \in SUBSET Elements
      BY <2>2
    <3> HIDE DEF here, own, l
    <3> QED BY <2>2, <3>1, SubsetCounts
  <2>4. Done(t) = l /\ Done(t)' = l + 1
    BY <1>5, SMT DEF Length, Done
  <2>5. /\ Cardinality(Below(l + 1)) = Cardinality(Below(l)) + Cardinality(here)
        /\ Cardinality(OwnBelow(t, l + 1)) = Cardinality(OwnBelow(t, l)) + Cardinality(own)
    BY <2>1, BelowStep
  <2>6. \A n : Below(n) \in SUBSET Elements /\ \A u : OwnBelow(u, n) \in SUBSET Elements
    BY DEF Below, OwnBelow
  <2>7. /\ Cardinality(Below(l)) \in Nat /\ Cardinality(OwnBelow(t, l)) \in Nat
        /\ Cardinality(Below(l + 1)) <= Cardinality(Elements)
        /\ Cardinality(Elements) \in Nat
    BY <2>6, SubsetCounts
  <2>8. size'[t] = size[t] + Cardinality(contents[l])
    BY <1>5, <2>1 DEF Length
  <2>9. Cardinality(OwnBelow(t, l)) <= size[t] /\ size[t] <= Cardinality(Below(l))
    BY <2>1, <2>4 DEF SizeInv
  <2> HIDE DEF here, own, l
  <2>10. /\ Cardinality(OwnBelow(t, l + 1)) <= size'[t]
         /\ size'[t] <= Cardinality(Below(l + 1))
         /\ size'[t] <= Cardinality(Elements)
    BY <2>3, <2>5, <2>7, <2>8, <2>9, SMT
  <2>11. \A u \in Threads : u # t =>
           size'[u] = size[u] /\ phase'[u] = phase[u] /\ Done(u)' = Done(u)
    BY <1>5 DEF Length, Done
  <2>12. \A n : Below(n)' = Below(n) /\ \A u : OwnBelow(u, n)' = OwnBelow(u, n)
    BY <1>5 DEF Length, Below, OwnBelow
  <2>13. phase'[t] = "count"
    BY <1>5, <2>1 DEF Length
  <2> QED BY <2>4, <2>10, <2>11, <2>12, <2>13 DEF SizeInv
<1>6. ASSUME NEW t \in Threads, Unlock(t) PROVE SizeInv'
  <2>1. \A u \in Threads : Done(u)' = Done(u)
    BY <1>6, SMT DEF Unlock, Done
  <2> QED BY <1>1, <1>6, <2>1 DEF Unlock
<1>7. CASE Main
  <2>1. UNCHANGED <<num_lists, hash, size, phase, turn>>
        /\ \A u \in Threads : pc'[u] = "unlock" <=> pc[u] = "unlock"
    <3>1. CASE CreateThread
      <4>1. t_main \in Threads /\ pc[t_main] = "unborn"
        BY <3>1, SMT DEF CreateThread, Threads, MainInv
      <4> QED BY <3>1, <4>1 DEF CreateThread
    <3>2. CASE PthreadError \/ AllCreated \/ JoinThread \/ Report
      BY <3>2 DEF PthreadError, AllCreated, JoinThread, Report
    <3> QED BY <1>7, <3>1, <3>2 DEF Main
  <2> QED BY <1>1, <2>1 DEF Done
<1>8. CASE UNCHANGED vars
  BY <1>1, <1>8 DEF vars, Done
<1> QED BY <1>2, <1>3, <1>4, <1>5, <1>6, <1>7, <1>8 DEF Next, Thread, Terminated

(* After the counting loop the size covers every own element.              *)
LEMMA SizeSuffices ==
  ASSUME IInv, NEW t \in Threads, phase[t] = "count", turn[t] = num_lists
  PROVE  size[t] >= NumIterations
<1> USE DEF IInv, TypeOK
<1>1. pc[t] # "unlock" /\ Done(t) = num_lists
  <2>1. num_lists \in Nat
    OBVIOUS
  <2> QED BY <2>1, SMT DEF ControlInv, LoopBound, Done
<1>2. CASE num_lists = 0
  BY <1>2, SMT DEF ControlInv
<1>3. CASE num_lists # 0
  <2>1. \A e \in Elements : hash[e] < num_lists
    BY <1>3, SMT DEF Lists
  <2>2. OwnBelow(t, num_lists) = {e \in Elements : e[1] = t}
    BY <2>1 DEF OwnBelow, Below
  <2>3. Cardinality(OwnBelow(t, num_lists)) = NumIterations
    BY <2>2, OwnCount
  <2> QED BY <1>1, <2>3, SMT DEF SizeInv
<1> QED BY <1>2, <1>3

LEMMA NoAlarmStep == IInv /\ [Next]_vars => NoFalseAlarm'
<1> SUFFICES ASSUME IInv, [Next]_vars PROVE NoFalseAlarm'
  OBVIOUS
<1> USE DEF IInv, TypeOK, NoFalseAlarm, Goto, At, setup, mainVars
<1>1. ASSUME NEW t \in Threads, LoopHead(t) PROVE NoFalseAlarm'
  <2>1. CASE LeaveLoop(t) /\ turn[t] >= LoopBound(t)
    <3>1. num_lists \in Nat
      OBVIOUS
    <3>2. phase[t] = "count" => turn[t] = num_lists
      BY <2>1, <3>1, SMT DEF LoopBound
    <3>3. phase[t] = "count" => ~(size[t] < NumIterations)
      BY <3>2, SizeSuffices, SMT
    <3> QED BY <2>1, <3>3 DEF LeaveLoop
  <2>2. CASE ~(LeaveLoop(t) /\ turn[t] >= LoopBound(t))
    BY <1>1, <2>2 DEF LoopHead
  <2> QED BY <2>1, <2>2
<1>2. ASSUME NEW t \in Threads, Lock(t) \/ Insert(t) \/ Length(t) \/ Unlock(t)
      PROVE  NoFalseAlarm'
  BY <1>2 DEF Lock, Insert, Length, Unlock
<1>3. ASSUME NEW t \in Threads, LookupAndDelete(t) PROVE NoFalseAlarm'
  <2>1. /\ ListIndex(t) \in Lists /\ Element(t) \in Elements
        /\ hash[Element(t)] = ListIndex(t)
    BY <1>3, InTurn DEF LookupAndDelete
  <2>2. Holds(t, turn[t])
    BY <1>3, SMT DEF LookupAndDelete, Holds, Done
  <2>3. Element(t) \in contents[ListIndex(t)]
    BY <2>1, <2>2 DEF ContentsInv, Element
  <2> QED BY <1>3, <2>3 DEF LookupAndDelete
<1>4. CASE Main
  <2>1. CASE Report
    <3>1. \A e \in Elements : ~Holds(e[1], e[2])
      <4>1. \A t \in Threads : pc[t] = "returned"
        BY <2>1, SMT DEF Report, MainInv, Threads
      <4>2. \A t \in Threads : phase[t] = "delete" /\ Done(t) = NumIterations
        BY <4>1, SMT DEF ControlInv, Done
      <4>3. \A t \in Threads, j \in Turns : ~Holds(t, j)
        BY <4>2, SMT DEF Holds, Turns
      <4> QED BY <4>3 DEF Elements
    <3>2. \A l \in Lists : contents[l] = {}
      BY <3>1 DEF ContentsInv
    <3> QED BY <2>1, <3>2 DEF Report
  <2>2. CASE PthreadError \/ CreateThread \/ AllCreated \/ JoinThread
    BY <2>2 DEF PthreadError, CreateThread, AllCreated, JoinThread
  <2> QED BY <1>4, <2>1, <2>2 DEF Main
<1>5. CASE UNCHANGED vars
  BY <1>5 DEF vars
<1> QED BY <1>1, <1>2, <1>3, <1>4, <1>5 DEF Next, Thread, Terminated

-----------------------------------------------------------------------------

LEMMA Inductive == Spec => []IInv
<1>1. IInv /\ [Next]_vars => IInv'
  BY TypeStep, ControlStep, MainStep, LockStep, ContentsStep, SizeStep,
     NoAlarmStep DEF IInv
<1> QED BY InitIInv, <1>1, PTL DEF Spec

(* Type correctness: every variable keeps the type TypeOK gives it.        *)
THEOREM TypeCorrect == Spec => []TypeOK
<1>1. IInv => TypeOK
  BY DEF IInv
<1> QED BY Inductive, <1>1, PTL

(* No synchronised run of lab2_list is ever reported as corrupted, for any *)
(* number of threads, iterations and sublists and any hash of the keys.    *)
THEOREM NoAlarm == Spec => []NoFalseAlarm
<1>1. IInv => NoFalseAlarm
  BY DEF IInv
<1> QED BY Inductive, <1>1, PTL

(* The lock of a sublist admits one thread to it at a time.                *)
THEOREM Exclusion == Spec => []SublistExclusion
<1>1. IInv => SublistExclusion
  <2> SUFFICES ASSUME IInv, NEW t \in Threads, NEW u \in Threads,
                      Inside(t), Inside(u), ListIndex(t) = ListIndex(u)
               PROVE  t = u
    BY DEF SublistExclusion
  <2>1. ListIndex(t) \in Lists
    BY InTurn DEF IInv, Inside
  <2>2. lock[ListIndex(t)] = t /\ lock[ListIndex(t)] = u
    BY <2>1 DEF IInv, LockInv
  <2> QED BY <2>2
<1> QED BY Inductive, <1>1, PTL

(* The sum of the sublist lengths, taken one sublist at a time while other *)
(* threads insert and delete, lies between the number of the thread's own  *)
(* elements and the number of all elements.                                *)
THEOREM SizeBounded == Spec => []SizeBounds
<1>1. IInv => SizeBounds
  BY SizeSuffices DEF IInv, SizeInv, SizeBounds
<1> QED BY Inductive, <1>1, PTL

(* The loops of the threads, the locks and the contents of the sublists    *)
(* are at every moment what the progress of the threads says: an element   *)
(* is in the sublist its key hashes to from its insert to its delete, and  *)
(* in no other.                                                            *)
THEOREM ContentsKnown == Spec => []ContentsExact
<1>1. IInv => ContentsExact
  BY DEF IInv, ContentsExact
<1> QED BY Inductive, <1>1, PTL

=============================================================================
