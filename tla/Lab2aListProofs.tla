---------------------------- MODULE Lab2aListProofs ----------------------------
(***************************************************************************)
(* Proofs about lab2a/lab2_list.c for every number of threads and          *)
(* elements: the keys that generateKey() of both list programs draws, the  *)
(* list behind the lock, and what is left of it in a race.                 *)
(***************************************************************************)
EXTENDS Lab2aListInv, SortedListProofs

-----------------------------------------------------------------------------
(* generateKey(), of KeyPool.                                              *)

LEMMA PoolSize ==
  ASSUME Pool!TypeOK
  PROVE  num_elementstocreate \in Nat
BY Lab2aAssumption DEF Pool!TypeOK

LEMMA PoolInit ==
  ASSUME Pool!Init
  PROVE  Pool!IInv
<1>1. num_elementstocreate \in Nat
  BY Lab2aAssumption DEF Pool!Init
<1> QED BY <1>1 DEF Pool!Init, Pool!IInv, Pool!TypeOK, Pool!KeysDistinct, Pool!PoolInv, Pool!Indices,
           Pool!NoKey

(* One draw: the key leaves the pool, the last one moves into its place.   *)
LEMMA DrawKeepsPool ==
  ASSUME Pool!IInv, Pool!Draw
  PROVE  Pool!IInv'
<1> DEFINE last == random_keys_maxindex
<1>1. PICK r \in 0..last :
        /\ actual_keys' = [actual_keys EXCEPT ![i] = random_keys[r]]
        /\ random_keys' = [random_keys EXCEPT ![r] = random_keys[last]]
  BY DEF Pool!Draw
<1>2. /\ random_keys \in [Pool!Indices -> Pool!Indices]
      /\ actual_keys \in [Pool!Indices -> Pool!Indices \cup {Pool!NoKey}]
      /\ num_elementstocreate \in Nat
      /\ i \in 0..num_elementstocreate /\ last = num_elementstocreate - 1 - i
  BY PoolSize DEF Pool!IInv, Pool!TypeOK
<1>3. /\ i < num_elementstocreate /\ i' = i + 1 /\ last' = last - 1
      /\ num_elementstocreate' = num_elementstocreate /\ Pool!Indices' = Pool!Indices
  BY DEF Pool!Draw, Pool!Indices
<1>4. /\ i \in Pool!Indices /\ last \in Pool!Indices /\ r \in Pool!Indices
      /\ 0..last \subseteq Pool!Indices /\ 0..last' \subseteq Pool!Indices
  BY <1>2, <1>3 DEF Pool!Indices
<1>5. Pool!TypeOK'
  <2>1. num_elementstocreate' \in {NumThreads * option.iterations : option \in Options}
    BY <1>3 DEF Pool!IInv, Pool!TypeOK
  <2>2. /\ random_keys' \in [Pool!Indices -> Pool!Indices]
        /\ actual_keys' \in [Pool!Indices -> Pool!Indices \cup {Pool!NoKey}]
    BY <1>1, <1>2, <1>4
  <2>3. i' \in 0..num_elementstocreate /\ last' = num_elementstocreate - 1 - i'
    BY <1>2, <1>3
  <2> HIDE DEF last
  <2> QED BY <1>3, <2>1, <2>2, <2>3 DEF Pool!TypeOK, last
<1>6. \A x \in 0..last' : random_keys'[x] = random_keys[IF x = r THEN last ELSE x]
  BY <1>1, <1>2, <1>4
<1>7. \A y \in Pool!Indices : actual_keys'[y] = IF y = i THEN random_keys[r] ELSE actual_keys[y]
  BY <1>1, <1>2, <1>4
<1>8. \A x \in 0..last' : /\ (IF x = r THEN last ELSE x) \in 0..last
                          /\ (IF x = r THEN last ELSE x) # r
  BY <1>2, <1>3
<1>9. Pool!KeysDistinct'
  <2> SUFFICES ASSUME NEW x \in Pool!Indices, NEW y \in Pool!Indices, x < i + 1, y < i + 1,
                      actual_keys'[x] = actual_keys'[y]
               PROVE  x = y
    BY <1>3 DEF Pool!KeysDistinct
  <2>1. x < i \/ x = i
    BY <1>2 DEF Pool!Indices
  <2>2. y < i \/ y = i
    BY <1>2 DEF Pool!Indices
  <2>3. \A z \in Pool!Indices : z < i => z # i /\ random_keys[r] # actual_keys[z]
    BY <1>2 DEF Pool!IInv, Pool!PoolInv, Pool!Indices
  <2> QED BY <1>7, <2>1, <2>2, <2>3 DEF Pool!IInv, Pool!KeysDistinct
<1>10. \A x, y \in 0..last' : random_keys'[x] = random_keys'[y] => x = y
  BY <1>6, <1>8, <1>2, <1>3 DEF Pool!IInv, Pool!PoolInv
<1>11. ASSUME NEW x \in 0..last', NEW y \in Pool!Indices, y < i + 1
       PROVE  random_keys'[x] # actual_keys'[y]
  <2>1. y < i \/ y = i
    BY <1>2, <1>11 DEF Pool!Indices
  <2>2. CASE y = i
    BY <2>2, <1>6, <1>7, <1>8, <1>4 DEF Pool!IInv, Pool!PoolInv
  <2>3. CASE y < i
    <3>1. actual_keys'[y] = actual_keys[y]
      BY <1>7, <1>2, <2>3
    <3>2. \A z \in 0..last : random_keys[z] # actual_keys[y]
      BY <2>3, <1>2 DEF Pool!IInv, Pool!PoolInv, Pool!Indices
    <3> QED BY <1>6, <1>8, <3>1, <3>2
  <2> QED BY <2>1, <2>2, <2>3
<1>12. ASSUME NEW k \in Pool!Indices
       PROVE  \/ \E x \in 0..last' : random_keys'[x] = k
              \/ \E y \in Pool!Indices : y < i + 1 /\ actual_keys'[y] = k
  <2>1. CASE \E y \in Pool!Indices : y < i /\ actual_keys[y] = k
    <3>1. PICK y \in Pool!Indices : y < i /\ actual_keys[y] = k
      BY <2>1
    <3>2. y < i + 1 /\ y # i
      BY <3>1, <1>2 DEF Pool!Indices
    <3> QED BY <3>1, <3>2, <1>7
  <2>2. CASE k = random_keys[r]
    BY <2>2, <1>7, <1>4, <1>2
  <2>3. ASSUME NEW x \in 0..last, random_keys[x] = k
        PROVE  x = r \/ \E z \in 0..last' : random_keys'[z] = k
    <3>1. CASE x = last /\ x # r
      <4>1. r \in 0..last'
        BY <3>1, <2>3, <1>2, <1>3
      <4> QED BY <4>1, <3>1, <2>3, <1>6
    <3>2. CASE x # last
      <4>1. x \in 0..last'
        BY <3>2, <2>3, <1>2, <1>3
      <4> QED BY <4>1, <2>3, <1>6
    <3> QED BY <3>1, <3>2
  <2>4. CASE \E x \in 0..last : random_keys[x] = k
    BY <2>2, <2>3, <2>4
  <2>5. \/ \E x \in 0..last : random_keys[x] = k
        \/ \E y \in Pool!Indices : y < i /\ actual_keys[y] = k
    BY DEF Pool!IInv, Pool!PoolInv
  <2> QED BY <2>1, <2>4, <2>5
<1>13. Pool!PoolInv'
  BY <1>10, <1>11, <1>12, <1>3 DEF Pool!PoolInv
<1> QED BY <1>5, <1>9, <1>13 DEF Pool!IInv

LEMMA PoolStutter ==
  Pool!IInv /\ UNCHANGED Pool!vars => Pool!IInv'
BY DEF Pool!IInv, Pool!TypeOK, Pool!KeysDistinct, Pool!PoolInv, Pool!vars, Pool!Indices

LEMMA PoolInductive ==
  Pool!Spec => []Pool!IInv
<1>1. Pool!IInv /\ [Pool!Next]_(Pool!vars) => Pool!IInv'
  BY PoolStutter, DrawKeepsPool DEF Pool!Next, Pool!Finished
<1>2. Pool!Init => Pool!IInv
  BY PoolInit
<1> QED BY <1>1, <1>2, PTL DEF Pool!Spec

(* generateKey() never gives the same key to two elements.                 *)
THEOREM Distinct ==
  Pool!Spec => []Pool!KeysDistinct
<1>1. Pool!IInv => Pool!KeysDistinct
  BY DEF Pool!IInv
<1> QED BY PoolInductive, <1>1, PTL

(* The keys are in the end a permutation of 0, ..., num_elements - 1.      *)
THEOREM Exhausted ==
  Pool!Spec => []Pool!KeysExhausted
<1>1. Pool!IInv => Pool!KeysExhausted
  <2> SUFFICES ASSUME Pool!IInv, i = num_elementstocreate, NEW k \in Pool!Indices
               PROVE  \E x \in Pool!Indices : actual_keys[x] = k
    BY DEF Pool!KeysExhausted
  <2>1. 0..random_keys_maxindex = {}
    BY DEF Pool!IInv, Pool!TypeOK
  <2> QED BY <2>1 DEF Pool!IInv, Pool!PoolInv
<1> QED BY PoolInductive, <1>1, PTL

-----------------------------------------------------------------------------
(* The elements get their keys in the order of list_elements, of which     *)
(* thread t has the numbers t, t + num_threads, ...                        *)

LEMMA Product ==
  ASSUME NEW n \in Nat, NEW a \in Int, NEW b \in Int, a <= b
  PROVE  n * a <= n * b
OBVIOUS

LEMMA Division ==
  ASSUME NEW n \in Nat \ {0}, NEW x \in Nat
  PROVE  x % n \in 0..(n - 1) /\ x \div n \in Nat /\ x = n * (x \div n) + (x % n)
OBVIOUS

LEMMA NotLess ==
  ASSUME NEW n \in Nat \ {0}, NEW a \in Nat, NEW b \in Nat, NEW t \in Nat, NEW u \in 0..(n - 1),
         n * a + u = n * b + t
  PROVE  ~ (a < b)
<1> SUFFICES ASSUME a < b PROVE FALSE
  OBVIOUS
<1>1. n * (a + 1) <= n * b
  BY Product
<1>2. n * (a + 1) = n * a + n
  OBVIOUS
<1>3. PICK v \in Int : v = n * a
  OBVIOUS
<1>4. PICK w \in Int : w = n * b
  OBVIOUS
<1> QED BY <1>1, <1>2, <1>3, <1>4

LEMMA Quotient ==
  ASSUME NEW n \in Nat \ {0}, NEW a \in Nat, NEW b \in Nat,
         NEW t \in 0..(n - 1), NEW u \in 0..(n - 1), n * a + t = n * b + u
  PROVE  a = b /\ t = u
<1>1. a = b
  BY NotLess
<1> QED BY <1>1

(* ElementAt numbers the elements that are used.                           *)
LEMMA Numbering ==
  ASSUME num_iterations \in 0..MaxIterations, num_elementstocreate = NumThreads * num_iterations
  PROVE  /\ \A x \in Pool!Indices : ElementAt(x) \in Used
         /\ \A e \in Used : \E x \in Pool!Indices : ElementAt(x) = e
         /\ \A x, y \in Pool!Indices : ElementAt(x) = ElementAt(y) => x = y
<1> DEFINE n == NumThreads
           k == num_iterations
<1>1. n \in Nat /\ k \in Nat /\ k <= MaxIterations /\ MaxIterations \in Nat
      /\ num_elementstocreate = n * k
  BY Lab2aAssumption
<1>2. Used = (0..(n - 1)) \X (0..(k - 1))
  BY <1>1, Lab2aAssumption DEF Used
<1>3. \A x \in Pool!Indices : x \in Nat /\ x < n * k /\ n # 0
  BY <1>1 DEF Pool!Indices
<1>4. ASSUME NEW x \in Pool!Indices
      PROVE  /\ x % n \in 0..(n - 1) /\ x \div n \in Nat /\ x = n * (x \div n) + (x % n)
             /\ ElementAt(x) = <<x % n, x \div n>>
  BY <1>1, <1>3, Division DEF ElementAt
<1> HIDE DEF n, k
<1>5. ASSUME NEW x \in Pool!Indices PROVE ElementAt(x) \in Used
  <2> DEFINE q == x \div n
             r == x % n
  <2>1. q \in Nat /\ r \in 0..(n - 1) /\ x = n * q + r /\ x < n * k
    BY <1>3, <1>4
  <2> HIDE DEF q, r
  <2>2. ASSUME k <= q PROVE FALSE
    <3>1. n * k <= n * q
      BY <1>1, <2>1, <2>2, Product
    <3>2. n * k \in Int /\ n * q \in Int
      BY <1>1, <2>1
    <3> QED BY <2>1, <3>1, <3>2
  <2>3. q \in 0..(k - 1)
    BY <1>1, <2>1, <2>2
  <2> QED BY <1>2, <1>4, <2>1, <2>3 DEF q, r
<1>6. ASSUME NEW e \in Used PROVE \E x \in Pool!Indices : ElementAt(x) = e
  <2>1. PICK t \in 0..(n - 1), j \in 0..(k - 1) : e = <<t, j>>
    BY <1>2
  <2>2. n \in Nat \ {0} /\ j \in Nat /\ j + 1 <= k
    BY <1>1
  <2>3. n * (j + 1) <= n * k /\ n * (j + 1) = n * j + n /\ n * j \in Nat
    BY <1>1, <2>2, Product
  <2> DEFINE x == n * j + t
  <2>4. x \in Pool!Indices
    <3>1. n * k \in Int
      BY <1>1
    <3> QED BY <1>1, <2>2, <2>3, <3>1 DEF Pool!Indices
  <2> HIDE DEF x
  <2>5. x % n = t /\ x \div n = j
    <3> DEFINE q == x \div n
               r == x % n
    <3>1. q \in Nat /\ r \in 0..(n - 1) /\ x = n * q + r
      BY <1>4, <2>4
    <3> HIDE DEF q, r
    <3>2. n * q + r = n * j + t
      BY <3>1 DEF x
    <3>3. q = j /\ r = t
      BY <2>2, <3>1, <3>2, Quotient
    <3> QED BY <3>3 DEF q, r
  <2> QED BY <1>4, <2>1, <2>4, <2>5
<1>7. ASSUME NEW x \in Pool!Indices, NEW y \in Pool!Indices, ElementAt(x) = ElementAt(y)
      PROVE  x = y
  BY <1>4, <1>7
<1> QED BY <1>5, <1>6, <1>7

(* What the keys of the pool say of the keys of the elements.              *)
LEMMA KeyInvFacts ==
  ASSUME KeyInv, num_iterations \in 0..MaxIterations
  PROVE  /\ KeysApart /\ Keyed \subseteq Used
         /\ i = num_elementstocreate =>
              /\ Keyed = Used
              /\ {key[e] : e \in Used} = 0..(num_elementstocreate - 1)
<1>1. /\ num_elementstocreate \in Nat /\ i \in 0..num_elementstocreate
      /\ actual_keys \in [Pool!Indices -> Pool!Indices \cup {Pool!NoKey}]
      /\ Pool!KeysDistinct /\ Pool!PoolInv /\ Pool!NoKey = -1
      /\ random_keys_maxindex = num_elementstocreate - 1 - i
  BY PoolSize DEF KeyInv, Pool!IInv, Pool!TypeOK, Pool!NoKey
<1>2. /\ \A x \in Pool!Indices : ElementAt(x) \in Used
      /\ \A e \in Used : \E x \in Pool!Indices : ElementAt(x) = e
  BY Numbering DEF KeyInv
<1>3. \A x \in Pool!Indices : x \in Nat /\ x < num_elementstocreate
  BY <1>1 DEF Pool!Indices
<1>4. \A x \in Pool!Indices : key[ElementAt(x)] = actual_keys[x]
  BY DEF KeyInv
<1>5. \A x \in Pool!Indices : actual_keys[x] \in Nat => x < i
  BY <1>1, <1>3 DEF KeyInv
<1>6. Keyed \subseteq Used
  BY <1>1 DEF KeyInv, Keyed
<1>7. KeysApart
  <2> SUFFICES ASSUME NEW e \in Keyed, NEW f \in Keyed, key[e] = key[f] PROVE e = f
    BY DEF KeysApart
  <2>1. PICK x \in Pool!Indices : ElementAt(x) = e
    BY <1>2, <1>6
  <2>2. PICK y \in Pool!Indices : ElementAt(y) = f
    BY <1>2, <1>6
  <2>3. actual_keys[x] = actual_keys[y] /\ actual_keys[x] \in Nat
    BY <1>4, <2>1, <2>2 DEF Keyed
  <2>4. x = y
    BY <1>1, <1>5, <2>3 DEF Pool!KeysDistinct
  <2> QED BY <2>1, <2>2, <2>4
<1>8. ASSUME i = num_elementstocreate
      PROVE  /\ Keyed = Used
             /\ {key[e] : e \in Used} = 0..(num_elementstocreate - 1)
  <2>1. 0..random_keys_maxindex = {}
    BY <1>1, <1>8
  <2>2. \A v \in Pool!Indices : \E x \in Pool!Indices : actual_keys[x] = v
    BY <2>1, <1>1 DEF Pool!PoolInv
  <2>3. \A x \in Pool!Indices : actual_keys[x] \in Pool!Indices
    BY <1>1, <1>3, <1>8 DEF KeyInv
  <2>4. \A e \in Used : \E x \in Pool!Indices : ElementAt(x) = e /\ key[e] = actual_keys[x]
    BY <1>2, <1>4
  <2>5. \A v \in Pool!Indices : \E e \in Used : key[e] = v
    BY <1>2, <1>4, <2>2
  <2>6. {key[e] : e \in Used} = Pool!Indices
    BY <2>3, <2>4, <2>5
  <2>7. Used \subseteq Keyed
    BY <1>3, <2>3, <2>4 DEF Used, Keyed
  <2> QED BY <1>6, <2>6, <2>7 DEF Pool!Indices
<1> QED BY <1>6, <1>7, <1>8

-----------------------------------------------------------------------------
(* The steps of an operation, whoever else is on the list.                 *)

(* An assignment inside an operation that is no load.                      *)
LEMMA BranchEffect ==
  ASSUME RegisterInv, NEW p \in Procs, NEW new, Set(p, new),
         "pc" \in DOMAIN new, DOMAIN new \subseteq {"pc", "elem", "count"},
         new["pc"] \notin IdleLabels,
         "elem" \in DOMAIN new => new["elem"] \in Values,
         "count" \in DOMAIN new => new["count"] \in Nat
  PROVE  /\ RegisterInv' /\ th'[p].pc = new["pc"]
         /\ th'[p].elem = IF "elem" \in DOMAIN new THEN new["elem"] ELSE th[p].elem
         /\ \A q \in Procs : q # p => th'[q] = th[q]
<1>1. /\ DOMAIN th' = Procs
      /\ \A q \in Procs : q # p => th'[q] = th[q]
      /\ DOMAIN th'[p] = DOMAIN new \cup DOMAIN th[p]
      /\ \A f \in DOMAIN new : th'[p][f] = new[f]
      /\ \A f \in DOMAIN th[p] : f \notin DOMAIN new => th'[p][f] = th[p][f]
  BY SetEffect DEF RegisterInv
<1>2. /\ {"pc", "count", "elem"} \subseteq DOMAIN th[p] /\ th[p].count \in Nat
      /\ \A v \in Registers : v \in DOMAIN th[p] /\ th[p][v] \in Values
  BY DEF RegisterInv, Registers
<1>3. /\ th'[p].pc = new["pc"] /\ {"pc", "count"} \subseteq DOMAIN th'[p]
      /\ th'[p].elem = IF "elem" \in DOMAIN new THEN new["elem"] ELSE th[p].elem
  BY <1>1, <1>2
<1>4. th'[p].count \in Nat
  BY <1>1, <1>2
<1>5. ASSUME NEW v \in Registers
      PROVE  v \in DOMAIN th'[p] /\ th'[p][v] \in Values
  <2>1. CASE v \in DOMAIN new
    <3>1. v = "elem"
      BY <2>1 DEF Registers
    <3> QED BY <1>1, <2>1, <3>1
  <2>2. CASE v \notin DOMAIN new
    BY <1>1, <1>2, <2>2
  <2> QED BY <2>1, <2>2
<1>6. ASSUME NEW q \in Procs
      PROVE  /\ {"pc", "count"} \subseteq DOMAIN th'[q]
             /\ th'[q].count \in Nat
             /\ \A v \in Registers : v \in DOMAIN th'[q] /\ th'[q][v] \in Values
             /\ th'[q].pc \in IdleLabels =>
                  th'[q].count = 0 /\ \A v \in Registers : th'[q][v] = Null
  <2>1. CASE q = p
    BY <1>3, <1>4, <1>5, <2>1
  <2>2. CASE q # p
    BY <1>1, <2>2 DEF RegisterInv
  <2> QED BY <2>1, <2>2
<1>7. RegisterInv'
  <2>1. Values' = Values
    BY DEF Values, Nodes, Heads
  <2> QED BY <1>1, <1>6, <2>1 DEF RegisterInv
<1> QED BY <1>1, <1>3, <1>7

(* Where a step of an operation leads.                                     *)
Reaches(p, labels) == th'[p].pc \in labels /\ th'[p].elem = th[p].elem

(* What lab2a's lookup hands to delete: a head, or an element with the key *)
(* that was looked for.                                                    *)
Finds(p) ==
  LET q == th'[p].elem IN
    /\ th'[p].pc = "delete"
    /\ q \in Heads \/ (q \in ListElements /\ key[q] = key[th[p].elem])

Leads(p) ==
  LET at == th[p].pc IN
  /\ at \in InsertLabels => Reaches(p, InsertLabels \cup {"done"})
  /\ at \in LengthLabels => Reaches(p, LengthLabels \cup {"done"})
  /\ at \in {"lookup", "seekOn"} => Reaches(p, {"lookup", "seekOn", "seek"})
  /\ at = "seek" => Reaches(p, {"seek", "seekOn"}) \/ Finds(p)
  /\ at = "delete" => Reaches(p, IF th[p].elem = Null THEN {"failed"} ELSE {"unlink1"})
  /\ at \in UnlinkLabels => Reaches(p, UnlinkLabels \cup {"done"})

(* Every access that a process makes, in a race or not.                    *)
LEMMA OperateEffect ==
  ASSUME RegisterInv, MemInv, NEW p \in Procs, Operate(p)
  PROVE  /\ RegisterInv' /\ MemInv'
         /\ \A q \in Procs : q # p => th'[q] = th[q]
         /\ Leads(p)
<1> DEFINE at == th[p].pc
           Good == /\ RegisterInv' /\ MemInv'
                   /\ \A q \in Procs : q # p => th'[q] = th[q]
                   /\ Leads(p)
<1>1. "elem" \in Registers /\ {"curr", "tmp", "val"} \subseteq Registers
  BY DEF Registers
<1>2. mem' = mem => MemInv'
  BY DEF MemInv, Values, Nodes, Heads
<1>3. CASE Load(p)
  <2>1. /\ at \in DOMAIN Loads /\ th'[p].pc = Loads[at][4] /\ mem' = mem /\ RegisterInv'
        /\ \A v \in Registers \ {Loads[at][3]} : th'[p][v] = th[p][v]
        /\ \A q \in Procs : q # p => th'[q] = th[q]
    BY <1>3, LoadEffect
  <2>2. th'[p].elem = th[p].elem
    BY <1>1, <2>1, LoadCode
  <2>3. Leads(p)
    BY <2>1, <2>2, LoadTable, LabelFacts DEF Leads, Reaches, UnlinkLabels, LengthLabels
  <2> QED BY <1>2, <2>1, <2>3
<1>4. CASE Store(p)
  <2>1. /\ at \in DOMAIN Stores /\ th'[p].pc = Stores[at][4] /\ RegisterInv' /\ MemInv'
        /\ \A v \in Registers : th'[p][v] = th[p][v]
        /\ \A q \in Procs : q # p => th'[q] = th[q]
    BY <1>4, StoreEffect
  <2>2. th'[p].elem = th[p].elem
    BY <1>1, <2>1
  <2>3. Leads(p)
    BY <2>1, <2>2, StoreTable, LabelFacts DEF Leads, Reaches, UnlinkLabels, LengthLabels
  <2> QED BY <2>1, <2>3
<1>5. ASSUME NEW label, label \notin IdleLabels, Set(p, [pc |-> label]), mem' = mem,
             Reaches(p, {label}) => Leads(p)
      PROVE  Good
  <2> DEFINE new == [pc |-> label]
  <2>1. DOMAIN new = {"pc"} /\ new["pc"] = label
    OBVIOUS
  <2> HIDE DEF new
  <2>2. Set(p, new)
    BY <1>5 DEF new
  <2>3. /\ RegisterInv' /\ th'[p].pc = label /\ th'[p].elem = th[p].elem
        /\ \A q \in Procs : q # p => th'[q] = th[q]
    BY <1>5, <2>1, <2>2, BranchEffect
  <2> QED BY <1>2, <1>5, <2>3 DEF Reaches
<1>6. CASE TestEmpty(p)
  <2>1. mem' = mem /\ at \in {"insert", "insertPrev"}
    BY <1>6 DEF TestEmpty, On
  <2>2. \E label \in {"insertPrev", "first", "only1"} : Set(p, [pc |-> label])
    BY <1>6 DEF TestEmpty
  <2>3. \A label \in {"insertPrev", "first", "only1"} : Reaches(p, {label}) => Leads(p)
    BY <2>1, LabelFacts DEF Leads, Reaches, UnlinkLabels, LengthLabels
  <2> QED BY <1>5, <2>1, <2>2, <2>3 DEF IdleLabels
<1>7. CASE Walk(p)
  <2>1. mem' = mem /\ at = "walk"
    BY <1>7 DEF Walk, On
  <2>2. \E label \in {"link1", "walkOn"} : Set(p, [pc |-> label])
    BY <1>7 DEF Walk
  <2>3. \A label \in {"link1", "walkOn"} : Reaches(p, {label}) => Leads(p)
    BY <2>1, LabelFacts DEF Leads, Reaches, UnlinkLabels, LengthLabels
  <2> QED BY <1>5, <2>1, <2>2, <2>3 DEF IdleLabels
<1>8. CASE TestElement(p)
  <2>1. mem' = mem /\ at = "delete"
    BY <1>8 DEF TestElement, On
  <2> DEFINE label == IF th[p].elem = Null THEN "failed" ELSE "unlink1"
  <2>2. Set(p, [pc |-> label])
    BY <1>8 DEF TestElement
  <2>3. Reaches(p, {label}) => Leads(p)
    BY <2>1, LabelFacts DEF Leads, Reaches, UnlinkLabels, LengthLabels
  <2>4. label \notin IdleLabels
    BY DEF IdleLabels
  <2> HIDE DEF label
  <2> QED BY <1>5, <2>1, <2>2, <2>3, <2>4
<1>9. CASE Seek(p)
  <2> DEFINE q == th[p].curr
  <2>1. mem' = mem /\ at = "seek" /\ ~SelfLoopCheck
    BY <1>9, Lab2aAssumption DEF Seek, On
  <2>2. \/ q # Null /\ IsHead(q) /\ Found(p, q)
        \/ q # Null /\ ~IsHead(q) /\ key[q] = key[th[p].elem] /\ Found(p, q)
        \/ Set(p, [pc |-> "seekOn"])
    BY <1>9, <2>1 DEF Seek, SelfLoop
  <2>3. CASE Set(p, [pc |-> "seekOn"])
    <3>1. Reaches(p, {"seekOn"}) => Leads(p)
      BY <2>1, LabelFacts DEF Leads, Reaches, UnlinkLabels, LengthLabels
    <3> QED BY <1>5, <2>1, <2>3, <3>1 DEF IdleLabels
  <2>4. ASSUME Found(p, q), q # Null, IsHead(q) \/ key[q] = key[th[p].elem] PROVE Good
    <3> DEFINE new == [pc |-> "delete", elem |-> q]
    <3>1. DOMAIN new = {"pc", "elem"} /\ new["pc"] = "delete" /\ new["elem"] = q
      OBVIOUS
    <3>2. q \in Nodes
      BY <1>1, <2>4 DEF RegisterInv, Values
    <3> HIDE DEF new
    <3>3. Set(p, new)
      BY <2>4 DEF Found, new
    <3>4. "delete" \notin IdleLabels /\ q \in Values
      BY <3>2 DEF IdleLabels, Values
    <3>5. /\ RegisterInv' /\ th'[p].pc = "delete" /\ th'[p].elem = q
          /\ \A r \in Procs : r # p => th'[r] = th[r]
      BY <3>1, <3>3, <3>4, BranchEffect
    <3>6. Finds(p)
      BY <2>4, <3>2, <3>5 DEF Finds, IsHead, Nodes
    <3>7. Leads(p)
      BY <2>1, <3>6, LabelFacts DEF Leads, UnlinkLabels, LengthLabels
    <3> QED BY <1>2, <2>1, <3>5, <3>7
  <2> QED BY <2>2, <2>3, <2>4
<1>10. CASE Count(p)
  <2>1. mem' = mem /\ at = "count"
    BY <1>10 DEF Count, On
  <2>2. Reaches(p, {"done"}) \/ Reaches(p, {"countOn"}) => Leads(p)
    BY <2>1, LabelFacts DEF Leads, Reaches, UnlinkLabels, LengthLabels
  <2>3. CASE Set(p, [pc |-> "done"])
    BY <1>5, <2>1, <2>2, <2>3 DEF IdleLabels
  <2>4. ASSUME NEW n \in Nat, Set(p, [pc |-> "countOn", count |-> n]) PROVE Good
    <3> DEFINE new == [pc |-> "countOn", count |-> n]
    <3>1. DOMAIN new = {"pc", "count"} /\ new["pc"] = "countOn" /\ new["count"] = n
      OBVIOUS
    <3> HIDE DEF new
    <3>2. Set(p, new) /\ "countOn" \notin IdleLabels
      BY <2>4 DEF new, IdleLabels
    <3>3. /\ RegisterInv' /\ th'[p].pc = "countOn" /\ th'[p].elem = th[p].elem
          /\ \A q \in Procs : q # p => th'[q] = th[q]
      BY <3>1, <3>2, BranchEffect
    <3> QED BY <1>2, <2>1, <2>2, <3>3 DEF Reaches
  <2>5. \/ Set(p, [pc |-> "done"])
        \/ \E n \in Nat : Set(p, [pc |-> "countOn", count |-> n])
    <3>1. th[p].count \in Nat /\ CountCap \in Nat
      BY SortedListAssumption DEF RegisterInv
    <3> QED BY <1>10, <3>1 DEF Count
  <2> QED BY <2>3, <2>4, <2>5
<1>11. CASE SegFault(p)
  <2>1. mem' = mem /\ th' = th
    BY <1>11 DEF SegFault
  <2>2. RegisterInv'
    BY <2>1 DEF RegisterInv, Values, Nodes, Heads
  <2>3. at # "delete"
    BY <1>11, LoadTable, StoreTable DEF SegFault, FollowsNull
  <2>4. Leads(p)
    BY <2>1, <2>3 DEF Leads, Reaches
  <2> QED BY <1>2, <2>1, <2>2, <2>4
<1> QED BY <1>3, <1>4, <1>6, <1>7, <1>8, <1>9, <1>10, <1>11 DEF Operate

-----------------------------------------------------------------------------
(* RaceInv, step by step.                                                  *)

LEMMA ThreadFacts ==
  /\ \A t \in Threads : t \in Procs /\ t # MainProc /\ t # NoThread /\ t \in Nat
  /\ MainProc \in Procs
  /\ HeadIds = {0} /\ Heads = {list_head} /\ list_head \in Values
  /\ list_head \notin ListElements
  /\ \A e \in ListElements :
       e[1] \in Threads /\ e[2] \in Nat /\ e = <<e[1], e[2]>> /\ e[2] < MaxIterations
BY Lab2aAssumption, NodeFacts DEF Threads, MainProc, NoThread, Heads, Head, list_head, Values, Nodes

LEMMA ElementFacts ==
  ASSUME RaceInv, NEW t \in Threads
  PROVE  /\ turn[t] \in Nat /\ turn[t] <= num_iterations
         /\ num_iterations \in Nat /\ num_iterations <= MaxIterations
         /\ turn[t] < num_iterations =>
              Element(t) \in Used /\ Element(t) \in ListElements /\ Element(t) \in Values
<1>1. /\ turn[t] \in 0..num_iterations /\ num_iterations \in 0..MaxIterations
      /\ MaxIterations \in Nat /\ NumThreads \in Nat
      /\ ListElements = (0..(NumThreads - 1)) \X (0..(MaxIterations - 1))
  BY Lab2aAssumption DEF RaceInv
<1>2. /\ turn[t] \in Nat /\ turn[t] <= num_iterations
      /\ num_iterations \in Nat /\ num_iterations <= MaxIterations
  BY <1>1
<1>3. turn[t] < num_iterations => Element(t) \in ListElements /\ Element(t)[2] = turn[t]
  BY <1>1, <1>2 DEF Element, Threads
<1> QED BY <1>2, <1>3 DEF Used, Values, Nodes

LEMMA KeyInvKept ==
  ASSUME KeyInv, UNCHANGED <<key, num_iterations, pool>>
  PROVE  KeyInv'
<1>1. Pool!IInv'
  <2>1. UNCHANGED Pool!vars
    BY DEF pool, Pool!vars
  <2> QED BY <2>1, PoolStutter DEF KeyInv
<1>2. Pool!Indices' = Pool!Indices /\ Used' = Used
  BY DEF pool, Pool!Indices, Used
<1>3. \A x : ElementAt(x)' = ElementAt(x)
  BY DEF ElementAt
<1> QED BY <1>1, <1>2, <1>3 DEF KeyInv, pool

LEMMA ControlKept ==
  ASSUME NEW t, ControlInv(t), th'[t] = th[t], phase'[t] = phase[t], turn'[t] = turn[t],
         num_iterations' = num_iterations
  PROVE  ControlInv(t)'
<1>1. (Operates(t)' <=> Operates(t)) /\ Element(t)' = Element(t)
  BY DEF Operates, Element
<1> QED BY <1>1 DEF ControlInv

(* A step of one thread says nothing of the others.                        *)
LEMMA ThreadKeepsRace ==
  ASSUME RaceInv, NEW t \in Threads, th[t].pc \notin {"unborn", "returned"},
         UNCHANGED <<setup, main, t_main>>, MemInv', RegisterInv',
         \A q \in Procs : q # t => th'[q] = th[q],
         phase' \in [Threads -> {"insert", "count", "delete"}],
         turn' \in [Threads -> 0..num_iterations],
         \A s \in Threads : s # t => phase'[s] = phase[s] /\ turn'[s] = turn[s],
         ControlInv(t)'
  PROVE  RaceInv'
<1>1. UNCHANGED <<key, sync, num_iterations, pool>> /\ UNCHANGED <<i, num_elementstocreate>>
  BY DEF setup, pool
<1>2. KeyInv'
  BY <1>1, KeyInvKept DEF RaceInv
<1>3. ASSUME NEW s \in Threads PROVE ControlInv(s)'
  <2>1. CASE s = t
    BY <2>1
  <2>2. CASE s # t
    BY <1>1, <2>2, ThreadFacts, ControlKept DEF RaceInv
  <2> QED BY <2>1, <2>2
<1>4. MainInv'
  <2>1. MainInv
    BY DEF RaceInv
  <2>2. main \notin {"keys", "check"} /\ (main = "create" => ~(t >= t_main))
        /\ (main = "join" => ~(t < t_main))
    BY <2>1 DEF MainInv
  <2>3. th[MainProc].pc = "unborn" /\ th'[MainProc] = th[MainProc]
    BY <2>1, <2>2, ThreadFacts DEF MainInv
  <2> QED BY <1>1, <2>1, <2>2, <2>3, ThreadFacts DEF MainInv
<1> QED BY <1>1, <1>2, <1>3, <1>4 DEF RaceInv

(* A step of one thread from one place between operations to another.      *)
LEMMA IdleKeepsRace ==
  ASSUME RaceInv, NEW t \in Threads, th[t].pc \notin {"unborn", "returned"},
         UNCHANGED <<mem, setup, main, t_main>>,
         NEW at \in {"loop", "unlock", "returned"},
         \/ th[t].pc \in IdleLabels /\ Set(t, [pc |-> at])
         \/ Set(t, Idle(at)),
         phase' \in [Threads -> {"insert", "count", "delete"}],
         turn' \in [Threads -> 0..num_iterations],
         \A s \in Threads : s # t => phase'[s] = phase[s] /\ turn'[s] = turn[s],
         at = "loop" => phase'[t] # "count",
         at # "loop" => phase'[t] = "delete" /\ turn'[t] = num_iterations
  PROVE  /\ RaceInv' /\ th'[t].pc = at /\ \A q \in Procs : q # t => th'[q] = th[q]
<1>1. at \in IdleLabels
  BY DEF IdleLabels
<1>2. /\ RegisterInv' /\ th'[t].pc = at
      /\ \A q \in Procs : q # t => th'[q] = th[q]
  BY <1>1, SetIdle, ThreadFacts DEF RaceInv
<1>3. MemInv'
  BY DEF RaceInv, MemInv, Values, Nodes, Heads
<1>4. ControlInv(t)'
  <2>1. at \notin InsertLabels \cup LookupLabels \cup UnlinkLabels \cup LengthLabels
    BY LabelFacts DEF LookupLabels, UnlinkLabels, LengthLabels
  <2>2. at \notin {"unborn", "lock", "lookup", "seek", "seekOn", "delete"}
    OBVIOUS
  <2>3. num_iterations' = num_iterations /\ ~Operates(t)'
    BY <1>1, <1>2 DEF setup, Operates
  <2> QED BY <1>1, <1>2, <2>1, <2>2, <2>3 DEF ControlInv
<1> QED BY <1>2, <1>3, <1>4, ThreadKeepsRace

LEMMA LockKeepsRace ==
  ASSUME RaceInv, NEW t \in Threads, Lock(t)
  PROVE  RaceInv' /\ th'[t].pc = "loop" /\ \A q \in Procs : q # t => th'[q] = th[q]
<1>1. th[t].pc = "lock" /\ Set(t, [pc |-> "loop"]) /\ UNCHANGED <<mem, setup, phase, turn, main, t_main>>
  BY DEF Lock, On
<1>2. phase[t] = "insert" /\ th[t].pc \in IdleLabels /\ th[t].pc \notin {"unborn", "returned"}
  BY <1>1 DEF RaceInv, ControlInv, IdleLabels
<1>3. /\ phase' \in [Threads -> {"insert", "count", "delete"}]
      /\ turn' \in [Threads -> 0..num_iterations]
  BY <1>1 DEF RaceInv
<1>4. PICK at \in {"loop", "unlock", "returned"} : at = "loop"
  OBVIOUS
<1> QED BY <1>1, <1>2, <1>3, <1>4, IdleKeepsRace

LEMMA UnlockKeepsRace ==
  ASSUME RaceInv, NEW t \in Threads, Unlock(t)
  PROVE  RaceInv' /\ th'[t].pc = "returned" /\ \A q \in Procs : q # t => th'[q] = th[q]
<1>1. th[t].pc = "unlock" /\ Set(t, Idle("returned")) /\ UNCHANGED <<mem, setup, phase, turn, main, t_main>>
  BY DEF Unlock, On
<1>2. phase[t] = "delete" /\ turn[t] = num_iterations
  BY <1>1 DEF RaceInv, ControlInv
<1>3. /\ phase' \in [Threads -> {"insert", "count", "delete"}]
      /\ turn' \in [Threads -> 0..num_iterations]
  BY <1>1 DEF RaceInv
<1>4. PICK at \in {"loop", "unlock", "returned"} : at = "returned"
  OBVIOUS
<1> QED BY <1>1, <1>2, <1>3, <1>4, IdleKeepsRace

(* The next turn of a loop, or the next loop.                              *)
LEMMA NextTurnKeepsRace ==
  ASSUME RaceInv, NEW t \in Threads, NextTurn(t)
  PROVE  /\ RaceInv' /\ th'[t].pc = "loop" /\ \A q \in Procs : q # t => th'[q] = th[q]
         /\ turn[t] < num_iterations /\ turn'[t] = turn[t] + 1
<1>1. /\ th[t].pc = "done" /\ phase[t] # "count" /\ Set(t, Idle("loop"))
      /\ turn' = [turn EXCEPT ![t] = turn[t] + 1]
      /\ UNCHANGED <<mem, setup, phase, main, t_main>>
  BY DEF NextTurn, On
<1>2. turn \in [Threads -> 0..num_iterations] /\ turn[t] < num_iterations
  BY <1>1 DEF RaceInv, ControlInv, Operates, IdleLabels
<1>3. turn[t] + 1 \in 0..num_iterations
  BY <1>2, ElementFacts
<1>4. /\ phase' \in [Threads -> {"insert", "count", "delete"}]
      /\ turn' \in [Threads -> 0..num_iterations] /\ turn'[t] = turn[t] + 1
      /\ \A s \in Threads : s # t => turn'[s] = turn[s]
  BY <1>1, <1>2, <1>3 DEF RaceInv
<1>5. PICK at \in {"loop", "unlock", "returned"} : at = "loop"
  OBVIOUS
<1> QED BY <1>1, <1>2, <1>4, <1>5, IdleKeepsRace

LEMMA CheckSizeKeepsRace ==
  ASSUME RaceInv, NEW t \in Threads, CheckSize(t), th[t].count = num_iterations
  PROVE  /\ RaceInv' /\ th'[t].pc = "loop" /\ \A q \in Procs : q # t => th'[q] = th[q]
         /\ phase'[t] = "delete" /\ turn'[t] = 0
<1>1. /\ th[t].pc = "done" /\ phase[t] = "count" /\ Set(t, Idle("loop"))
      /\ phase' = [phase EXCEPT ![t] = "delete"] /\ turn' = [turn EXCEPT ![t] = 0]
      /\ UNCHANGED <<mem, setup, main, t_main>>
  BY DEF CheckSize, On
<1>2. 0 \in 0..num_iterations
  BY ElementFacts
<1>3. /\ phase' \in [Threads -> {"insert", "count", "delete"}] /\ phase'[t] = "delete"
      /\ turn' \in [Threads -> 0..num_iterations] /\ turn'[t] = 0
      /\ \A s \in Threads : s # t => phase'[s] = phase[s] /\ turn'[s] = turn[s]
  BY <1>1, <1>2 DEF RaceInv
<1>4. PICK at \in {"loop", "unlock", "returned"} : at = "loop"
  OBVIOUS
<1> QED BY <1>1, <1>3, <1>4, IdleKeepsRace

LEMMA CheckFailsKeepsRace ==
  ASSUME RaceInv, NEW t \in Threads, CheckSize(t), th[t].count # num_iterations
  PROVE  RaceInv'
<1>1. th[t].pc = "done" /\ UNCHANGED <<mem, th, phase, turn, setup, main, t_main>>
  BY DEF CheckSize, On
<1>2. RegisterInv' /\ MemInv'
  BY <1>1 DEF RaceInv, RegisterInv, MemInv, Values, Nodes, Heads
<1>3. ControlInv(t)'
  BY <1>1 DEF RaceInv, ControlInv, Operates, Element, setup
<1> QED BY <1>1, <1>2, <1>3, ThreadKeepsRace DEF RaceInv

(* The call of an operation, at the head of a loop.                        *)
LEMMA CallFields ==
  ASSUME NEW t \in Threads, RaceInv, LoopHead(t),
         turn[t] < num_iterations \/ phase[t] = "insert"
  PROVE  /\ RegisterInv' /\ th'[t].list = list_head /\ th'[t].count = 0
         /\ \A q \in Procs : q # t => th'[q] = th[q]
         /\ \/ /\ turn[t] < num_iterations /\ phase[t] = "insert" /\ UNCHANGED phase
               /\ th'[t].pc = "insert" /\ th'[t].elem = Element(t)
            \/ /\ turn[t] < num_iterations /\ phase[t] = "delete" /\ UNCHANGED phase
               /\ th'[t].pc = "lookup" /\ th'[t].elem = Element(t)
            \/ /\ turn[t] = num_iterations /\ phase[t] = "insert"
               /\ phase' = [phase EXCEPT ![t] = "count"] /\ th'[t].pc = "length"
<1>1. th[t].pc = "loop"
  BY DEF LoopHead, On
<1>2. /\ phase[t] \in {"insert", "delete"} /\ th[t].pc \in IdleLabels
      /\ RegisterInv /\ t \in Procs /\ list_head \in Values
  BY <1>1, ThreadFacts DEF RaceInv, ControlInv, IdleLabels
<1>3. CASE /\ turn[t] < num_iterations /\ UNCHANGED phase
           /\ Set(t, [pc |-> Operation[phase[t]], list |-> list_head, elem |-> Element(t)])
  <2> DEFINE new == [pc |-> Operation[phase[t]], list |-> list_head, elem |-> Element(t)]
  <2>1. /\ DOMAIN new = {"pc", "list", "elem"} /\ new["list"] = list_head
        /\ new["elem"] = Element(t)
        /\ new["pc"] = IF phase[t] = "insert" THEN "insert" ELSE "lookup"
    BY <1>2 DEF Operation
  <2>2. Set(t, new)
    BY <1>3
  <2> HIDE DEF new
  <2>3. Element(t) \in Values /\ new["pc"] \notin IdleLabels
    BY <1>3, <2>1, ElementFacts DEF IdleLabels
  <2>4. /\ RegisterInv' /\ th'[t].pc = new["pc"] /\ th'[t].list = list_head
        /\ th'[t].elem = Element(t) /\ th'[t].count = 0
        /\ \A q \in Procs : q # t => th'[q] = th[q]
    BY <1>2, <2>1, <2>2, <2>3, SetCall
  <2> QED BY <1>2, <1>3, <2>1, <2>4
<1>4. CASE /\ turn[t] = num_iterations /\ phase[t] = "insert"
           /\ phase' = [phase EXCEPT ![t] = "count"]
           /\ Set(t, [pc |-> "length", list |-> list_head])
  <2> DEFINE new == [pc |-> "length", list |-> list_head]
  <2>1. DOMAIN new = {"pc", "list"} /\ new["list"] = list_head /\ new["pc"] = "length"
    OBVIOUS
  <2>2. Set(t, new)
    BY <1>4
  <2> HIDE DEF new
  <2>3. new["pc"] \notin IdleLabels
    BY <2>1 DEF IdleLabels
  <2>4. /\ RegisterInv' /\ th'[t].pc = "length" /\ th'[t].list = list_head
        /\ th'[t].count = 0
        /\ \A q \in Procs : q # t => th'[q] = th[q]
    BY <1>2, <2>1, <2>2, <2>3, SetCall
  <2> QED BY <1>4, <2>4
<1> QED BY <1>3, <1>4, ElementFacts DEF LoopHead

LEMMA LoopHeadKeepsRace ==
  ASSUME RaceInv, NEW t \in Threads, LoopHead(t)
  PROVE  RaceInv'
<1>1. /\ th[t].pc = "loop" /\ UNCHANGED <<mem, setup, outcome, lock, turn, main, t_main>>
  BY DEF LoopHead, On
<1>2. phase[t] \in {"insert", "delete"} /\ th[t].pc \notin {"unborn", "returned"}
      /\ th[t].pc \in IdleLabels
  BY <1>1 DEF RaceInv, ControlInv, IdleLabels
<1>3. turn' \in [Threads -> 0..num_iterations]
  BY <1>1 DEF RaceInv
<1>4. num_iterations' = num_iterations /\ Element(t)' = Element(t)
  BY <1>1 DEF setup, Element
<1>5. CASE turn[t] = num_iterations /\ phase[t] = "delete"
  <2>1. UNCHANGED phase /\ Set(t, [pc |-> "unlock"])
    BY <1>5, ElementFacts DEF LoopHead
  <2>2. PICK at \in {"loop", "unlock", "returned"} : at = "unlock"
    OBVIOUS
  <2>3. phase' \in [Threads -> {"insert", "count", "delete"}]
    BY <2>1 DEF RaceInv
  <2> QED BY <1>1, <1>2, <1>3, <1>5, <2>1, <2>2, <2>3, IdleKeepsRace
<1>6. CASE turn[t] < num_iterations \/ phase[t] = "insert"
  <2>1. /\ RegisterInv'
        /\ \A q \in Procs : q # t => th'[q] = th[q]
        /\ \/ /\ turn[t] < num_iterations /\ phase[t] = "insert" /\ UNCHANGED phase
              /\ th'[t].pc = "insert" /\ th'[t].elem = Element(t)
           \/ /\ turn[t] < num_iterations /\ phase[t] = "delete" /\ UNCHANGED phase
              /\ th'[t].pc = "lookup" /\ th'[t].elem = Element(t)
           \/ /\ turn[t] = num_iterations /\ phase[t] = "insert"
              /\ phase' = [phase EXCEPT ![t] = "count"] /\ th'[t].pc = "length"
    BY <1>6, CallFields
  <2>2. /\ phase' \in [Threads -> {"insert", "count", "delete"}]
        /\ \A s \in Threads : s # t => phase'[s] = phase[s]
        /\ th'[t].pc = "length" => phase'[t] = "count"
    BY <2>1 DEF RaceInv
  <2>3. ControlInv(t)'
    BY <1>1, <1>4, <2>1, <2>2, LabelFacts
       DEF ControlInv, Operates, IdleLabels, LookupLabels, UnlinkLabels, LengthLabels
  <2>4. MemInv'
    BY <1>1 DEF RaceInv, MemInv, Values, Nodes, Heads
  <2> QED BY <1>1, <1>2, <1>3, <2>1, <2>2, <2>3, <2>4, ThreadKeepsRace
<1> QED BY <1>5, <1>6 DEF LoopHead

(* Any access of any operation, in a race or not.  A lookup finds the key  *)
(* that no other element has, or comes to the head.                        *)
LEMMA OperatingKeepsRace ==
  ASSUME RaceInv, NEW t \in Threads, Operating(t)
  PROVE  RaceInv'
<1> DEFINE at == th[t].pc
<1>1. /\ Operate(t) /\ UNCHANGED <<setup, phase, turn, main, t_main>>
  BY DEF Operating
<1>2. at \notin IdleLabels \cup {"done"} /\ Operates(t)
  BY <1>1, OperateLabels DEF Operates
<1>3. /\ RegisterInv' /\ MemInv' /\ \A q \in Procs : q # t => th'[q] = th[q]
      /\ Leads(t)
  BY <1>1, OperateEffect, ThreadFacts DEF RaceInv
<1>4. ControlInv(t)
  BY DEF RaceInv
<1>5. at \in InsertLabels \cup LookupLabels \cup UnlinkLabels \cup LengthLabels
  BY <1>2, <1>4 DEF ControlInv
<1>6. turn[t] \in Nat /\ num_iterations \in Nat
  BY ElementFacts
<1>7. ASSUME at = "seek", Finds(t)
      PROVE  th'[t].elem \in {Element(t), list_head}
  <2>1. main # "keys"
    BY <1>2 DEF RaceInv, MainInv, IdleLabels
  <2>2. KeysApart /\ Keyed = Used
    BY <2>1, KeyInvFacts DEF RaceInv, MainInv
  <2>3. th[t].elem = Element(t) /\ turn[t] < num_iterations
    <3>1. phase[t] = "delete"
      BY <1>4, <1>7 DEF ControlInv, LookupLabels
    <3> QED BY <1>2, <1>4, <1>7, <3>1 DEF ControlInv
  <2>4. Element(t) \in Keyed /\ key[Element(t)] \in Nat
    BY <2>2, <2>3, ElementFacts DEF Keyed
  <2>5. CASE th'[t].elem \in Heads
    BY <2>5, ThreadFacts
  <2>6. CASE th'[t].elem \in ListElements /\ key[th'[t].elem] = key[th[t].elem]
    <3>1. th'[t].elem \in Keyed
      BY <2>3, <2>4, <2>6 DEF Keyed
    <3> QED BY <2>2, <2>3, <2>4, <2>6, <3>1 DEF KeysApart
  <2> QED BY <1>7, <2>5, <2>6 DEF Finds
<1>8. at = "delete" => th[t].elem # Null
  <2>1. Null # list_head /\ (turn[t] < num_iterations => Element(t) # Null)
    BY ElementFacts, NodeFacts, ThreadFacts DEF Heads
  <2> QED BY <1>2, <1>4, <2>1 DEF ControlInv, LookupLabels
<1>9. num_iterations' = num_iterations /\ Element(t)' = Element(t)
  BY <1>1 DEF setup, Element
<1>10. ControlInv(t)'
  <2>1. CASE at \in InsertLabels
    <3>1. th'[t].pc \in InsertLabels \cup {"done"} /\ th'[t].elem = th[t].elem
      BY <1>3, <2>1 DEF Leads, Reaches
    <3>2. phase[t] = "insert" /\ th[t].elem = Element(t) /\ turn[t] < num_iterations
      BY <1>2, <1>4, <2>1 DEF ControlInv
    <3> QED BY <1>1, <1>9, <3>1, <3>2, LabelFacts
        DEF ControlInv, Operates, IdleLabels, LookupLabels, UnlinkLabels, LengthLabels
  <2>2. CASE at \in LengthLabels
    <3>1. th'[t].pc \in LengthLabels \cup {"done"}
      BY <1>3, <2>2 DEF Leads, Reaches
    <3>2. phase[t] = "count" /\ turn[t] = num_iterations
      BY <1>2, <1>4, <2>2 DEF ControlInv
    <3> QED BY <1>1, <1>9, <3>1, <3>2, LabelFacts
        DEF ControlInv, Operates, IdleLabels, LookupLabels, UnlinkLabels, LengthLabels
  <2>3. CASE at \in LookupLabels \cup UnlinkLabels
    <3>1. phase[t] = "delete" /\ turn[t] < num_iterations
      BY <1>2, <1>4, <2>3 DEF ControlInv
    <3>2. \/ /\ at \in {"lookup", "seek", "seekOn"} /\ th'[t].pc \in {"lookup", "seek", "seekOn"}
             /\ th'[t].elem = th[t].elem
          \/ at = "seek" /\ Finds(t)
          \/ /\ at \in UnlinkLabels \cup {"delete"} /\ th'[t].pc \in UnlinkLabels \cup {"done"}
             /\ th'[t].elem = th[t].elem
      BY <1>3, <1>8, <2>3 DEF Leads, Reaches, LookupLabels, UnlinkLabels
    <3>3. /\ at \in {"lookup", "seek", "seekOn"} => th[t].elem = Element(t)
          /\ at \in UnlinkLabels \cup {"delete"} => th[t].elem \in {Element(t), list_head}
      BY <1>4 DEF ControlInv
    <3>4. Finds(t) => th'[t].pc = "delete"
      BY DEF Finds
    <3> QED BY <1>1, <1>7, <1>9, <3>1, <3>2, <3>3, <3>4, LabelFacts
        DEF ControlInv, Operates, IdleLabels, LookupLabels, UnlinkLabels, LengthLabels
  <2> QED BY <1>5, <2>1, <2>2, <2>3
<1>11. /\ phase' \in [Threads -> {"insert", "count", "delete"}]
       /\ turn' \in [Threads -> 0..num_iterations]
  BY <1>1 DEF RaceInv
<1> QED BY <1>1, <1>2, <1>3, <1>10, <1>11, ThreadKeepsRace DEF IdleLabels

LEMMA ThreadStepKeepsRace ==
  ASSUME RaceInv, NEW t \in Threads, Thread(t)
  PROVE  RaceInv'
BY LockKeepsRace, LoopHeadKeepsRace, OperatingKeepsRace, NextTurnKeepsRace, CheckSizeKeepsRace,
   CheckFailsKeepsRace, UnlockKeepsRace DEF Thread

(* main() draws a key: no other element has it, and no thread runs yet.    *)
LEMMA GenerateKeepsKeys ==
  ASSUME KeyInv, num_iterations \in 0..MaxIterations, GenerateKey
  PROVE  KeyInv'
<1>1. /\ Pool!Draw /\ key' = [key EXCEPT ![ElementAt(i)] = actual_keys'[i]]
      /\ UNCHANGED num_iterations
  BY DEF GenerateKey
<1>2. /\ num_elementstocreate \in Nat /\ i \in 0..num_elementstocreate
      /\ random_keys \in [Pool!Indices -> Pool!Indices]
      /\ actual_keys \in [Pool!Indices -> Pool!Indices \cup {Pool!NoKey}] /\ Pool!NoKey = -1
      /\ random_keys_maxindex = num_elementstocreate - 1 - i
  BY PoolSize DEF KeyInv, Pool!IInv, Pool!TypeOK, Pool!NoKey
<1>3. PICK r \in 0..random_keys_maxindex : actual_keys' = [actual_keys EXCEPT ![i] = random_keys[r]]
  BY <1>1 DEF Pool!Draw
<1>4. /\ i < num_elementstocreate /\ i' = i + 1 /\ UNCHANGED num_elementstocreate
      /\ Pool!Indices' = Pool!Indices /\ Used' = Used
  BY <1>1 DEF Pool!Draw, Pool!Indices, Used
<1>5. i \in Pool!Indices /\ r \in Pool!Indices /\ Pool!Indices \subseteq Nat
  BY <1>2, <1>4 DEF Pool!Indices
<1>6. /\ \A x \in Pool!Indices : ElementAt(x) \in Used
      /\ \A x, y \in Pool!Indices : ElementAt(x) = ElementAt(y) => x = y
  BY Numbering DEF KeyInv
<1>7. actual_keys'[i] \in Nat /\ \A x \in Pool!Indices : x # i => actual_keys'[x] = actual_keys[x]
  BY <1>2, <1>3, <1>5
<1>8. Pool!IInv'
  BY <1>1, DrawKeepsPool DEF KeyInv
<1>9. /\ key \in [ListElements -> Nat \cup {Pool!NoKey}] /\ Used \subseteq ListElements
      /\ \A x \in Pool!Indices : key[ElementAt(x)] = actual_keys[x]
      /\ \A e \in ListElements \ Used : key[e] = Pool!NoKey
      /\ \A x \in Pool!Indices : actual_keys[x] = Pool!NoKey <=> x >= i
  BY DEF KeyInv, Used
<1>10. key' \in [ListElements -> Nat \cup {Pool!NoKey}]
  BY <1>1, <1>7, <1>9
<1>11. \A x : ElementAt(x)' = ElementAt(x)
  BY DEF ElementAt
<1>12. \A x \in Pool!Indices : key'[ElementAt(x)] = actual_keys'[x]
  BY <1>1, <1>5, <1>6, <1>7, <1>9
<1>13. \A e \in ListElements \ Used : key'[e] = Pool!NoKey
  BY <1>1, <1>5, <1>6, <1>9
<1>14. \A x \in Pool!Indices : actual_keys'[x] = Pool!NoKey <=> x >= i + 1
  <2> SUFFICES ASSUME NEW x \in Pool!Indices
               PROVE  actual_keys'[x] = Pool!NoKey <=> x >= i + 1
    OBVIOUS
  <2>1. x \in Nat /\ i \in Nat
    BY <1>5
  <2>2. CASE x = i
    BY <1>2, <1>7, <2>1, <2>2
  <2>3. CASE x # i
    BY <1>7, <1>9, <2>1, <2>3
  <2> QED BY <2>2, <2>3
<1>15. num_elementstocreate' = NumThreads * num_iterations'
  BY <1>1, <1>4 DEF KeyInv
<1>16. Pool!NoKey' = Pool!NoKey
  BY DEF Pool!NoKey
<1> HIDE DEF Pool!NoKey
<1> QED BY <1>4, <1>8, <1>10, <1>11, <1>12, <1>13, <1>14, <1>15, <1>16 DEF KeyInv

(* What is left to show of a step of main() that no thread sees.           *)
LEMMA MainKeepsRace ==
  ASSUME RaceInv, UNCHANGED <<mem, sync, num_iterations, phase, turn>>, KeyInv', RegisterInv', MainInv',
         \A t \in Threads : th'[t] = th[t] \/ ControlInv(t)'
  PROVE  RaceInv'
<1>1. \A t \in Threads : ControlInv(t)'
  BY ControlKept DEF RaceInv
<1>2. MemInv'
  BY DEF RaceInv, MemInv, Values, Nodes, Heads
<1> QED BY <1>1, <1>2 DEF RaceInv

LEMMA QuietMainKeepsRace ==
  ASSUME RaceInv, GenerateKey \/ PthreadError \/ NextLoop \/ JoinThread \/ Report
  PROVE  RaceInv'
<1>1. UNCHANGED <<mem, sync, num_iterations, phase, turn, th, lock>>
  BY DEF GenerateKey, PthreadError, NextLoop, JoinThread, Report, setup
<1>2. RegisterInv'
  BY <1>1 DEF RaceInv, RegisterInv, Values, Nodes, Heads
<1>3. KeyInv'
  <2>1. CASE GenerateKey
    BY <2>1, GenerateKeepsKeys DEF RaceInv
  <2>2. CASE PthreadError \/ NextLoop \/ JoinThread \/ Report
    BY <2>2, KeyInvKept DEF PthreadError, NextLoop, JoinThread, Report, RaceInv, setup
  <2> QED BY <2>1, <2>2
<1>4. MainInv /\ NumThreads \in Nat
  BY Lab2aAssumption DEF RaceInv
<1>5. MainInv'
  <2>1. CASE GenerateKey
    BY <1>1, <1>4, <2>1 DEF GenerateKey, MainInv
  <2>2. CASE PthreadError \/ Report
    BY <1>1, <1>4, <2>2 DEF PthreadError, Report, MainInv, setup, pool
  <2>3. CASE NextLoop
    <3>1. /\ \/ main = "keys" /\ i = num_elementstocreate /\ main' = "create"
             \/ main = "create" /\ t_main = NumThreads /\ main' = "join"
          /\ t_main' = 0 /\ UNCHANGED <<i, num_elementstocreate>>
      BY <2>3 DEF NextLoop, setup, pool
    <3>2. \A t \in Threads : t \in Nat
      BY ThreadFacts
    <3> QED BY <1>1, <1>4, <3>1, <3>2 DEF MainInv
  <2>4. CASE JoinThread
    <3>1. /\ main = "join" /\ t_main < NumThreads /\ th[t_main].pc = "returned"
          /\ t_main' = t_main + 1 /\ UNCHANGED <<main, i, num_elementstocreate>>
      BY <2>4 DEF JoinThread, setup, pool
    <3>2. \A t \in Threads : t \in Nat /\ (t < t_main + 1 => t < t_main \/ t = t_main)
      BY <1>4, ThreadFacts DEF MainInv
    <3> QED BY <1>1, <1>4, <3>1, <3>2 DEF MainInv
  <2> QED BY <2>1, <2>2, <2>3, <2>4
<1> QED BY <1>1, <1>2, <1>3, <1>5, MainKeepsRace

LEMMA CreateKeepsRace ==
  ASSUME RaceInv, CreateThread
  PROVE  /\ RaceInv' /\ th[t_main].pc = "unborn" /\ t_main \in Threads /\ th'[t_main].pc = "lock"
         /\ \A q \in Procs : q # t_main => th'[q] = th[q]
<1>1. /\ main = "create" /\ t_main < NumThreads /\ Set(t_main, [pc |-> "lock"])
      /\ t_main' = t_main + 1
      /\ UNCHANGED <<mem, sync, num_iterations, phase, turn, main>>
      /\ UNCHANGED <<key, num_iterations, pool>> /\ UNCHANGED <<i, num_elementstocreate>>
  BY DEF CreateThread, setup, pool
<1>2. MainInv /\ NumThreads \in Nat /\ RegisterInv /\ t_main \in 0..NumThreads
  BY Lab2aAssumption DEF RaceInv, MainInv
<1>3. t_main \in Threads /\ th[t_main].pc = "unborn" /\ t_main \in Procs /\ t_main # MainProc
  <2>1. t_main \in Threads
    BY <1>1, <1>2 DEF Threads
  <2> QED BY <1>1, <1>2, <2>1, ThreadFacts DEF MainInv
<1>4. /\ RegisterInv' /\ th'[t_main].pc = "lock"
      /\ \A q \in Procs : q # t_main => th'[q] = th[q]
  BY <1>1, <1>2, <1>3, SetIdle DEF IdleLabels
<1>5. \A t \in Threads : t # t_main => th'[t] = th[t]
  BY <1>4, ThreadFacts
<1>6. ControlInv(t_main) /\ phase[t_main] = "insert" /\ turn[t_main] = 0
  BY <1>3 DEF RaceInv, ControlInv
<1> PICK m : m = t_main
  OBVIOUS
<1>7. ControlInv(m)'
  BY <1>1, <1>4, <1>6, LabelFacts
     DEF ControlInv, Operates, IdleLabels, LookupLabels, UnlinkLabels, LengthLabels
<1>8. MainInv'
  <2>1. th'[MainProc] = th[MainProc]
    BY <1>3, <1>4, ThreadFacts
  <2>2. \A t \in Threads : t \in Nat /\ (t >= t_main + 1 => t >= t_main /\ t # t_main)
    BY <1>2, ThreadFacts
  <2>3. t_main + 1 \in 0..NumThreads
    BY <1>1, <1>2
  <2> QED BY <1>1, <1>2, <1>5, <2>1, <2>2, <2>3 DEF MainInv
<1>9. KeyInv'
  BY <1>1, KeyInvKept DEF RaceInv
<1> QED BY <1>1, <1>3, <1>4, <1>5, <1>7, <1>8, <1>9, MainKeepsRace

(* main() counts what is left in the list.                                 *)
LEMMA CheckListKeepsRace ==
  ASSUME RaceInv, CheckList
  PROVE  /\ RaceInv' /\ \A t \in Threads : th[t].pc = "returned" /\ th'[t] = th[t]
         /\ th'[MainProc].pc = "length" /\ th'[MainProc].list = list_head
         /\ th'[MainProc].count = 0
<1>1. /\ main = "join" /\ t_main = NumThreads /\ main' = "check"
      /\ Set(MainProc, [pc |-> "length", list |-> list_head])
      /\ UNCHANGED <<mem, sync, num_iterations, phase, turn, t_main>>
      /\ UNCHANGED <<key, num_iterations, pool>> /\ UNCHANGED <<i, num_elementstocreate>>
  BY DEF CheckList, setup, pool
<1>2. MainInv /\ RegisterInv
  BY DEF RaceInv
<1>3. \A t \in Threads : th[t].pc = "returned"
  <2>1. \A t \in Threads : t < NumThreads
    BY Lab2aAssumption DEF Threads
  <2> QED BY <1>1, <1>2, <2>1 DEF MainInv
<1>4. th[MainProc].pc = "unborn" /\ "unborn" \in IdleLabels
  BY <1>1, <1>2 DEF MainInv, IdleLabels
<1> DEFINE new == [pc |-> "length", list |-> list_head]
<1>5. DOMAIN new = {"pc", "list"} /\ new["list"] = list_head /\ new["pc"] = "length"
  OBVIOUS
<1>6. Set(MainProc, new)
  BY <1>1
<1> HIDE DEF new
<1>7. new["pc"] \notin IdleLabels
  BY <1>5 DEF IdleLabels
<1>8. /\ RegisterInv' /\ th'[MainProc].pc = "length" /\ th'[MainProc].list = list_head
      /\ th'[MainProc].count = 0
      /\ \A q \in Procs : q # MainProc => th'[q] = th[q]
  BY <1>2, <1>4, <1>5, <1>6, <1>7, SetCall, ThreadFacts
<1>9. \A t \in Threads : th'[t] = th[t]
  BY <1>8, ThreadFacts
<1>10. MainInv'
  BY <1>1, <1>2, <1>3, <1>8, <1>9 DEF MainInv, LengthLabels
<1>11. KeyInv'
  BY <1>1, KeyInvKept DEF RaceInv
<1> QED BY <1>1, <1>3, <1>8, <1>9, <1>10, <1>11, MainKeepsRace

LEMMA CheckOperatingKeepsRace ==
  ASSUME RaceInv, CheckOperating
  PROVE  /\ RaceInv' /\ main = "check" /\ th[MainProc].pc \in LengthLabels
         /\ \A t \in Threads : th[t].pc = "returned" /\ th'[t] = th[t]
<1>1. Operate(MainProc) /\ UNCHANGED <<setup, lock, phase, turn, main, t_main>>
  BY DEF CheckOperating
<1>2. th[MainProc].pc \notin IdleLabels \cup {"done"}
  BY <1>1, OperateLabels
<1>3. /\ main = "check" /\ th[MainProc].pc \in LengthLabels
      /\ \A t \in Threads : th[t].pc = "returned"
  BY <1>2 DEF RaceInv, MainInv, IdleLabels
<1>4. /\ RegisterInv' /\ MemInv' /\ \A q \in Procs : q # MainProc => th'[q] = th[q]
      /\ th'[MainProc].pc \in LengthLabels \cup {"done"}
  BY <1>1, <1>3, OperateEffect, ThreadFacts DEF RaceInv, Leads, Reaches
<1>5. \A t \in Threads : th'[t] = th[t]
  BY <1>4, ThreadFacts
<1>6. UNCHANGED <<key, sync, num_iterations, pool>> /\ UNCHANGED <<i, num_elementstocreate>>
  BY <1>1 DEF setup, pool
<1>7. MainInv'
  BY <1>1, <1>3, <1>4, <1>5, <1>6 DEF RaceInv, MainInv
<1>8. KeyInv' /\ \A t \in Threads : ControlInv(t)'
  BY <1>1, <1>5, <1>6, KeyInvKept, ControlKept DEF RaceInv
<1>9. RaceInv'
  BY <1>1, <1>4, <1>6, <1>7, <1>8 DEF RaceInv
<1> QED BY <1>3, <1>5, <1>9

LEMMA InitRace ==
  ASSUME Init
  PROVE  RaceInv
<1>1. PICK option \in Options : sync = option.sync /\ num_iterations = option.iterations
  BY DEF Init
<1>2. sync \in {"none", "m", "s"} /\ num_iterations \in 0..MaxIterations /\ NumThreads \in Nat
  BY <1>1, Lab2aAssumption
<1>3. MemInv
  BY DEF Init, InitMem, MemInv, Values, Nodes, Fields
<1>4. \A p \in Procs : th[p] = Idle("unborn")
  BY DEF Init
<1>5. RegisterInv
  <2>1. /\ DOMAIN Idle("unborn") = {"pc", "list", "elem", "curr", "tmp", "val", "count"}
        /\ Idle("unborn").count = 0 /\ \A v \in Registers : Idle("unborn")[v] = Null
    BY DEF Idle, Registers
  <2> QED BY <1>4, <2>1 DEF Init, RegisterInv, Registers, Values
<1>6. KeyInv
  <2>1. Pool!IInv
    BY PoolInit DEF Init
  <2>2. num_elementstocreate = NumThreads * num_iterations
    BY DEF Init
  <2>3. /\ \A x \in Pool!Indices : ElementAt(x) \in Used
    BY <1>2, <2>2, Numbering
  <2>4. /\ key = [e \in ListElements |-> Pool!NoKey] /\ i = 0 /\ Used \subseteq ListElements
        /\ \A x \in Pool!Indices : actual_keys[x] = Pool!NoKey /\ x >= 0
    BY DEF Init, Pool!Init, Pool!Indices, Used
  <2> QED BY <2>1, <2>2, <2>3, <2>4 DEF KeyInv
<1>7. \A t \in Threads : th[t].pc = "unborn"
  BY <1>4, ThreadFacts DEF Idle
<1>8. \A t \in Threads : ControlInv(t)
  BY <1>7, LabelFacts
     DEF Init, ControlInv, Operates, IdleLabels, LookupLabels, UnlinkLabels, LengthLabels
<1>9. MainInv
  BY <1>2, <1>4, <1>7, ThreadFacts DEF Init, MainInv, Idle
<1>10. /\ phase \in [Threads -> {"insert", "count", "delete"}]
       /\ turn \in [Threads -> 0..num_iterations]
  BY <1>2 DEF Init
<1> QED BY <1>2, <1>3, <1>5, <1>6, <1>8, <1>9, <1>10 DEF RaceInv

LEMMA StutterKeepsRace ==
  ASSUME RaceInv, UNCHANGED vars
  PROVE  RaceInv'
<1>1. /\ UNCHANGED <<mem, setup, th, phase, turn, main, t_main>>
      /\ UNCHANGED <<key, sync, num_iterations, pool>> /\ UNCHANGED <<i, num_elementstocreate>>
  BY DEF vars, setup, pool
<1>2. RegisterInv' /\ MainInv'
  BY <1>1 DEF RaceInv, RegisterInv, Values, Nodes, Heads, MainInv
<1>3. KeyInv'
  BY <1>1, KeyInvKept DEF RaceInv
<1> QED BY <1>1, <1>2, <1>3, MainKeepsRace

LEMMA RaceInductive ==
  Spec => []RaceInv
<1>1. RaceInv /\ [Next]_vars => RaceInv'
  BY ThreadStepKeepsRace, QuietMainKeepsRace, CreateKeepsRace, CheckListKeepsRace,
     CheckOperatingKeepsRace, StutterKeepsRace DEF Next, Main, Terminated
<1> QED BY InitRace, <1>1, PTL DEF Spec

(* No two elements have the same key when the threads start, and the keys  *)
(* are 0, 1, ...                                                           *)
THEOREM DistinctKeys ==
  Spec => []KeysFromPool
<1>1. RaceInv => KeysFromPool
  <2> SUFFICES ASSUME RaceInv, main # "keys"
               PROVE  /\ {key[e] : e \in Used} = 0..(num_elementstocreate - 1)
                      /\ \A e, f \in Used : key[e] = key[f] => e = f
    BY DEF KeysFromPool, Used
  <2>1. i = num_elementstocreate
    BY DEF RaceInv, MainInv
  <2>2. KeysApart /\ Keyed = Used /\ {key[e] : e \in Used} = 0..(num_elementstocreate - 1)
    BY <2>1, KeyInvFacts DEF RaceInv
  <2> QED BY <2>2 DEF KeysApart
<1> QED BY RaceInductive, <1>1, PTL

(* Even in a race no thread unlinks an element of another thread.          *)
THEOREM UnlinksOwn ==
  Spec => []UnlinksOwnOrHead
<1>1. RaceInv => UnlinksOwnOrHead
  <2> SUFFICES ASSUME RaceInv, NEW t \in Threads,
                      th[t].pc \in DOMAIN DeleteLoads \cup DOMAIN DeleteStores
               PROVE  th[t].elem \in {Element(t), list_head}
    BY DEF UnlinksOwnOrHead
  <2>1. th[t].pc \in UnlinkLabels
    BY DEF DeleteLoads, DeleteStores, UnlinkLabels
  <2> QED BY <2>1 DEF RaceInv, ControlInv
<1> QED BY RaceInductive, <1>1, PTL

-----------------------------------------------------------------------------
(* SyncInv, step by step.                                                  *)

LEMMA EmptyRing ==
  ASSUME NEW l \in HeadIds
  PROVE  Ring(l, {}) <=> mem[Head(l)].next = Head(l) /\ mem[Head(l)].prev = Head(l)
BY DEF Ring, NextLinks, PrevLinks, RingNodes, Adjacent

LEMMA EmptyRingNext ==
  ASSUME NEW l \in HeadIds
  PROVE  Ring(l, {})' <=> mem'[Head(l)].next = Head(l) /\ mem'[Head(l)].prev = Head(l)
BY DEF Ring, NextLinks, PrevLinks, RingNodes, Adjacent

LEMMA EmptyRingKept ==
  ASSUME NEW l \in HeadIds, Ring(l, {}), UNCHANGED mem
  PROVE  Ring(l, {})'
BY EmptyRing, EmptyRingNext

(* The elements in the list: none but those of the thread, all with keys.  *)
LEMMA ElementsFacts ==
  ASSUME RaceInv, NEW t \in Threads
  PROVE  /\ Made(t) \in Nat /\ Made(t) <= num_iterations
         /\ th[t].pc # "unborn" =>
              KeysApart /\ Keyed = Used /\ Elements(t) \in SUBSET Keyed
         /\ \A e \in Elements(t) :
              /\ e[1] = t /\ e[2] \in Nat /\ e[2] < num_iterations
              /\ IF phase[t] = "delete" THEN e[2] >= Made(t) ELSE e[2] < Made(t)
         /\ phase[t] = "delete" /\ Made(t) = turn[t] /\ turn[t] < num_iterations =>
              Element(t) \in Elements(t)
<1>1. /\ turn[t] \in Nat /\ turn[t] <= num_iterations
      /\ num_iterations \in Nat /\ num_iterations <= MaxIterations
  BY ElementFacts
<1>2. /\ phase[t] # "count" /\ Operates(t) => turn[t] < num_iterations
      /\ th[t].pc \in MadeLabels => Operates(t)
  BY DEF RaceInv, ControlInv, Operates, IdleLabels, MadeLabels
<1>3. Made(t) \in Nat /\ Made(t) <= num_iterations
  BY <1>1, <1>2 DEF Made
<1>4. ASSUME NEW e \in Elements(t)
      PROVE  /\ e[1] = t /\ e[2] \in Nat /\ e[2] < num_iterations /\ e = <<t, e[2]>>
             /\ IF phase[t] = "delete" THEN e[2] >= Made(t) ELSE e[2] < Made(t)
  <2>1. PICK j \in Int : /\ e = <<t, j>>
                         /\ j \in IF phase[t] = "delete" THEN Made(t)..(num_iterations - 1)
                                  ELSE 0..(Made(t) - 1)
    BY <1>1, <1>3 DEF Elements
  <2> QED BY <1>1, <1>3, <2>1
<1>5. th[t].pc # "unborn" => KeysApart /\ Keyed = Used
  BY KeyInvFacts DEF RaceInv, MainInv
<1>6. Elements(t) \subseteq Used
  BY <1>1, <1>4, Lab2aAssumption DEF Used, Threads
<1>7. phase[t] = "delete" /\ Made(t) = turn[t] /\ turn[t] < num_iterations =>
        Element(t) \in Elements(t)
  BY <1>1 DEF Element, Elements
<1> QED BY <1>3, <1>4, <1>5, <1>6, <1>7

(* Elements depends on these only.                                         *)
LEMMA ElementsAre ==
  ASSUME NEW t, NEW m, Made(t)' = m, UNCHANGED num_iterations
  PROVE  Elements(t)' = {<<t, j>> : j \in IF phase'[t] = "delete" THEN m..(num_iterations - 1)
                                          ELSE 0..(m - 1)}
BY DEF Elements

LEMMA OwnCount ==
  ASSUME NEW t, NEW n \in Nat
  PROVE  Cardinality({<<t, j>> : j \in 0..(n - 1)}) = n
<1> DEFINE T == 0..(n - 1)
           S == {<<t, j>> : j \in T}
           f == [j \in T |-> <<t, j>>]
<1>1. IsFiniteSet(T) /\ Cardinality(T) = n
  <2>1. 0 \in Int /\ n - 1 \in Int /\ (IF 0 > n - 1 THEN 0 ELSE (n - 1) - 0 + 1) = n
    OBVIOUS
  <2> QED BY <2>1, FS_Interval
<1>2. f \in Bijection(T, S)
  BY DEF Bijection, Injection, Surjection, IsInjective
<1> HIDE DEF f, S, T
<1>3. Cardinality(S) = Cardinality(T)
  <2>1. ExistsBijection(T, S)
    BY <1>2 DEF ExistsBijection
  <2> QED BY <1>1, <2>1, FS_Bijection
<1> QED BY <1>1, <1>3 DEF S, T

(* While a thread holds the lock no other is anywhere near the list.       *)
LEMMA HoldsAlone ==
  ASSUME SyncInv, NEW t \in Threads, Holds(t)
  PROVE  lock = t /\ \A s \in Threads : s # t => ~Holds(s) /\ ~Operates(s)
<1>1. \A s \in Threads : lock = s <=> Holds(s)
  BY DEF SyncInv, ListInv
<1>2. \A s \in Threads : Operates(s) => Holds(s)
  BY DEF Operates, Holds, IdleLabels
<1> QED BY <1>1, <1>2

LEMMA HolderOwns ==
  ASSUME SyncInv, NEW t \in Threads, Operates(t)
  PROVE  /\ Holds(t) /\ Owns(t, 0, Elements(t))
         /\ phase[t] # "count" => th[t].elem = Element(t)
         /\ th[t].pc \in IF phase[t] = "insert" THEN InsertLabels \cup {"done"}
                         ELSE IF phase[t] = "count" THEN LengthLabels \cup {"done"}
                         ELSE LookupLabels \cup UnlinkLabels \cup {"done"}
<1>1. Holds(t) /\ th[t].pc # "unborn"
  BY DEF Operates, Holds, IdleLabels
<1>2. Inside(t, 0, Elements(t)) /\ (phase[t] # "count" => th[t].elem = Element(t))
  BY DEF SyncInv, ListInv, OperationInv
<1>3. Owns(t, 0, Elements(t))
  BY <1>1, <1>2, ElementsFacts, ThreadFacts DEF Owns, SyncInv, RaceInv
<1>4. th[t].pc \in InsertLabels \cup LookupLabels \cup UnlinkLabels \cup LengthLabels \cup {"done"}
  BY <1>2 DEF Inside
<1>5. /\ th[t].pc \in InsertLabels => phase[t] = "insert"
      /\ th[t].pc \in LookupLabels \cup UnlinkLabels => phase[t] = "delete"
      /\ th[t].pc \in LengthLabels => phase[t] = "count"
      /\ phase[t] \in {"insert", "count", "delete"}
  BY DEF SyncInv, RaceInv, ControlInv
<1>6. th[t].pc \in IF phase[t] = "insert" THEN InsertLabels \cup {"done"}
                   ELSE IF phase[t] = "count" THEN LengthLabels \cup {"done"}
                   ELSE LookupLabels \cup UnlinkLabels \cup {"done"}
  BY <1>4, <1>5
<1> QED BY <1>1, <1>2, <1>3, <1>6

(* What is left to show of a step of the thread that has the lock, or gets *)
(* it: what it does to the list.                                           *)
LEMMA HolderKeepsSync ==
  ASSUME SyncInv, RaceInv', NEW t \in Threads, th[t].pc \notin {"unborn", "returned"},
         UNCHANGED <<setup, main>>, outcome' \notin {"segfault", "corrupted"},
         \A s \in Threads : s # t => ~Holds(s),
         \A q \in Procs : q # t => th'[q] = th[q],
         \/ lock' = t /\ Holds(t)'
         \/ lock' = NoThread /\ ~Holds(t)' /\ Ring(0, {})',
         Holds(t)' /\ ~Operates(t)' => Ring(0, Elements(t))',
         Operates(t)' => OperationInv(t)',
         FreshInv'
  PROVE  SyncInv'
<1>1. \A s \in Threads : s # t => th'[s] = th[s] /\ ~Holds(s)' /\ ~Operates(s)'
  BY ThreadFacts DEF Holds, Operates, IdleLabels
<1>2. ListInv'
  <2>1. lock' \in Threads \cup {NoThread} /\ \A s \in Threads : lock' = s <=> Holds(s)'
    BY <1>1, ThreadFacts
  <2>2. lock' = NoThread => Ring(0, {})'
    BY ThreadFacts
  <2>3. \A s \in Threads : Holds(s)' /\ ~Operates(s)' => Ring(0, Elements(s))'
    BY <1>1
  <2>4. \A s \in Threads : Operates(s)' => OperationInv(s)'
    BY <1>1
  <2> QED BY <2>1, <2>2, <2>3, <2>4 DEF ListInv
<1>3. CheckInv'
  <2>1. th[MainProc].pc = "unborn"
    BY DEF SyncInv, RaceInv, MainInv
  <2>2. th'[MainProc] = th[MainProc]
    BY ThreadFacts
  <2> QED BY <2>1, <2>2 DEF CheckInv
<1>4. sync' # "none"
  BY DEF SyncInv, setup
<1> QED BY <1>2, <1>3, <1>4 DEF SyncInv

(* Elements of other threads stay as fresh as they are.                    *)
LEMMA FreshOthers ==
  ASSUME NEW t \in Threads, \A q \in Procs : q # t => th'[q] = th[q],
         \A s \in Threads : s # t => phase'[s] = phase[s] /\ turn'[s] = turn[s]
  PROVE  \A e \in ListElements : e[1] # t => (Fresh(e)' <=> Fresh(e))
<1> SUFFICES ASSUME NEW e \in ListElements, e[1] # t PROVE Fresh(e)' <=> Fresh(e)
  OBVIOUS
<1>1. e[1] \in Threads /\ e[1] \in Procs
  BY ThreadFacts
<1>2. Operates(e[1])' <=> Operates(e[1])
  BY <1>1 DEF Operates
<1> QED BY <1>1, <1>2 DEF Fresh

LEMMA LockKeepsSync ==
  ASSUME SyncInv, NEW t \in Threads, Lock(t)
  PROVE  SyncInv'
<1>1. /\ th[t].pc = "lock" /\ lock = NoThread /\ lock' = t
      /\ UNCHANGED <<mem, setup, outcome, phase, turn, main>>
      /\ UNCHANGED <<key, num_iterations>>
  BY DEF Lock, On, SyncInv, setup
<1>2. /\ RaceInv' /\ th'[t].pc = "loop" /\ \A q \in Procs : q # t => th'[q] = th[q]
  BY LockKeepsRace DEF SyncInv
<1>3. ListInv /\ FreshInv /\ RaceInv /\ outcome \notin {"segfault", "corrupted"}
  BY DEF SyncInv
<1>4. (\A s \in Threads : ~Holds(s)) /\ Ring(0, {})
  BY <1>1, <1>3, ThreadFacts DEF ListInv
<1>5. Holds(t)' /\ ~Operates(t)' /\ ~Operates(t)
  BY <1>1, <1>2 DEF Holds, Operates, IdleLabels
<1>6. phase[t] = "insert" /\ turn[t] = 0
  BY <1>1, <1>3 DEF RaceInv, ControlInv
<1>7. Elements(t)' = {}
  <2>1. Made(t)' = 0
    BY <1>1, <1>2, <1>6 DEF Made, MadeLabels
  <2> QED BY <1>1, <1>6, <2>1, ElementsAre
<1>8. Ring(0, Elements(t))'
  <2>1. Ring(0, {})'
    BY <1>1, <1>4, EmptyRingKept, ThreadFacts
  <2> QED BY <1>7, <2>1
<1>9. FreshInv'
  <2>1. \A e \in ListElements : e[1] # t => (Fresh(e)' <=> Fresh(e))
    BY <1>1, <1>2, FreshOthers
  <2>2. \A e \in ListElements : e[1] = t => (Fresh(e)' <=> Fresh(e))
    BY <1>1, <1>5 DEF Fresh
  <2> QED BY <1>1, <1>3, <2>1, <2>2 DEF FreshInv
<1> QED BY <1>1, <1>2, <1>3, <1>4, <1>5, <1>8, <1>9, HolderKeepsSync

(* Where a turn begins the list is whole: an operation is called, or the   *)
(* thread is through.                                                      *)
LEMMA LoopHeadKeepsSync ==
  ASSUME SyncInv, NEW t \in Threads, LoopHead(t)
  PROVE  SyncInv'
<1>1. /\ th[t].pc = "loop" /\ UNCHANGED <<mem, setup, outcome, lock, turn, main>>
      /\ UNCHANGED <<key, num_iterations>>
  BY DEF LoopHead, On, setup
<1>2. RaceInv /\ RaceInv' /\ ListInv /\ FreshInv /\ outcome \notin {"segfault", "corrupted"}
  BY LoopHeadKeepsRace DEF SyncInv
<1>3. Holds(t) /\ ~Operates(t)
  BY <1>1 DEF Holds, Operates, IdleLabels
<1>4. lock = t /\ \A s \in Threads : s # t => ~Holds(s)
  BY <1>3, HoldsAlone
<1> PICK S : S = Elements(t)
  OBVIOUS
<1>5. Ring(0, S) /\ S \in SUBSET Keyed /\ Made(t) = turn[t] /\ turn[t] \in Nat
      /\ turn[t] <= num_iterations /\ num_iterations \in Nat
  BY <1>1, <1>2, <1>3, ElementsFacts, ElementFacts DEF ListInv, Made, MadeLabels
<1>6. /\ phase[t] \in {"insert", "delete"}
      /\ \A s \in Threads : s # t => phase'[s] = phase[s] /\ turn'[s] = turn[s]
  BY <1>1, <1>2 DEF LoopHead, RaceInv, ControlInv
<1>7. Ring(0, S)'
  BY <1>1, <1>5, WholeKept
<1>8. ASSUME Made(t)' = turn[t], phase'[t] = "delete" <=> phase[t] = "delete"
      PROVE  Elements(t)' = S
  BY <1>1, <1>5, <1>8, ElementsAre DEF Elements
<1>9. ASSUME \A q \in Procs : q # t => th'[q] = th[q], phase'[t] \in {phase[t], "count"}
      PROVE  FreshInv'
  <2>1. \A e \in ListElements : e[1] # t => (Fresh(e)' <=> Fresh(e))
    BY <1>6, <1>9, FreshOthers
  <2>2. \A e \in ListElements : e[1] = t /\ Fresh(e)' => Fresh(e)
    BY <1>1, <1>3, <1>9 DEF Fresh
  <2> QED BY <1>1, <1>2, <2>1, <2>2 DEF FreshInv
<1>10. CASE turn[t] = num_iterations /\ phase[t] = "delete"
  <2>1. UNCHANGED phase /\ Set(t, [pc |-> "unlock"])
    BY <1>5, <1>10 DEF LoopHead
  <2>2. th'[t].pc = "unlock" /\ \A q \in Procs : q # t => th'[q] = th[q]
    BY <1>1, <1>2, <2>1, SetIdle, ThreadFacts DEF RaceInv, IdleLabels
  <2>3. Holds(t)' /\ ~Operates(t)'
    BY <2>2 DEF Holds, Operates, IdleLabels
  <2>4. Elements(t)' = S
    <3>1. Made(t)' = turn[t]
      BY <1>1, <1>5, <2>2 DEF Made, MadeLabels
    <3> QED BY <1>8, <2>1, <3>1
  <2>5. Ring(0, Elements(t))'
    BY <1>7, <2>4
  <2> QED BY <1>1, <1>2, <1>4, <1>9, <2>1, <2>2, <2>3, <2>5, HolderKeepsSync
<1>11. CASE turn[t] < num_iterations \/ phase[t] = "insert"
  <2>1. /\ th'[t].list = list_head /\ th'[t].count = 0
        /\ \A q \in Procs : q # t => th'[q] = th[q]
        /\ \/ /\ turn[t] < num_iterations /\ phase[t] = "insert" /\ UNCHANGED phase
              /\ th'[t].pc = "insert" /\ th'[t].elem = Element(t)
           \/ /\ turn[t] < num_iterations /\ phase[t] = "delete" /\ UNCHANGED phase
              /\ th'[t].pc = "lookup" /\ th'[t].elem = Element(t)
           \/ /\ turn[t] = num_iterations /\ phase[t] = "insert"
              /\ phase' = [phase EXCEPT ![t] = "count"] /\ th'[t].pc = "length"
    BY <1>2, <1>11, CallFields
  <2>2. phase'[t] \in {phase[t], "count"} /\ (phase'[t] = "delete" <=> phase[t] = "delete")
        /\ (phase'[t] # "count" => th'[t].elem = Element(t)')
    BY <1>1, <1>2, <1>6, <2>1 DEF RaceInv, Element
  <2>3. Holds(t)' /\ Operates(t)' /\ th'[t].pc \notin MadeLabels
    BY <2>1 DEF Holds, Operates, IdleLabels, MadeLabels
  <2>4. Elements(t)' = S
    <3>1. Made(t)' = turn[t]
      BY <1>1, <1>5, <2>3 DEF Made
    <3> QED BY <1>8, <2>2, <3>1
  <2>5. /\ th'[t].pc = "insert" => th'[t].elem \in Keyed \ S /\ mem[th'[t].elem].prev = Null
        /\ th'[t].pc = "lookup" => th'[t].elem \in S
    <3>1. ASSUME phase[t] = "insert", turn[t] < num_iterations
          PROVE  Element(t) \in Keyed \ S /\ mem[Element(t)].prev = Null
      <4>1. Element(t) \in ListElements /\ Element(t) \in Keyed
        BY <1>1, <1>2, <3>1, ElementFacts, ElementsFacts
      <4>2. Element(t)[1] = t /\ Element(t)[2] = turn[t]
        BY DEF Element
      <4>3. Element(t) \notin S
        BY <1>2, <1>5, <3>1, <4>2, ElementsFacts
      <4>4. Fresh(Element(t))
        BY <1>3, <3>1, <4>2 DEF Fresh
      <4> QED BY <1>2, <4>1, <4>3, <4>4 DEF FreshInv
    <3>2. phase[t] = "delete" /\ turn[t] < num_iterations => Element(t) \in S
      BY <1>2, <1>5, ElementsFacts
    <3> QED BY <2>1, <3>1, <3>2
  <2>6. Inside(t, 0, S)'
    BY <1>1, <1>5, <2>1, <2>5, CallInside DEF list_head
  <2>7. OperationInv(t)'
    <3>1. Inside(t, 0, Elements(t))'
      BY <2>4, <2>6
    <3>2. th'[t].pc # "done"
      BY <2>1
    <3> QED BY <2>2, <3>1, <3>2 DEF OperationInv
  <2> QED BY <1>1, <1>2, <1>4, <1>9, <2>1, <2>2, <2>3, <2>7, HolderKeepsSync
<1> QED BY <1>5, <1>6, <1>10, <1>11 DEF LoopHead

(* An operation has taken effect when its element counts as in the list,   *)
(* or as out of it.                                                        *)
LEMMA OperatingElements ==
  ASSUME SyncInv, NEW t \in Threads, Operating(t), NEW S, S = Elements(t), NEW T, T = After(t, S)
  PROVE  /\ Operates(t) /\ th[t].pc # "done" /\ Advances(t, 0, S, T) /\ Elements(t)' = T
<1>1. Operate(t) /\ UNCHANGED <<key, num_iterations, phase, turn>>
  BY DEF Operating, setup
<1>2. Operates(t) /\ th[t].pc # "done"
  BY <1>1, OperateLabels DEF Operates
<1>3. /\ Owns(t, 0, S)
      /\ phase[t] # "count" => th[t].elem = Element(t)
      /\ th[t].pc \in IF phase[t] = "insert" THEN InsertLabels \cup {"done"}
                      ELSE IF phase[t] = "count" THEN LengthLabels \cup {"done"}
                      ELSE LookupLabels \cup UnlinkLabels \cup {"done"}
  BY <1>2, HolderOwns
<1>4. Advances(t, 0, S, T)
  BY <1>1, <1>3, OperateAdvances
<1>5. /\ RaceInv /\ turn[t] \in Nat /\ num_iterations \in Nat /\ turn[t] <= num_iterations
      /\ phase[t] # "count" => turn[t] < num_iterations
      /\ phase[t] \in {"insert", "count", "delete"}
  BY <1>2, ElementFacts DEF SyncInv, RaceInv, ControlInv
<1>6. phase[t] # "count" =>
        (th'[t].pc \in MadeLabels <=> th[t].pc \in MadeLabels \cup {"only2", "link5", "unlink6"})
  BY <1>3, <1>4, LabelFacts DEF Advances, LookupLabels, UnlinkLabels
<1>7. CASE th[t].pc \notin {"only2", "link5", "unlink6"}
  <2>1. T = S
    BY <1>7 DEF After
  <2>2. Made(t)' = Made(t)
    BY <1>1, <1>6, <1>7 DEF Made
  <2>3. Elements(t)' = Elements(t)
    BY <1>1, <2>2, ElementsAre DEF Elements
  <2> QED BY <1>2, <1>4, <2>1, <2>3
<1>8. CASE th[t].pc \in {"only2", "link5", "unlink6"}
  <2>1. /\ th[t].pc = "unlink6" => phase[t] = "delete"
        /\ th[t].pc # "unlink6" => phase[t] = "insert"
    BY <1>3, <1>5, <1>8, LabelFacts DEF LookupLabels, UnlinkLabels, LengthLabels
  <2>2. Made(t) = turn[t] /\ Made(t)' = turn[t] + 1
    BY <1>1, <1>5, <1>6, <1>8, <2>1 DEF Made, MadeLabels
  <2>3. th[t].elem = <<t, turn[t]>>
    BY <1>3, <2>1 DEF Element
  <2>4. CASE th[t].pc = "unlink6"
    <3>1. /\ S = {<<t, j>> : j \in turn[t]..(num_iterations - 1)}
          /\ Elements(t)' = {<<t, j>> : j \in (turn[t] + 1)..(num_iterations - 1)}
      BY <1>1, <2>1, <2>2, <2>4, ElementsAre DEF Elements
    <3>2. T = S \ {<<t, turn[t]>>}
      BY <2>3, <2>4 DEF After
    <3>3. (turn[t] + 1)..(num_iterations - 1) = (turn[t]..(num_iterations - 1)) \ {turn[t]}
      BY <1>5
    <3> QED BY <1>2, <1>4, <3>1, <3>2, <3>3
  <2>5. CASE th[t].pc # "unlink6"
    <3>1. /\ S = {<<t, j>> : j \in 0..(turn[t] - 1)}
          /\ Elements(t)' = {<<t, j>> : j \in 0..((turn[t] + 1) - 1)}
      BY <1>1, <2>1, <2>2, <2>5, ElementsAre DEF Elements
    <3>2. T = S \cup {<<t, turn[t]>>}
      BY <1>8, <2>3, <2>5 DEF After
    <3>3. 0..((turn[t] + 1) - 1) = (0..(turn[t] - 1)) \cup {turn[t]}
      BY <1>5
    <3> QED BY <1>2, <1>4, <3>1, <3>2, <3>3
  <2> QED BY <2>4, <2>5
<1> QED BY <1>7, <1>8

LEMMA OperatingKeepsSync ==
  ASSUME SyncInv, NEW t \in Threads, Operating(t)
  PROVE  SyncInv'
<1> PICK S : S = Elements(t)
  OBVIOUS
<1> PICK T : T = After(t, S)
  OBVIOUS
<1>1. /\ Operates(t) /\ th[t].pc # "done" /\ Advances(t, 0, S, T) /\ Elements(t)' = T
      /\ UNCHANGED <<setup, lock, phase, turn, main>> /\ UNCHANGED <<key, num_iterations>>
  BY OperatingElements DEF Operating, setup
<1>2. RaceInv' /\ FreshInv /\ RaceInv /\ outcome \notin {"segfault", "corrupted"}
  BY OperatingKeepsRace DEF SyncInv
<1>3. /\ Holds(t)
      /\ phase[t] # "count" => th[t].elem = Element(t)
      /\ th[t].pc \in IF phase[t] = "insert" THEN InsertLabels \cup {"done"}
                      ELSE IF phase[t] = "count" THEN LengthLabels \cup {"done"}
                      ELSE LookupLabels \cup UnlinkLabels \cup {"done"}
  BY <1>1, HolderOwns
<1>4. lock = t /\ \A s \in Threads : s # t => ~Holds(s)
  BY <1>3, HoldsAlone
<1>5. /\ outcome' = outcome /\ \A q \in Procs : q # t => th'[q] = th[q]
      /\ th'[t].elem = th[t].elem
      /\ \A q \in Nodes : q \notin RingNodes(0, S) \cup {th[t].elem} => mem'[q] = mem[q]
      /\ th'[t].pc \in OperationOf(th[t].pc) \cup {"done"}
  BY <1>1 DEF Advances, Moves
<1>6. th'[t].pc \notin IdleLabels
  <2>1. th'[t].pc \in InsertLabels \cup LookupLabels \cup UnlinkLabels \cup LengthLabels \cup {"done"}
    BY <1>1, <1>3, <1>5, LabelFacts
  <2> QED BY <2>1, LabelFacts DEF IdleLabels, LookupLabels, UnlinkLabels, LengthLabels
<1>7. Holds(t)' /\ Operates(t)'
  BY <1>6 DEF Holds, Operates, IdleLabels
<1>8. OperationInv(t)'
  <2>1. Inside(t, 0, Elements(t))'
    BY <1>1 DEF Advances
  <2>2. phase'[t] # "count" => th'[t].elem = Element(t)'
    BY <1>1, <1>3, <1>5 DEF Element
  <2>3. ASSUME th'[t].pc = "done"
        PROVE  th'[t].count = IF phase'[t] = "count" THEN Cardinality(Elements(t))' ELSE 0
    <3>1. th'[t].count = IF th[t].pc = "count" THEN Cardinality(S) ELSE 0
      BY <1>1, <2>3 DEF Advances
    <3>2. phase[t] = "count" <=> th[t].pc = "count"
      <4>1. phase[t] = "count" => th[t].pc \notin MadeLabels \cup {"only2", "link5", "unlink6"}
        BY <1>1, <1>3, LabelFacts DEF MadeLabels, LengthLabels
      <4>2. "done" \in MadeLabels
        BY DEF MadeLabels
      <4>3. th[t].pc = "count" => phase[t] = "count"
        BY <1>3, LabelFacts DEF LookupLabels, UnlinkLabels
      <4> QED BY <1>1, <2>3, <4>1, <4>2, <4>3 DEF Advances
    <3>3. th[t].pc = "count" => T = S
      BY DEF After
    <3>4. Cardinality(Elements(t))' = Cardinality(T)
      BY <1>1
    <3> QED BY <1>1, <3>1, <3>2, <3>3, <3>4
  <2> QED BY <2>1, <2>2, <2>3 DEF OperationInv
<1>9. FreshInv'
  <2> SUFFICES ASSUME NEW e \in ListElements, Fresh(e)'
               PROVE  mem'[e].prev = Null
    BY DEF FreshInv
  <2>1. Fresh(e)
    <3>1. \A f \in ListElements : f[1] # t => (Fresh(f)' <=> Fresh(f))
      BY <1>1, <1>5, FreshOthers
    <3>2. e[1] = t => Fresh(e)
      BY <1>1, <1>7 DEF Fresh
    <3> QED BY <3>1, <3>2
  <2>2. mem[e].prev = Null
    BY <1>2, <2>1 DEF FreshInv
  <2>3. CASE phase[t] = "count"
    <3>1. th[t].pc \in LengthLabels
      BY <1>1, <1>3, <2>3
    <3> QED BY <1>1, <2>2, <3>1 DEF Advances
  <2>4. CASE phase[t] # "count"
    <3>1. turn[t] \in Nat /\ e[2] \in Nat
      BY <1>2, ElementFacts, ThreadFacts
    <3>2. e[1] = t => phase[t] = "insert" /\ e[2] > turn[t]
      BY <1>1, <2>1 DEF Fresh
    <3>3. e # Element(t)
      BY <3>1, <3>2 DEF Element
    <3>4. e \notin S
      <4>1. e \in S => e[1] = t /\ (phase[t] = "insert" => e[2] < Made(t))
        BY <1>2, ElementsFacts
      <4>2. Made(t) <= turn[t] + 1 /\ Made(t) \in Nat
        BY <3>1 DEF Made
      <4> QED BY <3>1, <3>2, <4>1, <4>2
    <3>5. e \in Nodes /\ e # Head(0)
      BY NodeFacts, ThreadFacts
    <3> QED BY <1>3, <1>5, <2>2, <2>4, <3>3, <3>4, <3>5 DEF RingNodes
  <2> QED BY <2>3, <2>4
<1>10. th[t].pc \notin {"unborn", "returned"}
  BY <1>3 DEF Holds
<1> QED BY <1>1, <1>2, <1>4, <1>5, <1>7, <1>8, <1>9, <1>10, HolderKeepsSync

(* The return of an operation leaves the list whole for the next turn.     *)
LEMMA NextTurnKeepsSync ==
  ASSUME SyncInv, NEW t \in Threads, NextTurn(t)
  PROVE  SyncInv'
<1>1. /\ th[t].pc = "done" /\ phase[t] # "count"
      /\ UNCHANGED <<mem, setup, outcome, lock, phase, main>>
      /\ UNCHANGED <<key, num_iterations>>
      /\ turn' = [turn EXCEPT ![t] = turn[t] + 1]
  BY DEF NextTurn, On, setup
<1>2. /\ RaceInv' /\ RaceInv /\ ListInv /\ FreshInv /\ outcome \notin {"segfault", "corrupted"}
      /\ th'[t].pc = "loop" /\ (\A q \in Procs : q # t => th'[q] = th[q])
      /\ turn'[t] = turn[t] + 1
  BY NextTurnKeepsRace DEF SyncInv
<1>3. Holds(t) /\ Operates(t) /\ Holds(t)' /\ ~Operates(t)'
  BY <1>1, <1>2 DEF Holds, Operates, IdleLabels
<1>4. lock = t /\ \A s \in Threads : s # t => ~Holds(s)
  BY <1>3, HoldsAlone
<1> PICK S : S = Elements(t)
  OBVIOUS
<1>5. Ring(0, S)
  BY <1>1, <1>3, HolderOwns DEF Owns, Inside, WholeLabels
<1>6. Elements(t)' = S
  <2>1. turn[t] \in Nat
    BY <1>2, ElementFacts
  <2>2. Made(t) = turn[t] + 1 /\ Made(t)' = turn[t] + 1
    BY <1>1, <1>2, <2>1 DEF Made, MadeLabels
  <2> QED BY <1>1, <2>2, ElementsAre DEF Elements
<1>7. Ring(0, Elements(t))'
  <2>1. Ring(0, S)'
    BY <1>1, <1>5, WholeKept
  <2> QED BY <1>6, <2>1
<1>8. FreshInv'
  <2>1. \A s \in Threads : s # t => phase'[s] = phase[s] /\ turn'[s] = turn[s]
    BY <1>1, <1>2 DEF RaceInv
  <2>2. \A e \in ListElements : e[1] # t => (Fresh(e)' <=> Fresh(e))
    BY <1>2, <2>1, FreshOthers
  <2>3. \A e \in ListElements : e[2] \in Nat /\ turn[t] \in Nat
    BY <1>2, ElementFacts, ThreadFacts
  <2>4. \A e \in ListElements : e[1] = t /\ Fresh(e)' => Fresh(e)
    BY <1>1, <1>2, <2>3 DEF Fresh
  <2> QED BY <1>1, <1>2, <2>2, <2>4 DEF FreshInv
<1> QED BY <1>1, <1>2, <1>3, <1>4, <1>7, <1>8, HolderKeepsSync

(* The size of the list is right.                                          *)
LEMMA CheckSizeKeepsSync ==
  ASSUME SyncInv, NEW t \in Threads, CheckSize(t)
  PROVE  SyncInv'
<1>1. /\ th[t].pc = "done" /\ phase[t] = "count"
      /\ UNCHANGED <<mem, setup, lock, main>>
      /\ UNCHANGED <<key, num_iterations>>
  BY DEF CheckSize, On, setup
<1>2. RaceInv /\ ListInv /\ FreshInv /\ outcome \notin {"segfault", "corrupted"}
  BY DEF SyncInv
<1>3. Holds(t) /\ Operates(t)
  BY <1>1 DEF Holds, Operates, IdleLabels
<1>4. lock = t /\ \A s \in Threads : s # t => ~Holds(s)
  BY <1>3, HoldsAlone
<1> PICK S : S = Elements(t)
  OBVIOUS
<1>5. S = {<<t, j>> : j \in 0..(num_iterations - 1)} /\ num_iterations \in Nat
  <2>1. turn[t] = num_iterations /\ turn[t] \in Nat
    BY <1>1, <1>2, <1>3, ElementFacts DEF RaceInv, ControlInv
  <2>2. Made(t) = num_iterations
    BY <1>1, <2>1 DEF Made
  <2> QED BY <1>1, <2>1, <2>2 DEF Elements
<1>6. Ring(0, S) /\ th[t].count = Cardinality(S)
  BY <1>1, <1>2, <1>3, HolderOwns DEF Owns, Inside, WholeLabels, ListInv, OperationInv
<1>7. th[t].count = num_iterations
  BY <1>5, <1>6, OwnCount
<1>8. /\ RaceInv' /\ th'[t].pc = "loop" /\ (\A q \in Procs : q # t => th'[q] = th[q])
      /\ phase'[t] = "delete" /\ turn'[t] = 0
  BY <1>2, <1>7, CheckSizeKeepsRace
<1>9. /\ outcome' = outcome
      /\ phase' = [phase EXCEPT ![t] = "delete"] /\ turn' = [turn EXCEPT ![t] = 0]
  BY <1>7 DEF CheckSize
<1>10. Holds(t)' /\ ~Operates(t)'
  BY <1>8 DEF Holds, Operates, IdleLabels
<1>11. Elements(t)' = S
  <2>1. Made(t)' = 0
    BY <1>8 DEF Made, MadeLabels
  <2> QED BY <1>1, <1>5, <1>8, <2>1, ElementsAre
<1>12. Ring(0, Elements(t))'
  <2>1. Ring(0, S)'
    BY <1>1, <1>6, WholeKept
  <2> QED BY <1>11, <2>1
<1>13. FreshInv'
  <2>1. \A s \in Threads : s # t => phase'[s] = phase[s] /\ turn'[s] = turn[s]
    BY <1>2, <1>9 DEF RaceInv
  <2>2. \A e \in ListElements : e[1] # t => (Fresh(e)' <=> Fresh(e))
    BY <1>8, <2>1, FreshOthers
  <2>3. \A e \in ListElements : e[1] = t => ~Fresh(e)'
    BY <1>8 DEF Fresh
  <2> QED BY <1>1, <1>2, <2>2, <2>3 DEF FreshInv
<1> QED BY <1>1, <1>2, <1>4, <1>8, <1>9, <1>10, <1>12, <1>13, HolderKeepsSync

(* A thread leaves nothing behind.                                         *)
LEMMA UnlockKeepsSync ==
  ASSUME SyncInv, NEW t \in Threads, Unlock(t)
  PROVE  SyncInv'
<1>1. /\ th[t].pc = "unlock" /\ lock' = NoThread
      /\ UNCHANGED <<mem, setup, outcome, phase, turn, main>>
      /\ UNCHANGED <<key, num_iterations>>
  BY DEF Unlock, On, setup, SyncInv
<1>2. /\ RaceInv' /\ RaceInv /\ ListInv /\ FreshInv /\ outcome \notin {"segfault", "corrupted"}
      /\ th'[t].pc = "returned" /\ (\A q \in Procs : q # t => th'[q] = th[q])
  BY UnlockKeepsRace DEF SyncInv
<1>3. Holds(t) /\ ~Operates(t) /\ ~Holds(t)' /\ ~Operates(t)'
  BY <1>1, <1>2 DEF Holds, Operates, IdleLabels
<1>4. lock = t /\ \A s \in Threads : s # t => ~Holds(s)
  BY <1>3, HoldsAlone
<1>5. Elements(t) = {}
  <2>1. phase[t] = "delete" /\ turn[t] = num_iterations /\ num_iterations \in Nat
    BY <1>1, <1>2, ElementFacts DEF RaceInv, ControlInv
  <2>2. Made(t) = num_iterations
    BY <1>1, <2>1 DEF Made, MadeLabels
  <2> QED BY <2>1, <2>2 DEF Elements
<1>6. Ring(0, {})'
  <2>1. Ring(0, Elements(t))
    BY <1>2, <1>3 DEF ListInv
  <2>2. Ring(0, {})
    BY <1>5, <2>1
  <2> QED BY <1>1, <2>2, EmptyRingKept, ThreadFacts
<1>7. FreshInv'
  <2>1. \A e \in ListElements : e[1] # t => (Fresh(e)' <=> Fresh(e))
    BY <1>1, <1>2, FreshOthers
  <2>2. \A e \in ListElements : e[1] = t => (Fresh(e)' <=> Fresh(e))
    BY <1>1, <1>3 DEF Fresh
  <2> QED BY <1>1, <1>2, <2>1, <2>2 DEF FreshInv
<1> QED BY <1>1, <1>2, <1>3, <1>4, <1>6, <1>7, HolderKeepsSync

LEMMA ThreadStepKeepsSync ==
  ASSUME SyncInv, NEW t \in Threads, Thread(t)
  PROVE  SyncInv'
BY LockKeepsSync, LoopHeadKeepsSync, OperatingKeepsSync, NextTurnKeepsSync, CheckSizeKeepsSync,
   UnlockKeepsSync DEF Thread

(* What is left to show of a step of main().                               *)
LEMMA MainKeepsSync ==
  ASSUME SyncInv, RaceInv', UNCHANGED <<mem, sync, num_iterations, lock, phase, turn>>,
         outcome' \notin {"segfault", "corrupted"},
         \A t \in Threads : \/ th'[t] = th[t]
                            \/ th[t].pc = "unborn" /\ th'[t].pc = "lock",
         UNCHANGED key \/ \A t \in Threads : ~Holds(t),
         CheckInv'
  PROVE  SyncInv'
<1>1. \A t \in Threads : /\ Holds(t)' <=> Holds(t)
                         /\ Operates(t)' <=> Operates(t)
                         /\ Holds(t) => th'[t] = th[t]
  BY DEF Holds, Operates, IdleLabels
<1>2. ListInv
  BY DEF SyncInv
<1>3. FreshInv'
  <2>1. \A e \in ListElements : Fresh(e)' <=> Fresh(e)
    BY <1>1, ThreadFacts DEF Fresh
  <2> QED BY <2>1 DEF SyncInv, FreshInv
<1>4. ASSUME NEW t \in Threads, Holds(t)
      PROVE  /\ UNCHANGED key /\ th'[t] = th[t] /\ Elements(t)' = Elements(t)
             /\ Elements(t) \in SUBSET Keyed
  <2>1. UNCHANGED key /\ th'[t] = th[t]
    BY <1>1, <1>4
  <2>2. Made(t)' = Made(t)
    BY <2>1 DEF Made
  <2>3. Elements(t)' = Elements(t)
    BY <2>2, ElementsAre DEF Elements
  <2>4. Elements(t) \in SUBSET Keyed
    BY <1>4, ElementsFacts DEF SyncInv, Holds
  <2> QED BY <2>1, <2>3, <2>4
<1>5. lock' = NoThread => Ring(0, {})'
  BY <1>2, EmptyRingKept, ThreadFacts DEF ListInv
<1>6. ASSUME NEW t \in Threads, Holds(t), ~Operates(t)
      PROVE  Ring(0, Elements(t))'
  <2> PICK S : S = Elements(t)
    OBVIOUS
  <2>1. Ring(0, S)'
    BY <1>2, <1>4, <1>6, WholeKept DEF ListInv
  <2> QED BY <1>4, <1>6, <2>1
<1>7. ASSUME NEW t \in Threads, Operates(t)
      PROVE  OperationInv(t)'
  <2> PICK S : S = Elements(t)
    OBVIOUS
  <2>1. Holds(t)
    BY <1>7 DEF Holds, Operates, IdleLabels
  <2>2. OperationInv(t) /\ Inside(t, 0, S)
    BY <1>2, <1>7 DEF ListInv, OperationInv
  <2>3. Inside(t, 0, S)'
    BY <1>4, <2>1, <2>2, InsideKept, ThreadFacts
  <2>4. Element(t)' = Element(t) /\ Cardinality(Elements(t))' = Cardinality(Elements(t))
    BY <1>4, <2>1 DEF Element
  <2>5. Inside(t, 0, Elements(t))'
    BY <1>4, <2>1, <2>3
  <2> QED BY <1>4, <2>1, <2>2, <2>4, <2>5 DEF OperationInv
<1>8. ListInv'
  BY <1>1, <1>2, <1>5, <1>6, <1>7 DEF ListInv
<1> QED BY <1>3, <1>8 DEF SyncInv

LEMMA QuietMainKeepsSync ==
  ASSUME SyncInv, GenerateKey \/ PthreadError \/ NextLoop \/ JoinThread \/ Report
  PROVE  SyncInv'
<1>1. /\ UNCHANGED <<mem, sync, num_iterations, th, lock, phase, turn>>
      /\ UNCHANGED key \/ main = "keys"
  BY DEF GenerateKey, PthreadError, NextLoop, JoinThread, Report, setup
<1>2. RaceInv' /\ RaceInv /\ CheckInv /\ outcome \notin {"segfault", "corrupted"}
  BY QuietMainKeepsRace DEF SyncInv
<1>3. UNCHANGED key \/ \A t \in Threads : ~Holds(t)
  BY <1>1, <1>2 DEF RaceInv, MainInv, Holds
<1>4. outcome' \notin {"segfault", "corrupted"}
  <2>1. Report => th[MainProc].count = 0
    BY <1>2 DEF Report, On, CheckInv
  <2> QED BY <1>2, <2>1 DEF GenerateKey, PthreadError, NextLoop, JoinThread, Report
<1>5. CheckInv'
  <2>1. CASE th[MainProc].pc = "unborn"
    BY <1>1, <2>1 DEF CheckInv
  <2>2. CASE th[MainProc].pc # "unborn"
    <3>1. UNCHANGED key
      BY <1>1, <1>2, <2>2 DEF RaceInv, MainInv
    <3>2. Inside(MainProc, 0, {})
      BY <1>2, <2>2 DEF CheckInv
    <3> PICK S \in SUBSET Keyed : S = {}
      OBVIOUS
    <3>3. Inside(MainProc, 0, S)'
      BY <1>1, <3>1, <3>2, InsideKept, ThreadFacts
    <3> QED BY <1>1, <1>2, <3>3 DEF CheckInv
  <2> QED BY <2>1, <2>2
<1> QED BY <1>1, <1>2, <1>3, <1>4, <1>5, MainKeepsSync

LEMMA CreateKeepsSync ==
  ASSUME SyncInv, CreateThread
  PROVE  SyncInv'
<1>1. /\ RaceInv' /\ th[t_main].pc = "unborn" /\ t_main \in Threads /\ th'[t_main].pc = "lock"
      /\ \A q \in Procs : q # t_main => th'[q] = th[q]
  BY CreateKeepsRace DEF SyncInv
<1>2. /\ UNCHANGED <<mem, sync, num_iterations, lock, phase, turn>>
      /\ UNCHANGED <<key, outcome>> /\ main = "create"
  BY DEF CreateThread, setup
<1>3. CheckInv'
  <2>1. th[MainProc].pc = "unborn" /\ th'[MainProc] = th[MainProc]
    BY <1>1, <1>2, ThreadFacts DEF SyncInv, RaceInv, MainInv
  <2> QED BY <2>1 DEF CheckInv
<1>4. \A t \in Threads : th'[t] = th[t] \/ (th[t].pc = "unborn" /\ th'[t].pc = "lock")
  BY <1>1, ThreadFacts
<1>5. outcome' \notin {"segfault", "corrupted"}
  BY <1>2 DEF SyncInv
<1> QED BY <1>1, <1>2, <1>3, <1>4, <1>5, MainKeepsSync

(* The last count finds an empty list.                                     *)
LEMMA CheckListKeepsSync ==
  ASSUME SyncInv, CheckList
  PROVE  SyncInv'
<1>1. /\ RaceInv' /\ \A t \in Threads : th[t].pc = "returned" /\ th'[t] = th[t]
      /\ th'[MainProc].pc = "length" /\ th'[MainProc].list = list_head
      /\ th'[MainProc].count = 0
  BY CheckListKeepsRace DEF SyncInv
<1>2. /\ UNCHANGED <<mem, sync, num_iterations, lock, phase, turn>>
      /\ UNCHANGED <<key, outcome>>
  BY DEF CheckList, setup
<1>3. Ring(0, {})
  <2>1. ListInv /\ \A t \in Threads : ~Holds(t)
    BY <1>1 DEF SyncInv, Holds
  <2> QED BY <2>1 DEF ListInv
<1>4. Inside(MainProc, 0, {})'
  <2> PICK S : S = {}
    OBVIOUS
  <2>1. Inside(MainProc, 0, S)'
    BY <1>1, <1>2, <1>3, CallInside DEF list_head
  <2> QED BY <2>1
<1>5. CheckInv'
  BY <1>1, <1>4 DEF CheckInv
<1>6. outcome' \notin {"segfault", "corrupted"}
  BY <1>2 DEF SyncInv
<1> QED BY <1>1, <1>2, <1>5, <1>6, MainKeepsSync

LEMMA CheckOperatingKeepsSync ==
  ASSUME SyncInv, CheckOperating
  PROVE  SyncInv'
<1>1. /\ RaceInv' /\ main = "check" /\ th[MainProc].pc \in LengthLabels
      /\ \A t \in Threads : th[t].pc = "returned" /\ th'[t] = th[t]
  BY CheckOperatingKeepsRace DEF SyncInv
<1>2. /\ Operate(MainProc) /\ UNCHANGED <<sync, num_iterations, lock, phase, turn>>
      /\ UNCHANGED key
  BY DEF CheckOperating, setup
<1>3. KeysApart
  BY KeyInvFacts DEF SyncInv, RaceInv
<1>4. th[MainProc].pc # "unborn" /\ Inside(MainProc, 0, {})
  BY <1>1 DEF LengthLabels, SyncInv, CheckInv
<1>5. Owns(MainProc, 0, {})
  BY <1>3, <1>4, ThreadFacts DEF Owns, SyncInv, RaceInv
<1>6. After(MainProc, {}) = {}
  BY <1>1 DEF After, LengthLabels
<1>7. Advances(MainProc, 0, {}, {})
  BY <1>2, <1>5, <1>6, OperateAdvances
<1>8. Cardinality({}) = 0
  BY FS_EmptySet
<1>9. /\ UNCHANGED <<mem, outcome>> /\ Inside(MainProc, 0, {})'
      /\ th'[MainProc].pc = "done" => th'[MainProc].count = 0
  BY <1>1, <1>7, <1>8 DEF Advances, Moves
<1>10. CheckInv'
  BY <1>9 DEF CheckInv
<1>11. outcome' \notin {"segfault", "corrupted"}
  BY <1>9 DEF SyncInv
<1> QED BY <1>1, <1>2, <1>9, <1>10, <1>11, MainKeepsSync

LEMMA InitSync ==
  ASSUME Init, sync # "none"
  PROVE  SyncInv
<1>1. RaceInv
  BY InitRace
<1>2. \A p \in Procs : th[p].pc = "unborn"
  BY DEF Init, Idle
<1>3. \A t \in Threads : ~Holds(t) /\ ~Operates(t)
  BY <1>2, ThreadFacts DEF Holds, Operates, IdleLabels
<1>4. /\ mem[Head(0)].next = Head(0) /\ mem[Head(0)].prev = Head(0)
      /\ \A e \in ListElements : mem[e].prev = Null
  BY NodeFacts, ThreadFacts DEF Init, InitMem
<1>5. Ring(0, {})
  BY <1>4, EmptyRing, ThreadFacts
<1>6. ListInv
  BY <1>3, <1>5, ThreadFacts DEF ListInv, Init
<1>7. CheckInv
  BY <1>2, ThreadFacts DEF CheckInv
<1> QED BY <1>1, <1>4, <1>6, <1>7 DEF SyncInv, FreshInv, Init

LEMMA StutterKeepsSync ==
  ASSUME SyncInv, UNCHANGED vars
  PROVE  SyncInv'
<1>1. UNCHANGED <<mem, sync, num_iterations, lock, phase, turn>> /\ UNCHANGED <<key, th, outcome>>
  BY DEF vars, setup
<1>2. RaceInv' /\ CheckInv
  BY StutterKeepsRace DEF SyncInv
<1>3. CheckInv'
  <2>1. CASE th[MainProc].pc = "unborn"
    BY <1>1, <2>1 DEF CheckInv
  <2>2. CASE th[MainProc].pc # "unborn"
    <3>1. Inside(MainProc, 0, {})
      BY <1>2, <2>2 DEF CheckInv
    <3> PICK S \in SUBSET Keyed : S = {}
      OBVIOUS
    <3>2. Inside(MainProc, 0, S)'
      BY <1>1, <3>1, InsideKept, ThreadFacts
    <3> QED BY <1>1, <1>2, <3>2 DEF CheckInv
  <2> QED BY <2>1, <2>2
<1>4. outcome' \notin {"segfault", "corrupted"}
  BY <1>1 DEF SyncInv
<1> QED BY <1>1, <1>2, <1>3, <1>4, MainKeepsSync

LEMMA SyncInductive ==
  Spec => [](sync # "none" => SyncInv)
<1>1. SyncInv /\ [Next]_vars => SyncInv'
  BY ThreadStepKeepsSync, QuietMainKeepsSync, CreateKeepsSync, CheckListKeepsSync,
     CheckOperatingKeepsSync, StutterKeepsSync DEF Next, Main, Terminated
<1>2. [Next]_vars => sync' = sync
  BY DEF Next, Main, GenerateKey, PthreadError, CreateThread, NextLoop, JoinThread, CheckList,
         CheckOperating, Report, Thread, Lock, LoopHead, Operating, NextTurn, CheckSize, Unlock,
         Terminated, vars, setup
<1>3. (sync # "none" => SyncInv) /\ [Next]_vars => (sync # "none" => SyncInv)'
  BY <1>1, <1>2
<1> QED BY InitSync, <1>3, PTL DEF Spec

(* With the lock a thread sees the list as if it were its own, and the     *)
(* program finds no fault with it.                                         *)
THEOREM OwnList ==
  Spec => []SeesOnlyOwn
<1>1. ASSUME SyncInv, NEW t \in Threads, On(t, "loop")
      PROVE  IsRing(0, Own(t))
  <2>1. th[t].pc = "loop" /\ Holds(t) /\ ~Operates(t) /\ Made(t) = turn[t]
    <3>1. th[t].pc = "loop" /\ turn[t] \in Nat
      BY <1>1, ElementFacts DEF SyncInv, On
    <3>2. th[t].pc \notin MadeLabels
      BY <3>1 DEF MadeLabels
    <3>3. Made(t) = turn[t]
      BY <3>1, <3>2 DEF Made
    <3> QED BY <3>1, <3>3 DEF Holds, Operates, IdleLabels
  <2>2. Own(t) = Elements(t)
    BY <2>1 DEF Own, Elements
  <2>3. KeysApart /\ Elements(t) \in SUBSET Keyed /\ Ring(0, Elements(t))
    BY <1>1, <2>1, ElementsFacts DEF SyncInv, ListInv
  <2> QED BY <2>2, <2>3, RingIsRing, ThreadFacts
<1>2. ASSUME SyncInv, \A t \in Threads : th[t].pc \in {"unborn", "lock", "returned"}
      PROVE  IsRing(0, {})
  <2>1. Ring(0, {})
    BY <1>2 DEF SyncInv, ListInv, Holds
  <2>2. KeysApart
    BY <1>2, KeyInvFacts DEF SyncInv, RaceInv
  <2> QED BY <2>1, <2>2, RingIsRing, ThreadFacts
<1>3. (sync # "none" => SyncInv) => SeesOnlyOwn
  BY <1>1, <1>2 DEF SeesOnlyOwn, SyncInv
<1> QED BY SyncInductive, <1>3, PTL

=============================================================================
