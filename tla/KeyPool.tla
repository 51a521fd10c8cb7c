-------------------------------- MODULE KeyPool --------------------------------
(***************************************************************************)
(* generateKey() of lab2a/lab2_list.c and lab2b/lab2_list.c, and the loop  *)
(* of main() that calls it: keys are drawn at random from the pool         *)
(* random_keys, and the last key of the pool fills the gap.  The lists     *)
(* find their elements by key, so all of them must differ.                 *)
(* A key stands for its decimal form, which sprintf() writes into 12 bytes.*)
(***************************************************************************)
EXTENDS Integers

CONSTANT ElementCounts \* the values of num_elementstocreate to consider

VARIABLES
  num_elementstocreate, \* --threads times --iterations
  random_keys,          \* the pool
  random_keys_maxindex, \* the last index of the pool that is in use
  actual_keys,          \* the key of each element, or -1
  i                     \* the loop index of main()

vars == <<num_elementstocreate, random_keys, random_keys_maxindex, actual_keys, i>>

Indices == 0..(num_elementstocreate - 1)

NoKey == -1

Init ==
  /\ num_elementstocreate \in ElementCounts
  /\ random_keys = [x \in Indices |-> x]
  /\ random_keys_maxindex = num_elementstocreate - 1
  /\ actual_keys = [x \in Indices |-> NoKey]
  /\ i = 0

(* Mutant: the gap is not filled, the pool just gets shorter.              *)
DrawNoFill ==
  /\ i < num_elementstocreate
  /\ \E random_index \in 0..random_keys_maxindex :
       actual_keys' = [actual_keys EXCEPT ![i] = random_keys[random_index]]
  /\ random_keys_maxindex' = random_keys_maxindex - 1
  /\ i' = i + 1
  /\ UNCHANGED <<num_elementstocreate, random_keys>>

(* generateKey(): random_index is rand() % (random_keys_maxindex + 1).     *)
Draw ==
  /\ i < num_elementstocreate
  /\ \E random_index \in 0..random_keys_maxindex :
       /\ actual_keys' = [actual_keys EXCEPT ![i] = random_keys[random_index]]
       /\ random_keys' = [random_keys EXCEPT ![random_index] = random_keys[random_keys_maxindex]]
  /\ random_keys_maxindex' = random_keys_maxindex - 1
  /\ i' = i + 1
  /\ UNCHANGED num_elementstocreate

Finished == i = num_elementstocreate /\ UNCHANGED vars

Next == Draw \/ Finished

Spec == Init /\ [][Next]_vars

-----------------------------------------------------------------------------

(* Every variable keeps its type, and the pool shrinks with every draw, so *)
(* that rand() is never divided by zero.                                   *)
TypeOK ==
  /\ num_elementstocreate \in ElementCounts
  /\ random_keys \in [Indices -> Indices]
  /\ actual_keys \in [Indices -> Indices \cup {NoKey}]
  /\ i \in 0..num_elementstocreate
  /\ random_keys_maxindex = num_elementstocreate - 1 - i

(* No two elements get the same key.                                       *)
KeysDistinct ==
  \A x, y \in Indices : x < i /\ y < i /\ actual_keys[x] = actual_keys[y] => x = y

(* When every element has its key, all the keys of the pool are used up.   *)
KeysExhausted ==
  i = num_elementstocreate => \A k \in Indices : \E x \in Indices : actual_keys[x] = k

(* What is left of the pool: distinct keys, none of them drawn before, and *)
(* no key is lost.                                                         *)
PoolInv ==
  /\ \A x, y \in 0..random_keys_maxindex : random_keys[x] = random_keys[y] => x = y
  /\ \A x \in 0..random_keys_maxindex, y \in Indices : y < i =>
       random_keys[x] # actual_keys[y]
  /\ \A k \in Indices :
       \/ \E x \in 0..random_keys_maxindex : random_keys[x] = k
       \/ \E y \in Indices : y < i /\ actual_keys[y] = k

IInv == TypeOK /\ KeysDistinct /\ PoolInv

=============================================================================
