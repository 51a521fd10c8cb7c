----------------------------- MODULE AtomicCounter -----------------------------
(***************************************************************************)
(* What add() of lab2a/lab2_add.c promises.  Synchronised: every call adds *)
(* its argument to the counter in one indivisible step, exactly once.  The *)
(* counter is exact up to the width of the integers the code computes in:  *)
(* a sum may be off by one Modulus when it wraps around.  Unsynchronised,  *)
(* a call returns once, and nothing is said of the counter.                *)
(***************************************************************************)
EXTENDS Integers

CONSTANTS Threads, NumIterations, Modulus

VARIABLES
  exact, \* whether the calls are synchronised
  value, \* the shared counter
  made   \* add() calls of each thread that have taken effect

vars == <<exact, value, made>>

Init ==
  /\ exact \in BOOLEAN
  /\ value = 0
  /\ made = [t \in Threads |-> 0]

(* The first NumIterations calls of a thread add 1, the others -1.         *)
Add(t) ==
  /\ made[t] < 2 * NumIterations
  /\ made' = [made EXCEPT ![t] = @ + 1]
  /\ LET sum == value + (IF made[t] < NumIterations THEN 1 ELSE -1)
     IN  value' \in IF exact THEN {sum - Modulus, sum, sum + Modulus} ELSE Int
  /\ UNCHANGED exact

Next == \E t \in Threads : Add(t)

Spec == Init /\ [][Next]_vars

=============================================================================
