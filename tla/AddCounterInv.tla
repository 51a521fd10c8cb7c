---------------------------- MODULE AddCounterInv ----------------------------
(***************************************************************************)
(* The inductive invariant from which AddCounterProofs derives the safety  *)
(* properties of AddCounter.                                               *)
(***************************************************************************)
EXTENDS AddCounter

(* What the step of a thread says about the setting and about its calls.   *)
ControlInv ==
  \A t \in Threads :
    /\ pc[t] \in {"lock", "unlock"} => sync \in {"m", "s"}
    /\ pc[t] \in {"casLoad", "cas"} => sync = "c"
    /\ pc[t] \in {"load", "store"} => sync # "c"
    /\ pc[t] = "unborn" => calls[t] = 0
    /\ pc[t] = "returned" => calls[t] = 2 * NumIterations
    /\ pc[t] \notin {"unborn", "returned"} => calls[t] < 2 * NumIterations

(* What the progress of main() says about the threads.                     *)
MainInv ==
  /\ \A t \in Threads : main = "create" /\ t >= t_main => pc[t] = "unborn"
  /\ \A t \in Threads : main = "join" /\ t < t_main => pc[t] = "returned"
  /\ outcome = "printed" => main = "join" /\ t_main = NumThreads

(* The lock of the setting is held by the one critical thread, and the     *)
(* sum in its register is one addend ahead of the counter.                 *)
LockInv ==
  /\ sync # "m" => m_lock = NoThread
  /\ sync # "s" => atomic_lock = 0
  /\ sync = "m" => \A t \in Threads : m_lock = t <=> Critical(t)
  /\ sync = "s" =>
       /\ atomic_lock = 0 => \A t \in Threads : ~Critical(t)
       /\ atomic_lock = 1 => \E t \in Threads : Critical(t)
       /\ \A t, u \in Threads : Critical(t) /\ Critical(u) => t = u
  /\ \A t \in Threads :
       sync \in {"m", "s"} /\ pc[t] = "store" => reg[t] = counter + Addend(calls[t])

(* The swap loop only ever puts an int in the counter.                     *)
CasInv ==
  sync = "c" =>
    /\ counter \in IntRange
    /\ \A t \in Threads : pc[t] = "cas" => reg[t] \in IntRange

(* What n calls of a thread add to the counter.                            *)
Net(n) == IF n <= NumIterations THEN n ELSE 2 * NumIterations - n

(* sum[i] is what the calls of the threads below i have added, and the     *)
(* counter is the total, up to the wraps of an int in the swap loop.  The  *)
(* partial sum up to main()'s join loop is already 0.                      *)
LedgerOf(sum, wraps) ==
  /\ sum[0] = 0
  /\ \A t \in Threads : sum[t + 1] = sum[t] + Net(Committed(t))
  /\ sum[NumThreads] = counter + 2 * IntHalf * wraps
  /\ sync # "c" => wraps = 0
  /\ main = "join" => sum[t_main] = 0

Ledger ==
  sync # "none" =>
    \E sum \in [0..NumThreads -> Int] : \E wraps \in Int : LedgerOf(sum, wraps)

(* Without --sync a sum about to be stored is at most one ahead of the     *)
(* bounds of the counter, in the direction of its addend.                  *)
RaceInv ==
  sync = "none" =>
    /\ RaceBound
    /\ \A t \in Threads : pc[t] = "store" =>
         IF calls[t] < NumIterations
         THEN -Decrements <= reg[t] /\ reg[t] <= Increments + 1
         ELSE -Decrements - 1 <= reg[t] /\ reg[t] <= Increments

IInv == TypeOK /\ ControlInv /\ MainInv /\ LockInv /\ CasInv /\ Ledger

=============================================================================
