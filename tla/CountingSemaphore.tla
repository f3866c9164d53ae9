-------------------------- MODULE CountingSemaphore --------------------------
(***************************************************************************)
(* What a semaphore promises its callers, with no value, no queue and no   *)
(* condition variable: the calls of P that have returned exceed the calls  *)
(* of V by the initial value at most.                                      *)
(***************************************************************************)
EXTENDS Integers

CONSTANT Value      (* permits at the start                     *)

VARIABLE granted    (* calls of P that returned, less those of V *)

Init == granted = 0

Take == granted < Value /\ granted' = granted + 1

Give == granted' = granted - 1

Next == Take \/ Give

Spec == Init /\ [][Next]_granted

=============================================================================
