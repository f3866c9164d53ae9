--------------------------- MODULE SemaphoreClient ---------------------------
(***************************************************************************)
(* Threads that call semaphore_P and semaphore_V of one semaphore in any   *)
(* order, as the callers in rbuffer.c do: the thread that gives a permit   *)
(* back is in general not the one that took it.                            *)
(***************************************************************************)
EXTENDS Semaphore

CONSTANTS Value,        (* the argument of make_semaphore              *)
          MaxValue      (* bound of the model on the semaphore's value *)

ASSUME ValueAssumption == Value \in Nat /\ MaxValue \in Nat

ASSUME ThreadsAssumption == IsFiniteSet(Threads)

VARIABLE granted    (* history: calls of semaphore_P that have returned, *)
                    (* less the calls of semaphore_V                     *)

vars == <<sem, granted>>

Init == sem = make_semaphore(Value) /\ granted = 0

Next == \E t \in Threads :
          \/ PReturn(t) /\ granted' = granted + 1
          \/ PBlock(t) /\ UNCHANGED granted
          \/ sem.value < MaxValue /\ semaphore_V(t) /\ granted' = granted - 1
          \/ SpuriousWakeup(t) /\ UNCHANGED granted

Spec == Init /\ [][Next]_vars

-----------------------------------------------------------------------------
(* The struct has its types, and a thread waits in at most one place.      *)
TypeOK == WellFormed /\ granted \in Int

(* semaphore_P puts its caller to sleep when the value falls below 0, so   *)
(* the negative part of the value counts callers still owed a wakeup.      *)
(* Every blocked caller is either one of those or has a wakeup waiting for *)
(* it, whatever the order of signals, spurious wake-ups and new callers.   *)
WaitersAccounted ==
  Cardinality(Blocked) =
    sem.wakeups + (IF sem.value < 0 THEN - sem.value ELSE 0)

(* No lost wake-up: for every wakeup granted by semaphore_V there is a     *)
(* thread out of cv_wait that will see it; none is left for a sleeper      *)
(* nobody will signal.                                                     *)
NoStrandedWakeup == sem.wakeups <= Cardinality(sem.awake)

(* No permit is lost or made up while threads sleep, wake and wait again:  *)
(* what semaphore_P can still return for, in value and in wakeups, is what *)
(* the initial value and the calls made so far leave.                      *)
PermitsAccounted == Permits + granted = Value

(* The semaphore is a counting semaphore: a semaphore_P returns only on a  *)
(* permit, and never two on the same.                                      *)
Counting == INSTANCE CountingSemaphore
ImplementsCounting == Counting!Spec

=============================================================================
