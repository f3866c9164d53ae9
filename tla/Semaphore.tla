------------------------------ MODULE Semaphore ------------------------------
(***************************************************************************)
(* The counting semaphore of matrix/MPMC/sem.c (elevator/ carries two more *)
(* copies of the same file): an int value, a count of wakeups granted and  *)
(* not yet used, a mutex and a condition variable.                         *)
(*                                                                         *)
(* Every access to the struct is made with semaphore->mutex held, and      *)
(* pthread_cond_wait releases that mutex and blocks in one step, so each   *)
(* stretch of code between taking the mutex and giving it up is one action *)
(* here.  The two stretches a caller of semaphore_P can go through are     *)
(* its entry and, after each wake-up, the test of the do ... while.        *)
(***************************************************************************)
EXTENDS Integers, FiniteSets

CONSTANT Threads

VARIABLE sem    (* the struct, with the threads blocked in its cv_wait:   *)
                (*   value, wakeups  the two integers of the struct       *)
                (*   asleep          in pthread_cond_wait                 *)
                (*   awake           woken, about to take the mutex again *)

Semaphores == [value : Int, wakeups : Nat,
               asleep : SUBSET Threads, awake : SUBSET Threads]

make_semaphore(v) == [value |-> v, wakeups |-> 0, asleep |-> {}, awake |-> {}]

(* The struct has its types, and a thread waits in at most one place.      *)
WellFormed == sem \in Semaphores /\ sem.asleep \cap sem.awake = {}

Blocked == sem.asleep \cup sem.awake

(* What cv_signal can make of the struct s: one sleeper, whichever the     *)
(* library picks, is woken; with nobody asleep the signal is lost.         *)
Signalled(s) ==
  IF s.asleep = {} THEN {s}
  ELSE {[s EXCEPT !.asleep = @ \ {t}, !.awake = @ \cup {t}] : t \in s.asleep}

-----------------------------------------------------------------------------
(* Plausible slips, kept for the runs to refute: a V that grants the        *)
(* wakeup and signals only while somebody is still owed one afterwards,     *)
(* one that forgets to signal, a P that lets one caller too many through.   *)
V_TestsStrictly(t) ==
  /\ t \notin Blocked
  /\ LET s == [sem EXCEPT !.value = @ + 1]
     IN  IF s.value < 0
         THEN sem' \in Signalled([s EXCEPT !.wakeups = @ + 1])
         ELSE sem' = s

V_NeverSignals(t) ==
  /\ t \notin Blocked
  /\ sem' = [sem EXCEPT !.value = @ + 1,
                        !.wakeups = IF sem.value + 1 <= 0 THEN @ + 1 ELSE @]

PTake_TestsAfterwards(t) ==
  /\ t \notin Blocked
  /\ sem.value >= 0
  /\ sem' = [sem EXCEPT !.value = @ - 1]

(* semaphore_P on entry: the decremented value is not negative, return.    *)
PTake(t) ==
  /\ t \notin Blocked
  /\ sem.value - 1 >= 0
  /\ sem' = [sem EXCEPT !.value = @ - 1]

(* semaphore_P on entry: the decremented value is negative, cv_wait.       *)
PWait(t) ==
  /\ t \notin Blocked
  /\ sem.value - 1 < 0
  /\ sem' = [sem EXCEPT !.value = @ - 1, !.asleep = @ \cup {t}]

(* Back from cv_wait with a wakeup to use: use it and return.              *)
PWake(t) ==
  /\ t \in sem.awake
  /\ sem.wakeups >= 1
  /\ sem' = [sem EXCEPT !.wakeups = @ - 1, !.awake = @ \ {t}]

(* Back from cv_wait with no wakeup left: wait again.                      *)
PAgain(t) ==
  /\ t \in sem.awake
  /\ sem.wakeups < 1
  /\ sem' = [sem EXCEPT !.awake = @ \ {t}, !.asleep = @ \cup {t}]

(* The steps with which a call of semaphore_P returns, and those after     *)
(* which it is still waiting.                                              *)
PReturn(t) == PTake(t) \/ PWake(t)
PBlock(t)  == PWait(t) \/ PAgain(t)

semaphore_V(t) ==
  /\ t \notin Blocked
  /\ LET s == [sem EXCEPT !.value = @ + 1]
     IN  IF s.value <= 0
         THEN sem' \in Signalled([s EXCEPT !.wakeups = @ + 1])
         ELSE sem' = s

(* pthread_cond_wait may return without a signal.                          *)
SpuriousWakeup(t) ==
  /\ t \in sem.asleep
  /\ sem' = [sem EXCEPT !.asleep = @ \ {t}, !.awake = @ \cup {t}]

-----------------------------------------------------------------------------
(* How many calls of semaphore_P can still return before the next          *)
(* semaphore_V: the positive part of the value, for calls yet to enter,    *)
(* and the wakeups, for calls that are waiting.                            *)
Permits == (IF sem.value > 0 THEN sem.value ELSE 0) + sem.wakeups

=============================================================================
