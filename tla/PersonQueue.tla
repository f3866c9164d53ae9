---------------------------- MODULE PersonQueue ----------------------------
(***************************************************************************)
(* The queue of waiting people that the threads of an elevator simulation  *)
(* share (people.c of elevator/improved and elevator/basic): a list, the   *)
(* flag timesup, a mutex and a condition variable.                         *)
(*                                                                         *)
(* A stretch of code that holds the mutex and neither waits nor sleeps is  *)
(* one step, possible while the mutex is free.  The flag is written and    *)
(* the condition variable signalled without the mutex too, so the moment   *)
(* between a waiter's test and its wait is kept: lock is the elevator that *)
(* is there.  pthread_cond_wait releases the mutex and blocks in one step. *)
(* The member number counts the list and is left out.                      *)
(***************************************************************************)
EXTENDS Integers, Sequences, FiniteSets

CONSTANTS Elevators,    (* the threads that wait for people *)
          NoOne

VARIABLES queue,        (* the list, first to arrive first                 *)
          timesup,      (* the simulation time is up                       *)
          lock,         (* who has tested for people and is about to wait  *)
          waiting       (* who is blocked in cv_wait                       *)

queue_vars == <<queue, timesup, lock, waiting>>

PersonQueue_make_queue ==
  /\ queue = <<>> /\ timesup = FALSE /\ lock = NoOne /\ waiting = {}

-----------------------------------------------------------------------------
(* One waiter, whichever the library picks, goes on to test again; with    *)
(* nobody waiting the signal is lost.                                      *)
cv_signal == IF waiting = {} THEN UNCHANGED waiting
             ELSE \E e \in waiting : waiting' = waiting \ {e}

(* Elevator e can have the mutex for a test of the queue.                  *)
CanTest(e) == lock = NoOne /\ e \notin waiting

(* A slip for the runs to refute, like the others named Bug: a loop that   *)
(* waits for people only and forgets the time.                             *)
BugTestEmpty(e) ==
  /\ CanTest(e)
  /\ queue = <<>>
  /\ lock' = e
  /\ UNCHANGED <<queue, timesup, waiting>>

(* The three outcomes of the test in front of cv_wait: keep waiting, leave *)
(* because time is up after passing the signal on, or use the queue.       *)
TestEmpty(e) ==
  /\ CanTest(e)
  /\ ~timesup /\ queue = <<>>
  /\ lock' = e
  /\ UNCHANGED <<queue, timesup, waiting>>

TestTimesUp(e) ==
  /\ CanTest(e)
  /\ timesup
  /\ cv_signal
  /\ UNCHANGED <<queue, timesup, lock>>

TestReady(e) == CanTest(e) /\ ~timesup /\ queue # <<>>

cv_wait(e) ==
  /\ lock = e
  /\ lock' = NoOne
  /\ waiting' = waiting \cup {e}
  /\ UNCHANGED <<queue, timesup>>

SpuriousWakeup(e) ==
  /\ e \in waiting
  /\ waiting' = waiting \ {e}
  /\ UNCHANGED <<queue, timesup, lock>>

-----------------------------------------------------------------------------
(* An arrival that tells nobody.                                           *)
BugAddPerson(person) ==
  /\ lock = NoOne
  /\ queue' = Append(queue, person)
  /\ UNCHANGED <<timesup, lock, waiting>>

PersonQueue_add_person(person) ==
  /\ lock = NoOne
  /\ queue' = Append(queue, person)
  /\ cv_signal
  /\ UNCHANGED <<timesup, lock>>

PersonQueue_set_timesup == timesup' = TRUE /\ UNCHANGED <<queue, lock, waiting>>

(* The cv_signal of elevator_entry, sent without the mutex.                *)
signal_others == cv_signal /\ UNCHANGED <<queue, timesup, lock>>

=============================================================================
