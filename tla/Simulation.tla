----------------------------- MODULE Simulation -----------------------------
(***************************************************************************)
(* What the two elevator simulations have in common (main.c of             *)
(* elevator/basic and elevator/improved): the thread that makes people,    *)
(* the clock, and the loop of an elevator thread around its work.          *)
(***************************************************************************)
EXTENDS PersonQueue, FiniteSetsExt

CONSTANTS NFloors,      (* number of floors                                *)
          MaxPeople     (* bound of the model: people made in the run      *)

ASSUME SimulationAssumption ==
  /\ IsFiniteSet(Elevators) /\ Elevators # {} /\ NoOne \notin Elevators
  /\ NFloors \in Nat /\ NFloors > 1             (* main rejects the others *)
  /\ MaxPeople \in Nat

VARIABLES
  timeOver,             (* time(0) - begining_time >= simulation_time      *)
  maker,                (* where the people maker is                       *)
  person_id,            (* the next id of the IDMaker of people            *)
  num_people_started, num_people_finished,      (* the totals of struct GV *)
  pc,                   (* where each elevator thread is in its program,   *)
  floor,                (* its current_floor,                              *)
  l_num_people_finished (* and its own count                               *)

maker_vars == <<maker, person_id, num_people_started>>

Floors == 0 .. NFloors - 1

People == {p \in [id : 0 .. MaxPeople - 1, from : Floors, to : Floors] :
             p.from # p.to}

ASSUME NobodyAssumption == NoOne \notin People

Distance(a, b) == IF a < b THEN b - a ELSE a - b

Goto(e, from, to) == pc[e] = from /\ pc' = [pc EXCEPT ![e] = to]

SimulationInit ==
  /\ PersonQueue_make_queue
  /\ timeOver = FALSE
  /\ maker = "check" /\ person_id = 0
  /\ num_people_started = 0 /\ num_people_finished = 0
  /\ pc = [e \in Elevators |-> "check"]
  /\ floor = [e \in Elevators |-> 0]
  /\ l_num_people_finished = [e \in Elevators |-> 0]

-----------------------------------------------------------------------------
(* people_maker_entry.  It makes people until its check of the time fails; *)
(* the model makes MaxPeople at most and then lets it wait for that.       *)
CheckBeforeMaking ==
  /\ maker = "check"
  /\ maker' = IF timeOver THEN "done" ELSE "sleep"
  /\ timeOver \/ person_id < MaxPeople
  /\ UNCHANGED <<person_id, num_people_started, queue_vars>>

MakePerson ==
  /\ maker = "sleep"
  /\ \E from, to \in Floors :
       /\ from # to
       /\ PersonQueue_add_person([id |-> person_id, from |-> from, to |-> to])
  /\ person_id' = person_id + 1
  /\ maker' = "count"
  /\ UNCHANGED num_people_started

CountPerson ==
  /\ maker = "count"
  /\ num_people_started' = num_people_started + 1
  /\ maker' = "check"
  /\ UNCHANGED <<person_id, queue_vars>>

people_maker_entry ==
  /\ CheckBeforeMaking \/ MakePerson \/ CountPerson
  /\ UNCHANGED <<timeOver, num_people_finished, pc, l_num_people_finished>>

(* The simulation time passes.                                             *)
Tick ==
  /\ ~timeOver /\ timeOver' = TRUE
  /\ UNCHANGED <<queue_vars, maker_vars, num_people_finished, pc,
                 l_num_people_finished>>

-----------------------------------------------------------------------------
(* The end of elevator_entry: flag the end of time, tell a waiting         *)
(* elevator, hand in the count.                                            *)
SetTimesup(e) ==
  /\ Goto(e, "stop", "signal")
  /\ PersonQueue_set_timesup
  /\ UNCHANGED <<num_people_finished, l_num_people_finished>>

SignalOthers(e) ==
  /\ Goto(e, "signal", "hand_in")
  /\ signal_others
  /\ UNCHANGED <<num_people_finished, l_num_people_finished>>

(* An elevator that hands in one person too few.                           *)
BugHandIn(e) ==
  /\ Goto(e, "hand_in", "done")
  /\ num_people_finished' = l_num_people_finished[e]
  /\ UNCHANGED <<queue_vars, l_num_people_finished>>

update_global_num_people_finished(e) ==
  /\ Goto(e, "hand_in", "done")
  /\ num_people_finished' = num_people_finished + l_num_people_finished[e]
  /\ UNCHANGED <<queue_vars, l_num_people_finished>>

Stop(e) ==
  /\ \/ SetTimesup(e) \/ SignalOthers(e)
     \/ update_global_num_people_finished(e)
  /\ UNCHANGED <<timeOver, maker_vars>>

Wait(e) ==
  /\ cv_wait(e)
  /\ UNCHANGED <<timeOver, maker_vars, num_people_finished, pc,
                 l_num_people_finished>>

Wakeup(e) ==
  /\ SpuriousWakeup(e)
  /\ UNCHANGED <<timeOver, maker_vars, num_people_finished, pc,
                 l_num_people_finished>>

AllDone == maker = "done" /\ \A e \in Elevators : pc[e] = "done"

-----------------------------------------------------------------------------
StopLabels == {"check", "stop", "signal", "hand_in", "done"}

SimulationTypeOK ==
  /\ queue \in Seq(People) /\ timesup \in BOOLEAN
  /\ lock \in Elevators \cup {NoOne} /\ waiting \subseteq Elevators
  /\ timeOver \in BOOLEAN
  /\ maker \in {"check", "sleep", "count", "done"}
  /\ person_id \in 0 .. MaxPeople
  /\ num_people_started \in 0 .. MaxPeople
  /\ num_people_finished \in 0 .. MaxPeople
  /\ l_num_people_finished \in [Elevators -> 0 .. MaxPeople]

WaitingPeople == {queue[k] : k \in DOMAIN queue}

(* Added up over the elevators.                                            *)
SumOver(f) == MapThenSumSet(LAMBDA e : f[e], Elevators)

=============================================================================
