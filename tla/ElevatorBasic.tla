--------------------------- MODULE ElevatorBasic ---------------------------
(***************************************************************************)
(* elevator/basic: elevators that fetch and carry one person at a time     *)
(* (elevator.c, people.c, elevator_entry of main.c).  What the improved    *)
(* elevator has under the same name is named Basic here.                   *)
(***************************************************************************)
EXTENDS Simulation

VARIABLES
  passenger,    (* people: the person the elevator fetches or carries      *)
  popped        (* what pop_person returned, until letin_person has used it *)

basic_elevator_vars == <<floor, passenger, popped>>
basic_vars == <<queue_vars, timeOver, maker_vars, num_people_finished, pc,
                l_num_people_finished, basic_elevator_vars>>

BasicInit == /\ SimulationInit
             /\ passenger = [e \in Elevators |-> NoOne]
             /\ popped = [e \in Elevators |-> NoOne]

(* Slips for the runs to refute are named Bug: an elevator that leaves     *)
(* when nobody waits.                                                      *)
BugBasicCheckTime(e) ==
  /\ Goto(e, "check", IF timeOver \/ queue = <<>> THEN "stop" ELSE "pop")
  /\ UNCHANGED <<queue_vars, l_num_people_finished, basic_elevator_vars>>

BasicCheckTime(e) ==
  /\ Goto(e, "check", IF timeOver THEN "stop" ELSE "pop")
  /\ UNCHANGED <<queue_vars, l_num_people_finished, basic_elevator_vars>>

-----------------------------------------------------------------------------
(* Take the first person and leave them in the queue.                      *)
BugTakeFirst(e) ==
  /\ TestReady(e)
  /\ popped' = [popped EXCEPT ![e] = Head(queue)]
  /\ UNCHANGED queue_vars

TakeFirst(e) ==
  /\ TestReady(e)
  /\ popped' = [popped EXCEPT ![e] = Head(queue)]
  /\ queue' = Tail(queue)
  /\ UNCHANGED <<timesup, lock, waiting>>

PersonQueue_pop_person(e) ==
  /\ \/ TestEmpty(e) /\ pc[e] = "pop" /\ UNCHANGED <<pc, popped>>
     \/ /\ TestTimesUp(e)
        /\ Goto(e, "pop", "letin")
        /\ popped' = [popped EXCEPT ![e] = NoOne]
     \/ TakeFirst(e) /\ Goto(e, "pop", "letin")
  /\ UNCHANGED <<l_num_people_finished, floor, passenger>>

(* The rest of letin_person.  A NULL person while time is not up ends the  *)
(* whole program (elevator.c:52-55).                                       *)
letin_person(e) ==
  /\ \/ /\ popped[e] = NoOne
        /\ Goto(e, "letin", IF timesup THEN "check" ELSE "exit")
        /\ UNCHANGED <<passenger, popped>>
     \/ /\ popped[e] # NoOne
        /\ Goto(e, "letin", "depart")
        /\ passenger' = [passenger EXCEPT ![e] = popped[e]]
        /\ popped' = [popped EXCEPT ![e] = NoOne]
  /\ UNCHANGED <<queue_vars, l_num_people_finished, floor>>

-----------------------------------------------------------------------------
(* transport_person: the way to the person and the way with the person,    *)
(* timesup being read without the mutex before and after each.  When it is *)
(* set the person stays with the elevator.                                 *)
Depart(e) ==
  /\ Goto(e, "depart", IF timesup THEN "check" ELSE "fetch")
  /\ UNCHANGED <<queue_vars, l_num_people_finished, basic_elevator_vars>>

Fetch(e) ==
  /\ Goto(e, "fetch", IF timesup THEN "check" ELSE "pick_up")
  /\ floor' = [floor EXCEPT ![e] = passenger[e].from]
  /\ UNCHANGED <<queue_vars, l_num_people_finished, passenger, popped>>

PickUp(e) ==
  /\ Goto(e, "pick_up", IF timesup THEN "check" ELSE "carry")
  /\ UNCHANGED <<queue_vars, l_num_people_finished, basic_elevator_vars>>

(* Count the person as transported although time was up.                   *)
BugTurnedBack(e) ==
  /\ timesup
  /\ Goto(e, "carry", "check")
  /\ l_num_people_finished' = [l_num_people_finished EXCEPT ![e] = @ + 1]
  /\ UNCHANGED <<queue_vars, basic_elevator_vars>>

(* Time is up on the way: nobody is dropped.                               *)
TurnedBack(e) ==
  /\ timesup
  /\ Goto(e, "carry", "check")
  /\ UNCHANGED <<queue_vars, l_num_people_finished, basic_elevator_vars>>

DropPerson(e) ==
  /\ ~timesup
  /\ Goto(e, "carry", "check")
  /\ floor' = [floor EXCEPT ![e] = passenger[e].to]
  /\ passenger' = [passenger EXCEPT ![e] = NoOne]
  /\ l_num_people_finished' = [l_num_people_finished EXCEPT ![e] = @ + 1]
  /\ UNCHANGED <<queue_vars, popped>>

BasicWork(e) ==
  /\ \/ BasicCheckTime(e) \/ PersonQueue_pop_person(e) \/ letin_person(e)
     \/ Depart(e) \/ Fetch(e) \/ PickUp(e) \/ TurnedBack(e) \/ DropPerson(e)
  /\ UNCHANGED <<timeOver, maker_vars, num_people_finished>>

basic_elevator_entry(e) ==
  \/ BasicWork(e)
  \/ (Stop(e) \/ Wait(e)) /\ UNCHANGED basic_elevator_vars

-----------------------------------------------------------------------------
(* main has joined every thread.                                           *)
BasicJoined == AllDone /\ UNCHANGED basic_vars

BasicNext == \/ \E e \in Elevators : basic_elevator_entry(e)
             \/ people_maker_entry /\ UNCHANGED basic_elevator_vars
             \/ Tick /\ UNCHANGED basic_elevator_vars
             \/ \E e \in Elevators : Wakeup(e) /\ UNCHANGED basic_elevator_vars
             \/ BasicJoined

BasicSpec == BasicInit /\ [][BasicNext]_basic_vars

(* Elevator threads that can run are scheduled; spurious wake-ups need not *)
(* happen and the people maker may sleep for any time.                     *)
BasicFairness == \A e \in Elevators : WF_basic_vars(basic_elevator_entry(e))

BasicFairSpec == BasicSpec /\ BasicFairness

-----------------------------------------------------------------------------
(* Every variable has its type.                                            *)
BasicTypeOK ==
  /\ SimulationTypeOK
  /\ pc \in [Elevators -> StopLabels \cup {"pop", "letin", "exit", "depart",
                                           "fetch", "pick_up", "carry"}]
  /\ floor \in [Elevators -> Floors]
  /\ passenger \in [Elevators -> People \cup {NoOne}]
  /\ popped \in [Elevators -> People \cup {NoOne}]

(* Nobody is lost and nobody is in two places: everyone that was made is   *)
(* in the queue, with one elevator, or delivered.                          *)
BasicConservation ==
  LET held(e) == {passenger[e], popped[e]} \ {NoOne}
      carried == UNION {held(e) : e \in Elevators}
  IN  /\ \A e, f \in Elevators : e # f => held(e) \cap held(f) = {}
      /\ \A e \in Elevators : held(e) \cap WaitingPeople = {}
      /\ Len(queue) + Cardinality(carried) + SumOver(l_num_people_finished)
           = person_id

(* An elevator that gets nobody from the queue finds time is up, though it *)
(* reads timesup after it gave up the mutex, so the program never ends in  *)
(* letin_person; and no elevator takes a second person while the one that  *)
(* transport_person gave up on is still aboard, which would forget them.   *)
LetinIsSafe ==
  \A e \in Elevators :
     /\ pc[e] # "exit"
     /\ pc[e] \in {"pop", "letin"} => passenger[e] = NoOne

(* The person with this id is in the queue.                                *)
InQueue(id) == \E p \in WaitingPeople : p.id = id

(* While there is time everyone in the queue is taken in the end, though   *)
(* each arrival signals one waiting elevator only (people.c:97), which may *)
(* find the person gone.  The queue is served from its head, so later      *)
(* arrivals delay nobody.                                                  *)
EveryoneIsTaken ==
  \A id \in 0 .. MaxPeople - 1 : InQueue(id) ~> (timeOver \/ ~InQueue(id))

(* Everyone who is asleep when an elevator that has flagged the end of the *)
(* time is about to signal (main.c:151) wakes up.  That signal wakes one   *)
(* elevator; when two or more are asleep the others depend on the one it   *)
(* wakes, which finds timesup set and passes the signal on before it       *)
(* leaves pop_person (people.c:121) and again when it stops (main.c:151).  *)
(* Who falls asleep only after that signal may sleep on:                   *)
(* OthersStopWaiting in ElevatorImproved, whose queue does the same.       *)
SleepersAreAwoken ==
  \A e \in Elevators :
     (e \in waiting /\ \E f \in Elevators : pc[f] = "signal")
       ~> e \notin waiting

=============================================================================
