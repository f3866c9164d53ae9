-------------------------- MODULE ElevatorImproved --------------------------
(***************************************************************************)
(* elevator/improved: elevators that carry several people at a time, all   *)
(* in one direction (elevator.c, people.c, elevator_entry of main.c).      *)
(***************************************************************************)
EXTENDS Simulation

VARIABLES
  people,       (* who is aboard                                           *)
  direction,    (* 1 up, -1 down, 0 none yet                               *)
  dest_floor,   (* the floor to move to, or -1                             *)
  boarding      (* popped from the queue and not aboard yet                *)

elevator_vars == <<floor, people, direction, dest_floor, boarding>>
vars == <<queue_vars, timeOver, maker_vars, num_people_finished, pc,
          l_num_people_finished, elevator_vars>>

Init == /\ SimulationInit
        /\ people = [e \in Elevators |-> {}]
        /\ direction = [e \in Elevators |-> 0]
        /\ dest_floor = [e \in Elevators |-> -1]
        /\ boarding = [e \in Elevators |-> {}]

Sign(n) == IF n > 0 THEN 1 ELSE -1

-----------------------------------------------------------------------------
(* Slips for the runs to refute are named Bug: here an elevator that sets  *)
(* off without a direction when it is empty.                               *)
BugCheckTime(e) ==
  /\ Goto(e, "check", IF timeOver THEN "stop" ELSE "move")
  /\ UNCHANGED <<queue_vars, l_num_people_finished, elevator_vars>>

(* The loop of elevator_entry: an empty elevator needs a direction first.  *)
CheckTime(e) ==
  /\ Goto(e, "check", IF timeOver THEN "stop"
                      ELSE IF people[e] = {} THEN "direction" ELSE "move")
  /\ UNCHANGED <<queue_vars, l_num_people_finished, elevator_vars>>

(* The first of those in the queue who are nearest to floor f.             *)
NearestWaiting(f) ==
  LET away(k) == Distance(f, queue[k].from)
  IN  queue[CHOOSE k \in DOMAIN queue :
              \A j \in DOMAIN queue :
                away(k) < away(j) \/ (away(k) = away(j) /\ k <= j)]

(* Always head for the nearest, though they may want to go elsewhere.      *)
BugChooseDirection(e) ==
  /\ TestReady(e)
  /\ LET nearest == NearestWaiting(floor[e])
     IN  /\ direction' = [direction EXCEPT ![e] = Sign(nearest.from - floor[e])]
         /\ dest_floor' = [dest_floor EXCEPT ![e] = nearest.from]
  /\ Goto(e, "direction", "move")
  /\ UNCHANGED <<queue_vars, floor, people, boarding>>

(* make_sure_direction: wait for people, then head for the nearest, or     *)
(* where they want to go if they are on this very floor.                   *)
ChooseDirection(e) ==
  /\ TestReady(e)
  /\ LET nearest == NearestWaiting(floor[e])
         aim == IF nearest.from # floor[e] THEN nearest.from ELSE nearest.to
     IN  /\ direction' = [direction EXCEPT ![e] = Sign(aim - floor[e])]
         /\ dest_floor' = [dest_floor EXCEPT ![e] = nearest.from]
  /\ Goto(e, "direction", "move")
  /\ UNCHANGED <<queue_vars, floor, people, boarding>>

make_sure_direction(e) ==
  /\ pc[e] = "direction"
  /\ \/ TestEmpty(e) /\ UNCHANGED <<pc, elevator_vars>>
     \/ /\ TestTimesUp(e)
        /\ Goto(e, "direction", "check")
        /\ dest_floor' = [dest_floor EXCEPT ![e] = -1]
        /\ UNCHANGED <<floor, people, direction, boarding>>
     \/ ChooseDirection(e)
  /\ UNCHANGED l_num_people_finished

(* move_to_dest_floor: before and after the time the move takes, timesup   *)
(* is read without the mutex.                                              *)
StartMoving(e) ==
  /\ Goto(e, "move", IF timesup THEN "drop" ELSE "arrive")
  /\ UNCHANGED <<queue_vars, l_num_people_finished, elevator_vars>>

Arrive(e) ==
  /\ Goto(e, "arrive", "drop")
  /\ floor' = IF timesup THEN floor ELSE [floor EXCEPT ![e] = dest_floor[e]]
  /\ UNCHANGED <<queue_vars, l_num_people_finished, people, direction,
                 dest_floor, boarding>>

(* A drop that counts people and keeps them aboard.                        *)
BugDropPeople(e) ==
  /\ Goto(e, "drop", "pop")
  /\ LET dropped == {p \in people[e] : p.to = floor[e]}
     IN  l_num_people_finished' =
           [l_num_people_finished EXCEPT ![e] = @ + Cardinality(dropped)]
  /\ UNCHANGED <<queue_vars, people, floor, direction, dest_floor, boarding>>

drop_people(e) ==
  /\ Goto(e, "drop", "pop")
  /\ LET dropped == IF timesup THEN {} ELSE {p \in people[e] : p.to = floor[e]}
     IN  /\ people' = [people EXCEPT ![e] = @ \ dropped]
         /\ l_num_people_finished' =
              [l_num_people_finished EXCEPT ![e] = @ + Cardinality(dropped)]
  /\ UNCHANGED <<queue_vars, floor, direction, dest_floor, boarding>>

(* Take everybody on this floor, whichever way they go.                    *)
BugGoesAlong(p, e) == p.from = floor[e]

(* PersonQueue_pop_people: wait for people, then take those on this floor  *)
(* who go this way.                                                        *)
GoesAlong(p, e) == p.from = floor[e] /\ (p.to - p.from) * direction[e] > 0

(* The list without those in taken, in one pass over it.                   *)
Without(list, taken) ==
  LET rest[n \in 0 .. Len(list)] ==
        IF n = 0 THEN <<>>
        ELSE IF list[n] \in taken THEN rest[n - 1]
        ELSE Append(rest[n - 1], list[n])
  IN  rest[Len(list)]

PopPeople(e) ==
  /\ TestReady(e)
  /\ LET taken == {p \in WaitingPeople : GoesAlong(p, e)}
     IN  /\ boarding' = [boarding EXCEPT ![e] = taken]
         /\ queue' = Without(queue, taken)
  /\ Goto(e, "pop", "board")
  /\ UNCHANGED <<timesup, lock, waiting>>

PersonQueue_pop_people(e) ==
  /\ pc[e] = "pop"
  /\ \/ TestEmpty(e) /\ UNCHANGED <<pc, boarding>>
     \/ TestTimesUp(e) /\ Goto(e, "pop", "board") /\ UNCHANGED boarding
     \/ PopPeople(e)
  /\ UNCHANGED <<l_num_people_finished, floor, people, direction, dest_floor>>

(* The rest of letin_people: the next destination is the nearest floor     *)
(* somebody aboard wants to go to.                                         *)
NearestDestination(f, aboard) ==
  IF aboard = {} THEN -1
  ELSE (CHOOSE p \in aboard :
          \A q \in aboard : Distance(f, p.to) <= Distance(f, q.to)).to

(* The next destination is chosen among those who were aboard before.      *)
BugLetinPeople(e) ==
  /\ Goto(e, "board", "check")
  /\ people' = [people EXCEPT ![e] = @ \cup boarding[e]]
  /\ boarding' = [boarding EXCEPT ![e] = {}]
  /\ dest_floor' = [dest_floor EXCEPT
                      ![e] = NearestDestination(floor[e], people[e])]
  /\ UNCHANGED <<queue_vars, l_num_people_finished, floor, direction>>

letin_people(e) ==
  /\ Goto(e, "board", "check")
  /\ IF boarding[e] = {} /\ timesup
     THEN UNCHANGED <<people, boarding, dest_floor>>
     ELSE /\ people' = [people EXCEPT ![e] = @ \cup boarding[e]]
          /\ boarding' = [boarding EXCEPT ![e] = {}]
          /\ dest_floor' = [dest_floor EXCEPT
                              ![e] = NearestDestination(floor[e], people'[e])]
  /\ UNCHANGED <<queue_vars, l_num_people_finished, floor, direction>>

Work(e) ==
  /\ \/ CheckTime(e) \/ make_sure_direction(e)
     \/ StartMoving(e) \/ Arrive(e)
     \/ drop_people(e) \/ PersonQueue_pop_people(e) \/ letin_people(e)
  /\ UNCHANGED <<timeOver, maker_vars, num_people_finished>>

elevator_entry(e) == \/ Work(e)
                     \/ (Stop(e) \/ Wait(e)) /\ UNCHANGED elevator_vars

-----------------------------------------------------------------------------
(* main has joined every thread.                                           *)
Joined == AllDone /\ UNCHANGED vars

Next == \/ \E e \in Elevators : elevator_entry(e)
        \/ people_maker_entry /\ UNCHANGED elevator_vars
        \/ Tick /\ UNCHANGED elevator_vars
        \/ \E e \in Elevators : Wakeup(e) /\ UNCHANGED elevator_vars
        \/ Joined

Spec == Init /\ [][Next]_vars

(* Elevator threads that can run are scheduled.  Spurious wake-ups need    *)
(* not happen, the time need not be up while elevators have work, and the  *)
(* people maker may sleep for any time between two people: what is         *)
(* promised must not wait for any of these.                                *)
Fairness == \A e \in Elevators : WF_vars(elevator_entry(e))

FairSpec == Spec /\ Fairness

-----------------------------------------------------------------------------
(* Every variable has its type.                                            *)
TypeOK ==
  /\ SimulationTypeOK
  /\ pc \in [Elevators -> StopLabels \cup
               {"direction", "move", "arrive", "drop", "pop", "board"}]
  /\ floor \in [Elevators -> Floors]
  /\ people \in [Elevators -> SUBSET People]
  /\ direction \in [Elevators -> {-1, 0, 1}]
  /\ dest_floor \in [Elevators -> Floors \cup {-1}]
  /\ boarding \in [Elevators -> SUBSET People]

(* Nobody is lost and nobody is in two places: everyone that was made is   *)
(* in the queue, between the queue and an elevator, aboard one elevator,   *)
(* or delivered, whatever the elevators take from the queue at once.       *)
Conservation ==
  LET aboard(e) == people[e] \cup boarding[e]
      carried == UNION {aboard(e) : e \in Elevators}
  IN  /\ \A e, f \in Elevators : e # f => aboard(e) \cap aboard(f) = {}
      /\ \A e \in Elevators :
           people[e] \cap boarding[e] = {} /\ aboard(e) \cap WaitingPeople = {}
      /\ Len(queue) + Cardinality(carried) + SumOver(l_num_people_finished)
           = person_id

(* Everybody aboard has their floor ahead: an elevator with passengers     *)
(* goes on in its direction and passes nobody's floor, though its          *)
(* direction and destination were chosen from a queue that others have     *)
(* since changed.  Whoever's floor is reached gets off before the next     *)
(* round, unless the time is up.                                           *)
PassengersAhead ==
  \A e \in Elevators : \A p \in people[e] \cup boarding[e] :
     \/ (p.to - floor[e]) * direction[e] > 0
     \/ p.to = floor[e] /\ (pc[e] = "drop" \/ timesup)

(* The parameter checks that end the program (elevator.c:218, :344,        *)
(* people.c:147) never fail: an elevator that moves has a floor to move    *)
(* to and one that opens its doors has a direction, so the -1 of           *)
(* letin_people is only ever seen by an empty elevator.                    *)
NoPerrorExit ==
  \A e \in Elevators :
     /\ pc[e] \in {"move", "arrive"} => dest_floor[e] >= 0
     /\ pc[e] \in {"move", "arrive", "drop", "pop", "board"} => direction[e] # 0

(* What main prints at the end: everyone who was started and is not        *)
(* finished is still in the queue or aboard an elevator.                   *)
Tally ==
  AllDone =>
    num_people_started - num_people_finished =
      Len(queue) + Cardinality(UNION {people[e] : e \in Elevators})

(* Once arrivals cease everyone in the queue is taken, however many have   *)
(* come: the queue empties, or the time is up, or somebody else arrives.   *)
(* More cannot be said.  make_sure_direction heads for the nearest         *)
(* (elevator.c:168-180), so people who go on arriving near the elevators   *)
(* can keep them from one far away for as long as they do.                 *)
TakenOnceArrivalsCease ==
  \A made \in 1 .. MaxPeople :
     person_id = made ~> (queue = <<>> \/ timeOver \/ person_id > made)

(* "signal others to stop waiting" (main.c:170): when an elevator has      *)
(* flagged the end of the time, the others stop waiting.                   *)
OthersStopWaiting == \A e \in Elevators : timesup ~> (pc[e] = "done")

=============================================================================
