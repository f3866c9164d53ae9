-------------------------- MODULE MCElevatorBasic --------------------------
(***************************************************************************)
(* ElevatorBasic with people who all go up.  A basic elevator never looks  *)
(* at where people go before it has taken them, and then it only takes     *)
(* time to get there: with two floors and one way to go there is room for  *)
(* a third elevator.                                                       *)
(***************************************************************************)
EXTENDS ElevatorBasic

EveryoneGoesUp == \A p \in WaitingPeople : p.from < p.to

MCNext == BasicNext /\ EveryoneGoesUp'

MCSpec == BasicInit /\ [][MCNext]_basic_vars

(* No step of an elevator adds to the queue, so the restriction keeps none *)
(* from a step that BasicFairness asks of it.                              *)
MCFairSpec == MCSpec /\ BasicFairness
=============================================================================
