CONSTANTS
  Elevators = {e1, e2}
  NoOne = NoOne
  NFloors = 3
  MaxPeople = 2
SPECIFICATION FairSpec
INVARIANTS TypeOK Conservation PassengersAhead NoPerrorExit Tally
PROPERTY TakenOnceArrivalsCease
