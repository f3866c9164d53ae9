CONSTANTS
  Elevators = {e1, e2, e3}
  NoOne = NoOne
  NFloors = 2
  MaxPeople = 2
SPECIFICATION MCFairSpec
INVARIANTS BasicTypeOK BasicConservation LetinIsSafe
PROPERTIES EveryoneIsTaken SleepersAreAwoken
