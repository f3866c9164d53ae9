CONSTANTS
  Elevators = {e1, e2}
  NoOne = NoOne
  NFloors = 2
  MaxPeople = 1
SPECIFICATION FairSpec
PROPERTY OthersStopWaiting
