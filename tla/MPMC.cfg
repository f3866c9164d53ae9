CONSTANTS
  Producers = {p1, p2}
  Consumers = {c1, c2}
  NumAll = 3
  Length = 2
  NoItem = NoItem
SPECIFICATION FairSpec
INVARIANTS MutualExclusion SpacesAccounted ItemsAccounted
PROPERTIES ImplementsFifo Termination
