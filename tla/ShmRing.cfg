CONSTANTS
  Size = 4
  Wrap = 8
  NMessages = 9
  Left = {0}
  NoItem = NoItem
SPECIFICATION FairSpec
INVARIANTS TypeOK NoSharedSlot
PROPERTIES ImplementsFifo Termination
