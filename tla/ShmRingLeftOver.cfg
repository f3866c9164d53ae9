CONSTANTS
  Size = 2
  Wrap = 4
  NMessages = 1
  Left = {0, 1, 2}
  NoItem = NoItem
SPECIFICATION Spec
PROPERTY InitEmpties
