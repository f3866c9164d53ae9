CONSTANTS
  num_blocks = 3
  block_size = 2
  Alignment = 3
  PointerSize = 2
  MaxAddress = 14
  NULL = NULL
  Unset = Unset
SPECIFICATION BlockSpec
INVARIANTS BlocksAccounted BlocksApart
PROPERTY BlocksImplementPool
