CONSTANTS
  PoolSizes = {0, 1, 4}
  SlabSize = 6
  ChunkSizes <- MCChunkSizes
  Requests = {0, 3, 4, 7}
  NULL = NULL
SPECIFICATION Spec
INVARIANTS TypeOK ListsLinked NoChunkLost
PROPERTY ImplementsPool
