CONSTANTS
  cava = cava
  Capacity = 2
  Silence = 0
  Values <- MCValues
  Readers = {cava}
  ChunkSizes <- MCChunkSizes
  MaxValues = 5
  MaxChanges = 5
SPECIFICATION BuffersSpec
INVARIANTS
  HeardInOrder
  NothingOldIsHeard
PROPERTIES
  KeepsLatest
CHECK_DEADLOCK FALSE
