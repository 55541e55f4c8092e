CONSTANTS
  Starting = 1
  ChunkCountMax = 1
  ErrLimit = 1
  PipeSize = 1
  Programs <- MCPrograms
SPECIFICATION Spec
CHECK_DEADLOCK FALSE
INVARIANTS
  TypeOK
  BufferBounded
PROPERTIES
  ImplementsChannel
  CallerEnds
  ThreadsEnd
