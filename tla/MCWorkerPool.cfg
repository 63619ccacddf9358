SPECIFICATION Spec
CONSTANTS
  HdrLen = 2
  MaxPkgLen = 4
  PkgLens = {1, 2, 4, 5}
  PoolSize = 3
  Bufs = {1, 2, 3, 4}
  ListenPortCount = 1
  FdLimit = 4
  Clients = {c1, c2, c3}
  NoClient = NoClient
  MaxEvents = 3
  QHigh = 2
  QLow = 1
  HasAccept4 = TRUE
  IoctlMayFail = FALSE
SYMMETRY ClientSymmetry
INVARIANTS TypeOK PoolConserved InterestConsistent EventsNotStale
  SequenceIdentifiesSession BufferOwnership MemoryBounded
PROPERTIES LiveClientKept
CHECK_DEADLOCK FALSE
