SPECIFICATION Spec
CONSTANTS
  HdrLen = 1
  MaxPkgLen = 2
  PkgLens = {2}
  PoolSize = 2
  Bufs = {1, 2, 3}
  ListenPortCount = 1
  FdLimit = 2
  Clients = {c1, c2}
  NoClient = NoClient
  MaxEvents = 3
  QHigh = 2
  QLow = 1
  HasAccept4 = FALSE
  IoctlMayFail = TRUE
SYMMETRY ClientSymmetry
INVARIANTS RegisteredNonblocking
CHECK_DEADLOCK FALSE
