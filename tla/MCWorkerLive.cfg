SPECIFICATION FairSpec
CONSTANTS
  HdrLen = 2
  MaxPkgLen = 4
  PkgLens = {1, 2, 4}
  PoolSize = 3
  Bufs = {1, 2, 3, 4}
  ListenPortCount = 2
  FdLimit = 3
  Clients = {c1, c2}
  NoClient = NoClient
  MaxEvents = 2
  QHigh = 2
  QLow = 1
  HasAccept4 = FALSE
  IoctlMayFail = FALSE
PROPERTIES ClosedPeerReleased BacklogServed
CHECK_DEADLOCK FALSE
