SPECIFICATION FairSpec
CONSTANTS
  BLK_CNT = 6
  Sizes <- EveryLength
  Ids = 3
INVARIANTS TypeOK InBounds
PROPERTIES ImplementsFifo PushedIsHandled KeepsAccepting
