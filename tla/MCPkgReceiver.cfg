SPECIFICATION FairSpec
CONSTANTS
  HdrLen = 3
  MaxPkgLen = 6
  Radix = 3
  StreamLen = 8
  Streams <- MCStreams
  Junk = junk
INVARIANTS TypeOK FitsBuffer Collected
PROPERTIES ImplementsPkgStream NothingWithheld
CHECK_DEADLOCK FALSE
