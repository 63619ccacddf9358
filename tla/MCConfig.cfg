SPECIFICATION FairSpec
CONSTANTS
  FileMax = 6
  Files <- AllFiles
  LineMax = 5
INVARIANTS TypeOK LookupAsWritten
PROPERTIES LoadEnds
CHECK_DEADLOCK FALSE
