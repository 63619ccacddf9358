SPECIFICATION Spec
CONSTANTS
  Threads = {t1}
  Statements = {s1}
  Urgent = {}
  FlushBufSize = 2
  Files = {f1, f2}
  MaxLogs = 2
  MaxSets = 2
INVARIANTS FposIsFileEnd
CHECK_DEADLOCK FALSE
