SPECIFICATION Spec
CONSTANTS
  Threads = {t1, t2, t3}
  Statements = {s1, s2}
  Urgent = {s2}
  FlushBufSize = 2
  Files = {f1}
  MaxLogs = 2
  MaxSets = 0
INVARIANTS TypeOK KnownWhenHandled HeapIsLive
PROPERTIES ImplementsLogMerge
SYMMETRY Symmetric
CHECK_DEADLOCK FALSE
