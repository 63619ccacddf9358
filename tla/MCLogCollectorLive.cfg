SPECIFICATION FairSpec
CONSTANTS
  Threads = {t1, t2}
  Statements = {s1}
  Urgent = {s1}
  FlushBufSize = 2
  Files = {f1}
  MaxLogs = 2
  MaxSets = 1
PROPERTIES PushedIsHandled MembufFlushed
CHECK_DEADLOCK FALSE
