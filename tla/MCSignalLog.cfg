SPECIFICATION Spec
CONSTANTS
  Signals = {SIGHUP, SIGTERM}
  MainStatements = {s1}
  MaxMessages = 3
  MaxSignals = 2
INVARIANTS SignalsReceivedNormally
CHECK_DEADLOCK FALSE
