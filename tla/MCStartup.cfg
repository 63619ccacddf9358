SPECIFICATION Spec
CONSTANTS
  Numbers = {0, 1, 3, 5}
  MaxListenPorts = 2
  MaxWorkers = 3
  PortNumbers = 4
INVARIANTS TypeOK WrittenOnce FailureTold WorkersListen Detached
CHECK_DEADLOCK FALSE
