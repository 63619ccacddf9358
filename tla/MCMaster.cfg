SPECIFICATION FairSpec
CONSTANTS
  WorkerProcesses = 2
  Logged = {SIGHUP}
  Deadly = {SIGALRM}
  MaxSent = 2
INVARIANTS TypeOK ZombieAnnounced
PROPERTIES ZombiesReaped
CHECK_DEADLOCK FALSE
