SPECIFICATION FairSpec
CONSTANTS
  N = 2
  Timeout = 3
  Cpu = 2
  Slack = 1
  MaxTime = 6
  Total = 4
INVARIANTS
  
  NothingLeftRunning
  SharedDeadline
  ExitCodeHonest
  ProofNeedsControl
PROPERTIES
  FindingsSpec
  EveryRunEnds
CHECK_DEADLOCK FALSE
