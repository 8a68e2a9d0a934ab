SPECIFICATION Spec
CONSTANTS
  Processes = {p1, p2}
  Keys = {k1}
  MaxEnrolled = 1
  MaxPolls = 1
  MaxCommands = 2
  ReadFaults = FALSE
PROPERTIES
  RunnerCredentialKept
CHECK_DEADLOCK FALSE
