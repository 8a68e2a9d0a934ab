SPECIFICATION FairSpec
CONSTANTS
  Processes = {p1, p2}
  Keys = {k1, k2}
  MaxEnrolled = 1
  MaxPolls = 1
  MaxCommands = 2
  ReadFaults = TRUE
INVARIANTS
  PlanMatchesKey
  EnrolledMeansStored
PROPERTIES
  SerialSpec
  EveryCommandEnds
CHECK_DEADLOCK FALSE
