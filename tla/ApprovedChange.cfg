SPECIFICATION MCSpec
CONSTANTS
  narrow = narrow
  wide = wide
  other = other
  Processes = {p1, p2}
  Requests <- SmallRequests
  Ids = {"id1", "id2"}
  IdOf <- SmallIdOf
  Decisions = {d1, d2}
  Expiry <- SmallExpiry
  Faults = TRUE
  MaxTime = 1
  Configs <- SmallConfigs
  Helpers = {"src", "root"}
  MaxEdits = 2
INVARIANTS
  OneContentUnlessOverlapped
  EveryActionRecorded
  
  RollbackLeavesNothing
  RunsApprovedTests
