SPECIFICATION MCSpec
CONSTANTS
  p1 = p1
  p2 = p2
  Processes = {p1}
  Keys = {k1}
  Grace = 2
  Ttls = {1, 3}
  Lifetimes = {1, 4}
  MaxLife = 3
  Versions = {TRUE, FALSE}
  Simulations = {s}
  WriteFaults = TRUE
  MaxTime = 4
  a = a
  b = b
  n1 = n1
  n2 = n2
  Scans = {a, b}
  Names = {n1, n2}
  Selections <- SomeSelections
  Mentioned <- SomeMentioned
  Limit <- SomeLimit
  BatchSize = 1
  Workers = 2
  Ttl = 1
  Patience = 1
  MaxChanges = 1
  MaxClock = 2
INVARIANTS
  
  PaidFromTokenIsBounded
  CancelledPlanEnds
  ToldRecently
  CompleteWasTold
CHECK_DEADLOCK FALSE
