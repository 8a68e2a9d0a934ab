SPECIFICATION Spec
CONSTANTS
  Pollers = {p1, p2}
  Jobs <- AllJobs
  Tenant = "org"
  Runner = "runner"
  AllowedTargets = {"app"}
  UnstorableNonces = {"_n4"}
  MaxEntries = 4
  MaxBytes = 4
  EntryBytes = 1
  MaxLifetime = 3
  MaxTime = 2
  MaxPolls = 2
PROPERTIES
  ReplayedJobRefused
CHECK_DEADLOCK FALSE
