SPECIFICATION FairSpec
CONSTANTS
  Pollers = {p1, p2}
  Jobs <- AllJobs
  Tenant = "org"
  Runner = "runner"
  AllowedTargets = {"app"}
  UnstorableNonces = {"_n4"}
  MaxEntries = 2
  MaxBytes = 2
  EntryBytes = 1
  MaxLifetime = 3
  MaxTime = 2
  MaxPolls = 2
INVARIANTS
  AdmittedWithinScope
  CacheIsLogTail
  PersistedBeforeReady
PROPERTIES
  LedgerSpec
  EveryPollEnds
CHECK_DEADLOCK FALSE
