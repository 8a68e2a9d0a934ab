SPECIFICATION MCSpec
CONSTANTS
  p = p
  q = q
  r1 = r1
  r2 = r2
  k1 = k1
  k2 = k2
  c1 = c1
  c2 = c2
  Nobody = Nobody
  Calls = {p, q}
  Repos = {r1, r2}
  Keys = {k1, k2}
  Ttl = 2
  MaxTime = 2
  MaxPolicies = 2
  Checks = {c1, c2}
  Policy <- mcPolicy
  Horizon = 2
  Documents <- mcDocuments
  Referred <- mcReferred
SYMMETRY Calling
INVARIANTS
  ResolvedWithActiveKey
  SupersededWithinTtl
  GateTellsFacts
  RecordMeetsPolicy
  ExceptionWithinGrant
PROPERTIES
  FallsBackOnlyIfRaced
CHECK_DEADLOCK FALSE
