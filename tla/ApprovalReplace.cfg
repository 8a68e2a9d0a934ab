SPECIFICATION ApprovalSpec
CONSTANTS
  narrow = narrow
  wide = wide
  other = other
  Processes = {p1}
  Requests <- SmallRequests
  Ids = {"id1", "id2"}
  IdOf <- SmallIdOf
  Decisions = {d1, d2}
  Expiry <- SmallExpiry
  Faults = TRUE
  MaxTime = 2
PROPERTY ReceiptNeverReplaced
