SPECIFICATION Spec
CONSTANTS
  Configs <- SmallConfigs
  Helpers = {"src", "root"}
  MaxEdits = 2
INVARIANT WritesAsApproved
