CONSTANTS
  Blocks = {1}
  Devs = {10}
  MaxU64 = 20
  MaxU32 = 7
  MaxNodes = 3
  Page = 2
  LossyNames = TRUE
SPECIFICATION BSpec
INVARIANT TargetDeleted
