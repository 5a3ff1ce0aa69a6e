CONSTANTS
  Blocks = {1, 3}
  Devs = {10}
  MaxU64 = 20
  MaxU32 = 7
  MaxNodes = 3
  Page = 2
  LossyNames = FALSE
SPECIFICATION BSpec
INVARIANT TotalsAsDocumented
