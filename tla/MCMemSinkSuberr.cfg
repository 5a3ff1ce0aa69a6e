CONSTANTS
  Blocks = {1}
  Devs = {10}
  MaxU64 = 5
  MaxU32 = 7
  MaxNodes = 4
SPECIFICATION Spec
INVARIANT SuberrAsDocumented
