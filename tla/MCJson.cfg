CONSTANTS
  Blocks = {1, 4}
  Devs = {10, 20}
  MaxU64 = 13
  MaxU32 = 7
  MaxNodes = 4
  Unit = 2
  Levels = 3
  Nested <- MCNested
SPECIFICATION JSpec
INVARIANT JTypeOK
INVARIANT ReadAsWritten
INVARIANT RoundTrip
INVARIANT ReExported
