CONSTANTS
  Blocks = {1, 3}
  Devs = {10, 20}
  MaxU64 = 5
  MaxU32 = 7
  MaxNodes = 5
SPECIFICATION Spec
INVARIANT TypeOK
INVARIANT SubtreeIsRange
INVARIANT TotalsExact
INVARIANT SuberrExact
INVARIANT DevicesInjective
INVARIANT ParentsAgree
PROPERTY ClosedNeverChange
