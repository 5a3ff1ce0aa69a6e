CONSTANTS
  Blocks = {2}
  Devs = {10}
  MaxU64 = 6
  MaxU32 = 7
  MaxNodes = 4
  Page = 2
  LossyNames = FALSE
SPECIFICATION BSpec
INVARIANT BTypeOK
INVARIANT ViewIsListing
INVARIANT CursorOnRow
INVARIANT PathIsShown
INVARIANT PrunedExactly
INVARIANT ItemsExact
INVARIANT TotalsFollowDeletes
INVARIANT PrunedIsGone
PROPERTY OnlyTargetRemoved
