CONSTANTS
  Names = {"a", "b"}
  Wild = {"*"}
  Fnmatch <- MCFnmatch
  Written <- MCWritten
  MaxPatterns = 2
  MaxDepth = 3
SPECIFICATION Spec
INVARIANT TypeOK
INVARIANT MatchesIsMeaning
INVARIANT CarriedExactly
INVARIANT SplitAsWritten
