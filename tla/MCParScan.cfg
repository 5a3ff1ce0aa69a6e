CONSTANTS
  Blocks = {1}
  Devs = {10}
  MaxU64 = 9
  MaxU32 = 9
  MaxNodes = 4
  Objects <- MCObjects
  Root = 1
  Up <- MCUp
  NameOf <- MCNameOf
  RootPath <- MCRootPath
  Natures <- MCNatures
  ReadErrors = FALSE
  Replaced = {2}
  Names = {"a", "b"}
  Wild = {"*"}
  Fnmatch <- MCFnmatch
  Written <- MCWritten
  MaxPatterns = 1
  MaxDepth = 1
  Workers = {w1, w2}
SPECIFICATION PSpec
INVARIANT PTypeOK
INVARIANT EachTaskOnce
PROPERTY IsCensus
PROPERTY Terminates
