CONSTANTS
  Blocks = {1}
  Devs = {10}
  MaxU64 = 9
  MaxU32 = 9
  MaxNodes = 4
  Objects <- MCObjects
  Root = 1
  Up <- MCUp
  NameOf <- MCNameOf
  RootPath <- MCRootPath
  Natures <- MCNatures
  ReadErrors = TRUE
  Replaced = {2, 4}
  Names = {"a", "b"}
  Wild = {"*"}
  Fnmatch <- MCFnmatch
  Written <- MCWritten
  MaxPatterns = 1
  MaxDepth = 1
SPECIFICATION SSpec
INVARIANT STypeOK
PROPERTY IsCensus
PROPERTY Terminates
