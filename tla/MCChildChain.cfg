CONSTANTS
  N = 6
  Dirs = {1, 2, 3}
SPECIFICATION CSpec
PROPERTY ChainsAreLists
PROPERTY UnlinkFinds
PROPERTY WalksEnd
