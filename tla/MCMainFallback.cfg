CONSTANTS
  Projects = {1, 2}
  Paths = {"here", "there"}
  Here = "here"
  Unit = 2
  MaxU64 = 5
  ProjectFiles <- MCProjectFiles
  Reports <- MCReports
  Pieces = 3
  Buffered = 2
SPECIFICATION MSpec
PROPERTY FallsBack
