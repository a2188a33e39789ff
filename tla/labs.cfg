SPECIFICATION Spec
CHECK_DEADLOCK FALSE
CONSTANTS
  Disks <- MCDisks
  Paths <- MCPaths
  ClusterSize = 2
  MaxDepth = 5
  N = 3
  Digits = {0, 5, 9}
INVARIANTS CatPrintsTheFile LsListsDirectories PrintsSumAndProduct
PROPERTIES TreeIsRead
