SPECIFICATION Spec
CONSTANTS
  FileNames <- MCFileNames
  MaxFollows = 3
  LinkMaps <- MCLinkMaps
  DeclaredPaths <- MCDeclaredPaths
INVARIANTS
  AgreesWithKernel
  ReplaysWalk
  RecordsRealNames
CHECK_DEADLOCK FALSE
