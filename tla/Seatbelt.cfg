SPECIFICATION Spec
CONSTANTS
  FileNames <- MCFileNames
  MaxFollows = 5
  Store <- MCStore
  NixVar <- MCNixVar
  Tmp <- MCTmp
  Home <- MCHome
  Closure <- MCClosure
  EmptyFile <- MCEmptyFile
  Bundle <- MCBundle
  Hosts <- MCHosts
  SystemDirs <- MCSystemDirs
INVARIANTS
  ReadsAsGranted
  WritesAsGranted
  SocketsAsGranted
  PlantsInside
CHECK_DEADLOCK FALSE
