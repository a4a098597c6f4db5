SPECIFICATION Spec
CONSTANTS
  FileNames <- MCFileNames
  MaxFollows = 4
  Store <- MCStore
  NixVar <- MCNixVar
  Tmp <- MCTmp
  Home <- MCHome
  Closure <- MCClosure
  EmptyFile <- MCEmptyFile
  Bundle <- MCBundle
  Hosts <- MCHosts
INVARIANTS
  BwrapAccepts
  DeclaredReachable
  LandingsSeenOrWarned
  GitProtected
  ModesKept
  OnlyGranted
  LateBindsSeen
CHECK_DEADLOCK FALSE
