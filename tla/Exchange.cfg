CONSTANTS
  Methods = {"GET", "POST"}
  Star = Star
  NoPolicy = NoPolicy
  Unreadable = Unreadable
  None = None
  Cfg <- ReadMostly
  Redirects <- LocalRedirect
  Hosts <- ThreeHosts
  Requests <- Mixed
  MaxRequests = 3
  Addresses = {"public", "loopback"}
  Blocked = {"loopback"}
  Interim = {"plain", "mitm"}
  MaxReused = 1
SPECIFICATION FairSpec
CHECK_DEADLOCK FALSE
INVARIANTS
  ForwardedWithinPolicy
  DialledVetted
  RefusedTouchNothing
  BodyNeverARequest
PROPERTIES
  KeepsTurns
  RequestAnsweredUnlessInterim
