CONSTANTS
  Methods = {"GET", "POST"}
  Star = Star
  NoPolicy = NoPolicy
  Unreadable = Unreadable
  None = None
  Cfg <- ReadMostly
  Redirects <- LocalRedirect
  Hosts <- ThreeHosts
  Requests <- Allowed
  MaxRequests = 1
  Addresses = {"public", "loopback"}
  Blocked = {"loopback"}
  Interim = {"mitm"}
  MaxReused = 1
SPECIFICATION FairSpec
CHECK_DEADLOCK FALSE
PROPERTY
  RequestAnswered
