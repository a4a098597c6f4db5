CONSTANTS
  c1 = c1
  c2 = c2
  c3 = c3
  there = there
  Conns <- ThreeConns
  MaxConns = 2
  FirstDelay = 5
  MaxDelay = 8
  MaxErrors = 2
  Tunnelled <- Third
  Addrs = {there}
  To <- Leads
  MaxIdle = 1
SPECIFICATION FairSpec
CHECK_DEADLOCK FALSE
INVARIANTS
  DescriptorsBounded
  StormLoggedOnce
PROPERTIES
  KeepsPool
  AcceptProgress
  SlotComesBack
