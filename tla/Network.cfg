CONSTANTS
  proxy = proxy
  service = service
  Ports <- TwoPorts
  ProxyPort = proxy
  Builds <- AllBuilds
  MaxFlows = 2
SPECIFICATION NetworkSpec
CHECK_DEADLOCK FALSE
INVARIANTS
  EgressWithinPolicy
  GrantedPasses
