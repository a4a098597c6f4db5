CONSTANTS
  p1 = p1
  p2 = p2
  p3 = p3
  h1 = h1
  h2 = h2
  h3 = h3
  h4 = h4
  Handlers <- ThreeHandlers
  Hosts <- FourHosts
  MaxCachedCerts = 1
  None = None
SPECIFICATION CacheSpec
SYMMETRY CacheSymmetry
INVARIANTS
  CacheBounded
  LoggedOnce
PROPERTY
  CacheStable
