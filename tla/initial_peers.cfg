CONSTANTS
  HostNum = 3
  MaxFaults = 2
SPECIFICATION ResolverFairSpec
INVARIANT ResolverTypeOK
INVARIANT ResolverGoesOn
PROPERTY FindsPeers
CHECK_DEADLOCK FALSE
