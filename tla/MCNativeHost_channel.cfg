SPECIFICATION NativeSpec
CONSTANTS
  Null = Null
  h1 = h1
  h2 = h2
  Hosts <- MCHosts
  MaxRequests <- MCRequests
  MaxDeaths = 1
  OwnershipAwaits = FALSE
INVARIANTS
  OneClientPerWork
PROPERTIES
  KeepsChannel
  EverythingEnds
CHECK_DEADLOCK FALSE
