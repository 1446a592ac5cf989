SPECIFICATION NativeSpec
CONSTANTS
  Null = Null
  h1 = h1
  h2 = h2
  Hosts <- MCHosts
  MaxRequests <- MCRequests
  MaxDeaths = 0
  OwnershipAwaits = TRUE
INVARIANTS
  TimeoutFences
CHECK_DEADLOCK FALSE
