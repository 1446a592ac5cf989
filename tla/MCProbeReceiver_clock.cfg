SPECIFICATION Spec
CONSTANTS
  Null = Null
  Lost = Lost
  Scopes = {"conversation"}
  Browsers = {b1}
  Collectors = {c1}
  Data = {"v"}
  ArtifactIds = {1}
  FailureClasses = {"rate_limited"}
  RetryDelays = {0, 2}
  WellFormed <- MCWellFormed
  Accepts <- MCAccepts
  PermitMs = 1
  SpacingMs = 1
  SkewMs = 2
  CooldownMs = 1
  MaxChunks = 1
  MaxRequests = 8
  MaxTime = 3
  MaxBoots = 0
  MaxOpens = 1
INVARIANTS
  SpacedFetches
  CooldownConservative
CHECK_DEADLOCK FALSE
