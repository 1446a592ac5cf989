SPECIFICATION FairCaptureSpec
CONSTANTS
  Null = Null
  Lost = Lost
  Scopes = {"conversation"}
  Browsers = {b1}
  Collectors = {c1}
  Data = {"v", "x"}
  ArtifactIds = {a1, a2}
  FailureClasses = {"rate_limited"}
  RetryDelays = {0}
  WellFormed <- MCWellFormed
  Accepts <- MCAccepts
  PermitMs = 1
  SpacingMs = 1
  SkewMs = 2
  CooldownMs = 1
  MaxChunks = 1
  MaxRequests = 12
  MaxTime = 2
  MaxBoots = 0
  MaxOpens = 2
  Wanted = {"conversation"}
  Browser = b1
  Collector = c1
  WaitMs = 2
  Walls = {0, 1, 2}
INVARIANTS
  PauseSuffices
PROPERTIES
  RoundsEnd
CHECK_DEADLOCK FALSE
