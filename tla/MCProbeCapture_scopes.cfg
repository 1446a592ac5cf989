SPECIFICATION CaptureSpec
CONSTANTS
  Null = Null
  Lost = Lost
  Scopes = {"conversation", "session-only", "setup-inspection", "background-setup-inspection", "background-selected-conversation"}
  Browsers = {b1}
  Collectors = {c1}
  Data = {"v", "x"}
  ArtifactIds = {a1, a2}
  FailureClasses = {"rate_limited"}
  RetryDelays = {0}
  WellFormed <- MCWellFormed
  Accepts <- MCAccepts
  PermitMs = 1
  SpacingMs = 1
  SkewMs = 2
  CooldownMs = 1
  MaxChunks = 2
  MaxRequests = 12
  MaxTime = 3
  MaxBoots = 0
  MaxOpens = 2
  Wanted = {"conversation", "session-only", "setup-inspection", "background-setup-inspection", "background-selected-conversation"}
  Browser = b1
  Collector = c1
  WaitMs = 2
  Walls = {}
INVARIANTS
  CountedFirst
  CompletionShared
  FailureShared
  ForeignBytesStay
SYMMETRY Symmetry
CHECK_DEADLOCK FALSE
