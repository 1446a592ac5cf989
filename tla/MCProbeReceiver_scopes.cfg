SPECIFICATION Spec
CONSTANTS
  Null = Null
  Lost = Lost
  Scopes = {"conversation", "session-only", "setup-inspection", "background-setup-inspection", "background-selected-conversation"}
  Browsers = {b1, b2}
  Collectors = {c1, c2}
  Data = {"v", "x"}
  ArtifactIds = {a1, a2}
  FailureClasses = {"rate_limited", "auth_required", "network"}
  RetryDelays = {0}
  WellFormed <- MCWellFormed
  Accepts <- MCAccepts
  PermitMs = 0
  SpacingMs = 1
  SkewMs = 2
  CooldownMs = 1
  MaxChunks = 2
  MaxRequests = 10
  MaxTime = 1
  MaxBoots = 1
  MaxOpens = 2
INVARIANTS
  TypeOK
  OneFetchPerKind
  OneCollector
  ScopeConfined
  CompletionProven
  StageAgrees
  ReplayTrue
PROPERTIES
  FencedForever
  OneOpening
  ReopenedCompletion
  OneShot
SYMMETRY Symmetry
CHECK_DEADLOCK FALSE
