SPECIFICATION SelectedSpec
CONSTANTS
  Null = Null
  Responses = {"unauthorized", "forbidden", "throttled", "unexpected", "fitting", "foreign", "malformed"}
  PartSizes = {1, 2}
  PermitIds = {p1, p2}
  BodyLimit = 3
  SessionLimit = 1
  ChunkBytes = 2
  TokenMs = 2
  SpacingMs = 1
  SkewMs = 1
  MaxTime = 3
  Walls = {0, 3}
INVARIANTS
  TokenConfined
  FreshUse
PROPERTIES
  KeepsContract
SYMMETRY Symmetry
CHECK_DEADLOCK FALSE
