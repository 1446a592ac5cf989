SPECIFICATION OwnedSpec
CONSTANTS
  Null = Null
  Responses = {"unauthorized", "fitting", "foreign"}
  PartSizes = {1}
  Accounts = {a1, a2}
  PermitIds = {p1, p2}
  Adapters = {"setup", "synthetic"}
  SessionLimit = 1
  BodyLimit = 2
  ChunkBytes = 1
  MaxDocs = 2
  MaxCrashes = 1
INVARIANTS
  OneTab
  OwnedDocumentOnly
  CleanupHonest
  LoadNoticed
  HeldInTime
SYMMETRY Symmetry
CHECK_DEADLOCK FALSE
