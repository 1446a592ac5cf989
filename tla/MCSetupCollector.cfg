SPECIFICATION SetupSpec
CONSTANTS
  Null = Null
  Responses = {"unauthorized", "forbidden", "throttled", "unexpected", "fitting", "foreign", "malformed"}
  PartSizes = {0, 1, 2}
  MaxSessionBytes = 2
INVARIANTS
  HoldsWhatWasReported
PROPERTIES
  KeepsContract
  EverySettles
CHECK_DEADLOCK FALSE
