SPECIFICATION Spec
CONSTANTS
  Null = Null
  Gestures = {g1}
  Controllers = {"page"}
  StartupFailures = {"page_initialization_failed"}
  Codes = {"page_initialization_failed", "probe_failed", "dispatch_uncertain"}
PROPERTIES
  FinalFence
