SPECIFICATION FairSpec
CONSTANTS
  Null = Null
  Gestures = {g1, g2}
  Controllers = {"page"}
  StartupFailures = {"page_initialization_failed"}
  Codes = {"page_initialization_failed", "probe_failed", "document_lost", "dispatch_uncertain"}
INVARIANTS
  OneAttempt
  NeverReadyAgain
  CompletionWitnessed
  FailureRecorded
  DiagnosedInOrder
PROPERTIES
  FlightsLand
