SPECIFICATION FrameSpec
CONSTANTS
  Null = Null
  Base = 3
  HeaderBytes = 2
  Weight <- MCWeight
  MaxMessage = 2
  Messages <- MCMessages
  MaxInput = 9
INVARIANTS
  SplitsDoNotMatter
CHECK_DEADLOCK FALSE
