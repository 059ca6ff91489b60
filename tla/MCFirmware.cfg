SPECIFICATION FirmwareSpec
CONSTANTS
  MaxUnfinished = 3
  Threshold = 2
  HealthyAfter = 2
  MaxDraft = 2
  MaxFailed = 5
  HeaderSize = 3
  MaxPayload = 2
  MaxWrong = 2
  MaxFed = 8
INVARIANTS
  SafeModeEarned
  NothingTyped
  SameAnswer
  FramesExact
  ViewIntact
