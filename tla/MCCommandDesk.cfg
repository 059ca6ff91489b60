CONSTANTS
  org1 = org1   org2 = org2   ana = ana   bia = bia   card = card
  camA = camA   camB = camB   inv = inv   c1 = c1   v1 = v1   v2 = v2
  None = None
  Owner <- MCOwner
  DeviceId = card
  Menu <- MCMenu
  CommandId = {c1}
  Capture = {v1, v2}
  Chunk <- MCChunk
  MaxAudioBytes = 2
  MaxAudioMs = 3
  MaxSent = 2
  MaxClock = 1
  CameraOrg <- MCCameraOrg
  InventoryOrg <- MCInventoryOrg
  Asset <- MCAsset
  MaxAssets = 1
  Past = 0
  Future = 0
  Context <- MCContext
  Transcript <- MCTranscript
  IntentOf <- MCIntentOf
  AliasOf <- MCAliasOf
SPECIFICATION DeskSpec
INVARIANTS
  OneEventPerAnswer
  AskedInProfile
  AudioWhole
SYMMETRY Symmetry
PROPERTIES
  AnswersFinal
  CaptureKept
\* When no message is left to send and the captures are used up, the device may
\* rest.
CHECK_DEADLOCK FALSE
