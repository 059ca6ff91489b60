CONSTANTS
  orgA = orgA   orgB = orgB
  ana = ana     bob = bob
  devA = devA   devA2 = devA2   devB = devB
  garage = garage   lobby = lobby
  id1 = id1     id2 = id2
  Context <- MCContext
  Request <- MCRequest
  OwnerOf <- MCOwnerOf
  Online <- MCOnline
  Permitted <- MCPermitted
  Frames <- MCFrames
  MinFrames = 2
  Past = 1
  Future = 0
  MayFail = {1, 2, 3}
  MaxTime = 3
SPECIFICATION FairSpec
INVARIANTS
  EventConfirmed
  NotifiedInOrder
PROPERTIES
  Implements
  JobsEnd
\* When every command has ended and every event is published, all calls are
\* answered without a change: the service may stop.
CHECK_DEADLOCK FALSE
