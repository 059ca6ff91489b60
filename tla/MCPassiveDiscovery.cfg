CONSTANTS
  orgA = orgA   orgB = orgB
  ana = ana     bob = bob
  devA = devA   devB = devB
  scopeA = scopeA   scopeB = scopeB
  lan = lan     iot = iot
  id1 = id1
  printer = printer   camera = camera   stranger = stranger
  Context <- MCContext
  Request <- MCRequest
  Permitted <- MCPermitted
  Source <- MCSource
  Past = 1
  Future = 0
  MaxTime = 3
SPECIFICATION FairSpec
INVARIANTS
  WithinScope
PROPERTIES
  Implements
  JobsEnd
\* When every command has ended, all calls are answered without a change.
CHECK_DEADLOCK FALSE
