CONSTANTS
  device = device   edge = edge
  r1 = r1
  k1 = k1   k2 = k2   s1 = s1   s2 = s2
  l1 = l1   l2 = l2   x1 = x1   x2 = x2
  f1 = f1   f2 = f2   n1 = n1   n2 = n2   n3 = n3
  Side = {device, edge}
  Ahead <- MCAhead
  Route = {r1}
  KeyId = {k1, k2}
  Secret = {s1, s2}
  LeaseId = {l1, l2}
  SessionId = {x1, x2}
  Frame = {f1, f2}
  Nonce = {n1}
  MinTTL = 2
  MaxTTL = 2
  MaxSkew = 1
  MaxRotations = 1
  MaxRecords = 1
  MaxNonces = 1
  MaxLeases = 2
  MaxTime = 2
SPECIFICATION Spec
INVARIANTS
  SessionsIssued
  OpenedAsSealed
PROPERTIES
  InvalidatedAtOnce
SYMMETRY Symmetry
\* At the bounds of a run every call is refused or answered unchanged.
CHECK_DEADLOCK FALSE
