CONSTANTS
  d1 = d1    d2 = d2
  k1 = k1    k2 = k2
  s1 = s1    s2 = s2    s3 = s3
  m1 = m1    m2 = m2    m3 = m3
  Device <- MCDevice
  KeyId <- MCKeyId
  Secret <- MCSecret
  Envelope <- MCEnvelope
  Past = 1
  Future = 0
  MaxIds = 2
  MaxRotations = 2
  MaxTime = 2
  dev = dev   dev2 = dev2   edge = edge   mallory = mallory   zero = zero   c1 = c1
  Participant = {dev, dev2, edge}
  RoleOf <- MCRoleOf
  CeremonyOf <- MCCeremonyOf
  Created <- MCCreated
  Expires <- MCExpires
  Forged <- MCForged
  LowOrder = {zero}
  MinTTL = 2
  MaxTTL = 2
  MaxClock = 3
SPECIFICATION DevicesSpec
INVARIANTS
  AcceptedInOrder
  GenerationsOrdered
  SecretsUnique
  RootsPaired
  InstalledOnce
  SecretsHeld
\* Every device may be revoked, every ceremony ends, and the clocks are bounded:
\* the systems may stop.
CHECK_DEADLOCK FALSE
