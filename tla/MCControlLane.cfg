CONSTANTS
  dev = dev   edge = edge   org = org
  idA = idA   c1 = c1   c2 = c2   c3 = c3   s1 = s1   s2 = s2
  Endpoint = {dev, edge}
  Enabled = {dev, edge}
  OrgOf <- MCOrgOf
  RoleOf <- MCRoleOf
  Peer <- MCPeer
  OrdinaryFrame <- MCOrdinaryFrame
  CancelFrame <- MCCancelFrame
  OrdinaryRoute <- MCOrdinaryRoute
  MaxTTL = 2
  MaxFrames = 1
  MaxBytes = 1
  MaxReceipts = 1
  MaxPull = 1
  MaxControlTTL = 2
  MaxControlFrames = 1
  MaxControlBytes = 1
  MaxControlReceipts = 2
  MaxControlPull = 1
  MaxSkew = 1
  MaxTime = 2
SPECIFICATION FairSpec
PROPERTIES
  CancellationHeard
\* When every frame has been taken or has expired, the lanes are at rest.
CHECK_DEADLOCK FALSE
