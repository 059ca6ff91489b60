CONSTANTS
  dev = dev      edge = edge    other = other   off = off
  orgA = orgA    orgB = orgB
  idA = idA      idB = idB      idC = idC       idD = idD
  s1 = s1        s2 = s2
  Endpoint <- MCEndpoint
  Enabled <- MCEnabled
  OrgOf <- MCOrgOf
  RoleOf <- MCRoleOf
  Route <- MCRoute
  Peer <- MCPeer
  Frame <- MCFrame
  MaxTTL = 2
  MaxSkew = 1
  MaxFrames = 2
  MaxBytes = 3
  MaxReceipts = 2
  MaxPull = 2
  MaxTime = 2
SPECIFICATION FairSpec
INVARIANTS
  QueueAccounting
  AcknowledgedStaysGone
  ReceiptTruth
PROPERTIES
  NoSilentDrop
  QueueDrains
