SPECIFICATION FairScanSpec
CONSTANTS
  c1 = c1
  c2 = c2
  ip1 = ip1
  Free = Free
  Clients = {c1, c2}
  Ips = {ip1}
  IpOf <- OneIp
  Window = 1
  MaxRequests = 2
  MaxTime = 3
  ScanGap = 1
  ScanTime = 2
  MaxPanics = 1
INVARIANTS
  ScanTypeOK
  OneScan
  StartsApart
  OfferKept
  WindowBound
PROPERTIES
  TurnedAwaySoonAfterStart
  EveryRequestEnds
