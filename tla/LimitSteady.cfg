SPECIFICATION LimitSpec
CONSTANTS
  c1 = c1
  c2 = c2
  ip1 = ip1
  Free = Free
  Clients = {c1, c2}
  Ips = {ip1}
  IpOf <- OneIp
  Window = 2
  MaxRequests = 2
  MaxTime = 8
PROPERTIES
  RefusedOnlyOverLimit
