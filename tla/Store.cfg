SPECIFICATION StoreSpec
CONSTANTS
  s1 = s1
  s2 = s2
  server = server
  config = config
  raven = raven
  f1 = f1
  k1 = k1
  Scans = {s1, s2}
  Server = server
  Names = {config, raven}
  Pollinations = raven
  ConfigNames = {config}
  ConfigStatus <- Claimed
  Statuses = {"claimed", "expired", "verified"}
  Prints = {f1}
  Keys = {k1}
  Legacies <- SomeFiles
  MaxFaults = 1
  MaxCrashes = 1
  MaxSets = 1
SYMMETRY EitherScan
CHECK_DEADLOCK FALSE
INVARIANTS
  StoreTypeOK
  KeysOnce
  OpenedIsWhole
PROPERTIES
  StatusStands
  FoundStays
