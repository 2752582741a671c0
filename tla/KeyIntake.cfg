SPECIFICATION FairSpec
CONSTANTS
  two = two
  other = other
  empty = empty
  more = more
  late = late
  known = known
  unknown = unknown
  k1 = k1
  k2 = k2
  k3 = k3
  k4 = k4
  k5 = k5
  d1 = d1
  d2 = d2
  None = None
  Broken = Broken
  Files = {two, other}
  Provs = {known, unknown}
  Secrets = {k1, k2, k3, k4, k5}
  ProvOf <- Providers
  KeysOf <- Contents
  Probeable = {known}
  Confirmed = {known}
  Works = {k1, k4}
  Droppers = {d1}
  Agents = {"a1"}
  Validators = {}
  MaxFaults = 1
INVARIANTS
  NothingForgotten
PROPERTIES
  DropsTaken
  QueueServed
