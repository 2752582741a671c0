CONSTANTS
  u1 = u1  u2 = u2  l1 = l1  l2 = l2
  b1 = b1  b2 = b2  s1 = s1  s2 = s2  a1 = a1  a2 = a2
  Urls = {u1, u2}
  Links = {l1, l2}
  LinkOf <- OwnLink
  Bridges = {b1}
  Setters = {s1}
  Appliers = {a1}
  Overlap = FALSE
  MaxAborts = 1
  MaxCalls = 8
  MaxSaid = 3
SPECIFICATION FairSpec
INVARIANTS LastWordStands NeverReoffered OrphansBounded
PROPERTIES ImplementsQueue VerdictsExecuted
