CONSTANTS
  u1 = u1  u2 = u2  l1 = l1  l2 = l2
  b1 = b1  b2 = b2  s1 = s1  s2 = s2  a1 = a1  a2 = a2
  Urls = {u1, u2}
  Links = {l1}
  LinkOf <- OneLink
  Bridges = {b1}
  Setters = {s1}
  Appliers = {}
  Overlap = TRUE
  MaxAborts = 0
  MaxCalls = 4
  MaxSaid = 2
SPECIFICATION Spec
PROPERTIES ReviewedPreserved
