SPECIFICATION Spec
CONSTANTS
  Workspace = {w1, w2}
  Slug = {s1}
  Child = {p1, p2}
  Call = {c1, c2}
  NoChild = NoChild
  NoCall = NoCall
  MaxActive = 1
CHECK_DEADLOCK FALSE
INVARIANT CapacityKept
