SPECIFICATION FairSpec
CONSTANTS
  Workspace = {w1, w2}
  Slug = {s1}
  Child = {p1, p2, p3}
  Call = {c1, c2, c3}
  NoChild = NoChild
  NoCall = NoCall
  MaxActive = 2
CHECK_DEADLOCK FALSE
INVARIANTS OneWorkingChild NoOrphan
PROPERTIES StartsAnswerServing WaitersAnswered
