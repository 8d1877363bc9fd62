SPECIFICATION FairSpec
CONSTANTS
  Run = {r1, r2}
  Project = {p1, p2}
  Key = {k1}
  Call = {c1, c2}
  Instance = {i1}
  Phase = {a}
  NoPhase = NoPhase
  NoRun = NoRun
  NoKey = NoKey
  NoProject = NoProject
  Lease = 1
  Take = 1
  MaxSeq = 1
  MaxTime = 3
INVARIANTS OneActiveRun KeyNamesOneRun
PROPERTY LostRunIsReaped
CHECK_DEADLOCK FALSE
