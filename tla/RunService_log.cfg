SPECIFICATION Spec
CONSTANTS
  Run = {r1}
  Project = {p1}
  Key = {k1}
  Call = {c1}
  Instance = {i1, i2}
  Phase = {a, b}
  NoPhase = NoPhase
  NoRun = NoRun
  NoKey = NoKey
  NoProject = NoProject
  Lease = 1
  Take = 1
  MaxSeq = 4
  MaxTime = 4
SYMMETRY Symmetry
INVARIANTS LogContiguous InterruptedOnce
PROPERTIES ReapsOnlyExpired InterruptedInPhase
CHECK_DEADLOCK FALSE
