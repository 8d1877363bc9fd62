SPECIFICATION BreakerSpec
CONSTANTS
  Op = {o1, o2, o3, o4, o5, o6}
  FailureThreshold = 2
  Window = 2
  Cooldown = 1
  MaxProbes = 2
  MaxTime = 5
SYMMETRY Symmetry
CHECK_DEADLOCK FALSE
INVARIANT NoSlotLeaks
PROPERTY OpensOnEvidence
