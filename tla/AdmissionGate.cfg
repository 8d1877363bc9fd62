SPECIFICATION Spec
CONSTANTS
  k1 = k1
  Key = {k1}
  w1 = w1
  w2 = w2
  w3 = w3
  Work = {w1, w2, w3}
  Declared = {w2, w3}
  MaxGeneration = 5
INVARIANTS SealedIsQuiet AuthorityEnds
PROPERTIES ImplementsGate ReportsUntilAborted SealEnds
CHECK_DEADLOCK FALSE
