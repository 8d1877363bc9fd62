SPECIFICATION FairSpec
CONSTANTS
  Plan <- MCPlan
  Allowance <- MCAllowance
  Cost = {1, 3}
  ImageCost = 2
  Call = {c1, c2, c3}
  MaxDay = 1
INVARIANTS SpendsOnlyGranted UsageBooked HeldIsReserved
PROPERTIES DriftsOnlyInStaleReset ReservationCloses
CHECK_DEADLOCK FALSE
