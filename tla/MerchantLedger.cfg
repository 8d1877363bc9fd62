SPECIFICATION Spec
CONSTANTS
  Orders = {o1}
  Disbs = {d1, d2}
  Handlers = {h1, h2}
  Net <- MCNet
  Amounts = {2}
  Reserve = 1
  MaxFaults = 2
  None = None
INVARIANTS LedgerCovers PayoutBacked SerialCreditIsExact SerialConfirmIsExact
CHECK_DEADLOCK FALSE
