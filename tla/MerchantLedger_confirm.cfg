SPECIFICATION Spec
CONSTANTS
  Orders = {o1}
  Disbs = {d1}
  Handlers = {h1, h2}
  Net <- MCNet
  Amounts = {2}
  Reserve = 1
  MaxFaults = 0
  None = None
PROPERTY NeverTransferredAgain
CHECK_DEADLOCK FALSE
