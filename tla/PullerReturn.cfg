SPECIFICATION IterationSpec
CONSTANTS
  f1 = f1
  f2 = f2
  b1 = b1
  b2 = b2
  Files = {f1, f2}
  BlocksOf <- MCBlocksOf
  Copiers = {c1}
  MaxPending = 2
  MaxDevices = 1
  Chunks = 1

PROPERTY IterationReturns
CHECK_DEADLOCK FALSE
