SPECIFICATION PromotionSpec
CONSTANTS
  Nodes = {A, B}
  Conns = {c1, c2}
  None = None
  MaxQueue = 2
INVARIANTS
  IndexHasHandler
