SPECIFICATION ServicesSpec
CONSTANTS
  Clients = {c1, c2}
  NoOne = NoOne
  Sizes = {1, 3}
  InitMax = 2
  Capacities = {0, 1, 3}
  MaxSends = 3
  Nodes = {A, B}
  Conns = {c1, c2}
  None = None
  MaxQueue = 1
  Folders = {f1, f2}
  Concurrency = 2
  MaxWire = 3
INVARIANTS
  ParkedOnlyWhenShort
  NoUnitsLost
  AsleepOnlyWhilePaused
  PauseStopsSending
PROPERTIES
  CancelledReturns
  KeepsSending
  PromotionEnds
  IndexReceived
