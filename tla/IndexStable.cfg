SPECIFICATION FairStableSpec
CONSTANTS
  Names = {a, b, h}
  Hidden = {h}
  MaxSeq = 3
  MaxID = 2
  BatchSize = 1
  MaxQueue = 3
  MaxChanges = 1
INVARIANTS
  DeltaComplete
  SyncedWhenQuiet
  NoEviction
PROPERTIES
  ImplementsCopy
  NoRegress
  Converges
