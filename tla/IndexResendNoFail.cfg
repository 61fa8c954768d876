SPECIFICATION NoFailSpec
CONSTANTS
  Names = {a, b}
  Hidden = {}
  MaxSeq = 2
  MaxID = 1
  BatchSize = 0
  MaxQueue = 2
  MaxChanges = 2
INVARIANTS
  SyncedWhenQuiet
