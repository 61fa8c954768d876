SPECIFICATION FolderSpec
CONSTANTS
  Asked = {"scanScheduled", "doInSync"}
  Periodic = TRUE
  Watching = TRUE
  PullerDelay = TRUE
  MaxRunners = 4
  MaxCommits = 4
  i1 = i1
  i2 = i2
  d = d
  f1 = f1
  f2 = f2
  Peers <- MCPeers
  ShFolders = {f1, f2}
  Known = {i1, i2}
  Tokens <- MCTokens
  MaxEdits = 1
  MaxConfigs = 3
INVARIANTS
  NoLostPull
  HandlersFollow
PROPERTIES
  NeededIsPulled
  SharesKept
CHECK_DEADLOCK FALSE
