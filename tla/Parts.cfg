SPECIFICATION PartsSpec
CONSTANTS
  Remotes = {2, 3}
  Counters <- MCCounters
  Versions <- MCVersions
  ModTimes = {1, 2}
  FolderTypes = {"sendreceive", "sendonly", "receiveonly", "receiveencrypted"}
  Contents = {1, 2}
  MaxUser = 4
  MaxPeer = 2
  theDir = theDir
  inDir = inDir
  beside = beside
  ItemNames = {theDir, inDir, beside}
  Inside <- MCInside
  Versioned = FALSE
  MaxConflicts = 1
  ConflictNames = {beside}
  SameSize = FALSE
  MaxClock = 3
  TempVersions = {v1, v2}
  TempBlocks = {b1, b2}
  MaxStamp = 3
  AggPaths <- MCAggPaths
  Pulled <- MCPulled
  AggSettings <- MCAggSettings
  MaxFiles = 2
  MaxFilesPerDir = 1
  MaxNow = 3
  CfgCallers = {m1, m2, m3}
  CfgSubs = {s1, s2}
  MaxModifications = 2
  Subscribers = {s1, s2}
  EventTypes = {t1, t2}
  ChanSize = 1
  RingSize = 2
  MaxEvents = 3
INVARIANTS
  LocalJudged
  NewestWins
  CountsExact
  VersionMeansContent
  TempBlocksReal
  ChangesCovered
  CommitsChain
  ModificationsKept
  PollingComplete
PROPERTIES
  KeepsContent
  ReceiveOnlySilent
CHECK_DEADLOCK FALSE
