SPECIFICATION KindsSpec
CONSTANTS
  Counters = {1, 2}
  FolderTypes = {"receiveonly"}
  Contents = {1, 2}
  MaxUser = 2
  MaxPeer = 3
PROPERTIES
  LocalChangesStay
CHECK_DEADLOCK FALSE
