SPECIFICATION CSSpec
CONSTANTS
  Peers = {p1, p2}
  ConnIDs = {c1, c2}
  Priorities = {10, 50}
  LimitMax = 1
  Threshold = 0
PROPERTIES
  HelloedIsServed
CHECK_DEADLOCK FALSE
