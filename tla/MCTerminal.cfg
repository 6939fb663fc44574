CONSTANTS
  Writers = {w1}
  Levels = {"ERROR"}
  MaxSize = 2
  MaxLines = 3
  Pages = 2
  MaxFetches = 1
  w1 = w1
SPECIFICATION FairSpec
INVARIANTS
  TypeOK
  NoLostWakeup
  DaemonNeedsWallet
  ClosedOnce
PROPERTIES
  PageSettles
CHECK_DEADLOCK FALSE
