CONSTANTS
  MaxFrames = 4
  MaxWants = 2
  PendingLimit = 2
  ReadyLimit = 2
SPECIFICATION FairSpec
INVARIANTS RequestsCounted InOrder
PROPERTY ShutdownReturnsIfHeard
CHECK_DEADLOCK FALSE
