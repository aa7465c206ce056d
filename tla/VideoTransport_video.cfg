CONSTANTS
  MaxFrames = 3
  SendLimit = 2
  RecvLimit = 2
SPECIFICATION FairSpec
INVARIANTS StrandedOnlyAtOpen StartsWithKey
PROPERTIES DecodesForward StopReturnsIfHeard
CHECK_DEADLOCK FALSE
