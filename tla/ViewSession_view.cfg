CONSTANTS
  MaxAttempts = 2
  MaxSessions = 2
  MaxMoves = 2
  MaxPosts = 2
SPECIFICATION Spec
CHECK_DEADLOCK FALSE
INVARIANTS
  ButtonsFollow
  ClickNotBehind
PROPERTY
  DisconnectEnds
