SPECIFICATION Spec
CONSTANTS
  Viewers = {v1, v2}
  NoViewer = NoViewer
  MaxPosts = 2
INVARIANTS
  NothingLeft ApprovalMeant OutcomeTrue
PROPERTY StopEndsSession
CHECK_DEADLOCK FALSE
