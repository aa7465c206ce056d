CONSTANTS
  MaxChanges = 3
  MaxResets = 2
SPECIFICATION Spec
CHECK_DEADLOCK FALSE
INVARIANTS
  KeysFollow
  HeldWhileUsed
PROPERTY
  EventuallyShown
