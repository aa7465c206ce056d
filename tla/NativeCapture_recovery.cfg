CONSTANTS
  MaxChanges = 2
  MaxResets = 1
SPECIFICATION Spec
CHECK_DEADLOCK FALSE
PROPERTY
  RecoveryShown
