SPECIFICATION Spec
CONSTANTS
  Shapes = {arrow}
  Hidden = hidden
  Sizes = {1, 2}
  MaxMoves = 2
  MaxEvents = 3
PROPERTIES PointerShown FrameShown ResizeShown StopEnds
CHECK_DEADLOCK FALSE
