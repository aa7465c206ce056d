CONSTANTS
  Capacity = 2
  Prebuffer = 1
  RebufferAfter = 2
  PollEvery = 2
  DropBehind = 1
  HardResync = 2
  Relatch = 8
  History = 2
  MaxStall = 4
SPECIFICATION Spec
CHECK_DEADLOCK FALSE
PROPERTIES
  PicturesFlow
  PlaybackEnds
