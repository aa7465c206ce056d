CONSTANTS
  Receivers = {r1, r2}
  Nobody = nobody
  MaxPictures = 2
  MaxTime = 3
  Capacity = 4
  MaxWritten = 8
  Chunk = 2
  FrameSize = 2
  PtsCycle = 4
  Clients = {c1, c2}
  NoClient = none
  Blocks = 2
  MaxClients = 2
  MaxDevices = 2
  MaxSessions = 2
  MaxQueue = 2
  MaxHistory = 2
SPECIFICATION ProgramSpec
CHECK_DEADLOCK FALSE
INVARIANTS
  OneReceiver
  TracksExact
  ReportsTrue
  WindowsFollow
  HistoryTrue
PROPERTIES
  FailureEnds
  StreamSpec
  SavedSurvives
  EndpointsRight
