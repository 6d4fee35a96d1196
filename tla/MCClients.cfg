CONSTANTS
  MaxCalls = 2
  MaxTracks = 4
  None = None
  m1 = m1
  m2 = m2
  OutboxMessages = 2
  OutboxFaults = 1
  Owners = {"ann", "ben"}
  Chats = {"c1", "c2"}
  OwnMessages = {m1, m2}
  ChatOf <- AllOfOneChat
  Files = {"f"}
  PaneTexts = 2
  ReadingSeq = 2
  ScreenTexts = 2
  ScreenPicks = 1
  ScreenSeq = 2
  PhoneAttempts = 2
  PhoneDrops = 1
  EngineCalls = 2
  EngineTracks = 3
  EngineAsked = 2
  EngineDrops = 1
  Headsets = {"bluetooth", "headset"}
  RouteReports = 2
  VoiceMessages = {"a", "b"}
  VoiceRecordings = 3
  Holds = 3
  PlaybackErrors = 2
  PlaybackEvents = 2
  PlayerErrors = 1
  PlayerStatuses = 2
  PlayerAwaited = 2
  BlurCameras = 2
  SlowSeconds = 2
  Rotations = {0, 90}
  BufferSizes = {1}
  Callers = {"ann", "ben"}
  CallGroups = {"g1", "g2"}
SPECIFICATION ClientsSpec
INVARIANTS
  
  SystemFollows
  ChatSound
  PhoneCallSound
  
  
CHECK_DEADLOCK FALSE
