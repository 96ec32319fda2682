SPECIFICATION MCSpec
CONSTANTS
  Launches = {l1, l2}
  None = None
  MaxQueued = 2
  RsConns = {c1, c2}
  RsLaunches = 2
  RsEncrypted = {1}
  RsBuffer = 8
  RsHeader = 4
  RsNeedle = 2
  RsMessages <- MCRsMessages
  SnHosts <- MCSnHosts
  SnModes <- MCSnModes
  SnSurround <- MCSnSurround
  SnRequests <- MCSnRequests
  CcMaxFeedback = 1
  CcMaxRaised = 2
  IqMessages <- MCIqMessages
  IqGranted = {"all", "controller"}
  IqShort = 8
  IqMaxMessages = 3
  ImSessions = {1, 2}
  ImMaxTimers = 2
  IkKeys = {"shift", "a", "f1"}
  IkModifierOf <- MCIkModifierOf
  IkBinding <- MCIkBinding
  IkShortcuts = {"f1"}
  IkSessions = {"s1", "s2"}
  IkMaxResets = 2
  IpPads <- MCIpPads
  IpIds = 2
  PtClient <- MCPtClient
  PtDisplays <- MCPtDisplays
  PtPoints = {0, 1, 8, 9, 15, 16, 20}
  PtDeltas <- MCPtDeltas
  PtWheel = 4
  PtMaxMoves = 3
  WtSlots = 1
  WtPointers = {1, 2}
  WtMaxEvents = 4
  WpPads = {0, 1}
  WpFingers = {1, 2}
  WpMotors = {0, 1}
  WpMaxEvents = 5
  AsSessions = {"s1", "s2"}
  AsHostAudio = {"s2"}
  AsOrder <- MCAsOrder
  AsNames <- MCAsNames
  AsHost = "spk"
  AsConfigured = {"Speakers"}
  AsKeepDefault = TRUE
  AsMaxEvents = 1
  AuFrame = 2
  AuDevice = 3
  AuQueue = 2
  AuMaxSamples = 6
INVARIANTS
  LaunchSlotInvariant RtspSound NegotiationHonoured ControlChannelSound InputArrives HeldInputFollowsClients AudioSound
PROPERTIES
  InputReleased ClientServed
CHECK_DEADLOCK FALSE
