SPECIFICATION MCSpec
CONSTANTS
  VcSessions = {s1, s2}
  EpKinds <- MCEpKinds
  EpConfigs <- MCEpConfigs
  EpPlatform = "linux"
  DcMaxFrames = 3
  IgSlots = 2
  IgEncoders = {"e1"}
  IgTimeout = 1
  IgMaxImages = 3
  IgMaxTextures = 3
  WgBuffers = {"b1", "b2"}
  WgMaxFrames = 4
  KmPlanes <- MCKmPlanes
  KmFbs = {1}
  KmImages = {1, 2}
  KmMaxChanges = 2
  KmMaxFrames = 3
  DlLayouts <- MCDlLayouts
  ElCodecs <- MCElCodecs
  ElConfigs <- MCElConfigs
  ElThreads = 2
  ElThreshold = 4
  ElVariation = 1
  ElMaxTime = 10
  NeGpus <- MCNeGpus
  NeConfigs <- MCNeConfigs
  NeMaxFrames = 4
  NeMaxLost = 2
  PkSlice = 3
  PkHeader = 2
  PkShort = 2
  PkMaxShards = 12
  PkFec = {20, 50}
  PkMinimum = {0, 2, 9}
  PkWidth = 16
  PkKeyIds = {30}
  PkIvs = 32
  PkSizes = {1, 3, 4, 22, 29, 60, 118, 131}
  PkMaxFrames = 2
  SkFrames <- MCSkFrames
  SkBatch = 3
  SkSegMax = 2
INVARIANTS
  CaptureThreadServes ProbeResultsHold CapturedImagesSound LayoutIsolated EncoderSound FramesSentWhole
PROPERTIES
  HeldTexturesStay CaptureProgress KeyFrameFollows
CHECK_DEADLOCK FALSE
