SPECIFICATION MCSpec
CONSTANTS
  Apps = {"game", "desk"}
  AppOf <- MCAppOf
  InputOnly = "input"
  None = None
  MaxHdrJobs = 1
  DdModes = {"low", "high"}
  DdDevices = {"a", "b"}
  DdAudioRetries = 2
  DdLaunches <- MCDdLaunches
  DdMaxRestarts = 1
  AcFiles <- MCAcFiles
  AcUuids = {1, 2}
  AcNames <- MCAcNames
  AcMaxApps = 2
  DrCerts = {"c1", "c2"}
  DrMaxDevices = 2
  DrMaxSessions = 1
  DrMaxUnsaved = 1
  LsSystem = "d"
  LsItems = {"a"}
  LsFirst <- MCLsFirst
  LsMaxChanges = 2
  VdOpeners = {"launch","refresh"}
  VdMaxThreads = 2
  VdMaxOpens = 2
  VdRates = {60000, 59940, 59500}
  NpValues = {"unset","off","on"}
  NpOurs = "on"
  NpMaxChanges = 2
  NpMaxStreams = 2
  CsClients = {"a", "b", "far"}
  CsNear = {"a", "b"}
  CsPasswords = {"p", "q"}
  CsMaxCookies = 2
  CsMaxSalts = 2
  CsMaxCrashes = 1
  SvSessions = {"s1","s2"}
  SvMaxSwitches = 3
  UpPorts = 2
  UpLifetime = 3
  UpRouters = {"leases","static","strange"}
  UpMaxEvents = 1
  TpWorkers = {"w1", "w2"}
  TpIds = {"t1", "t2"}
  TpDelays = {1, 2}
  TpMaxTime = 3
INVARIANTS
  AppChangesUndone SettingsRecoverable RegistryConsistent CatalogConsistent LibraryAgrees VirtualDisplayWatched TaskPoolConsistent CredentialsConsistent NothingLeftBehind
PROPERTIES
  ChangesAsAllowed HostCatchesUp
CHECK_DEADLOCK FALSE
