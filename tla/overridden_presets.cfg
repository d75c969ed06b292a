SPECIFICATION ActorsSpec
CONSTANTS
  LastNumber = 5
  KernelSystems <- MCKernelSystems
  BootSystems <- MCBootSystems
  MaxPreparations = 2
  MaxEfiErrors = 2
  InitramfsSystems <- MCInitramfsSystems
  MaxInitramfsRuns = 2
  AccessSystems <- MCAccessSystems
  MaxAttempts = 5
  PathTable <- UpgradePaths
  VirtualMinor <- VirtualVersions
  PathSystems <- MCPathSystems
  ServiceSystems <- MCServiceSystems
  KeySystems <- MCKeySystems
  RepoSystems <- MCRepoSystems
  BaseFamily = "base8"
  MpSystems <- MCMpSystems
  ConfNames <- MCConfNames
  MpDirs <- MCMpDirs
  MaxRemoved = 1
  DdSystems <- MCDdSystems
  LiveSystems <- MCLiveSystems
  MaxLiveRuns = 2
  MaxLiveAttempts = 2
  MaxLiveFaults = 2
CHECK_DEADLOCK FALSE
INVARIANTS
  OverriddenPresetsAreOff
