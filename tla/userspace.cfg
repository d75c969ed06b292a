SPECIFICATION StagesSpec
CONSTANTS
  Order <- MCOrder
  Root = "/"
  Within <- MCWithin
  ScratchDir = "scratch"
  CacheDir = "cache"
  UserspaceDir = "userspace"
  FreeSpace <- MCFreeSpace
  MaxCalls = 8
  MaxFaults = 1
  CreatorTasks <- MCCreatorTasks
  StageTasks <- MCStageTasks
  MaxExecutions = 2
  RepoFiles = {"redhat", "source", "leapp", "client", "custom", "centos"}
  RepoIds = {"old", "b", "a", "c"}
  RedhatRepo = "redhat"
  DistroFiles = {"centos"}
  BaseOS = {"b"}
  AppStream = {"a"}
  Setups <- MCSetups
  OnAws = TRUE
  FstabChoices = "all"
  SetupChoice = "all"
  WithIso = TRUE
CHECK_DEADLOCK FALSE
INVARIANTS
  UserspaceStateOK
  MountsAreUndone
  LostOnlyByMishap
  OverlayIsComplete
  RepositoriesAreDefined
  UpgradeIsTheRehearsed
