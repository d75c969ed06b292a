SPECIFICATION StagesSpec
CONSTANTS
  Order <- MCOrder
  Root = "/"
  Within <- MCWithin
  ScratchDir = "scratch"
  CacheDir = "cache"
  UserspaceDir = "userspace"
  FreeSpace <- MCFreeSpace
  MaxCalls = 1
  MaxFaults = 0
  CreatorTasks <- MCCreatorTasks
  StageTasks <- MCStageTasks
  MaxExecutions = 1
  RepoFiles = {"redhat", "source", "leapp", "client", "custom", "centos"}
  RepoIds = {"old", "b", "a", "c"}
  RedhatRepo = "redhat"
  DistroFiles = {"centos"}
  BaseOS = {"b"}
  AppStream = {"a"}
  Setups <- MCSetups
  OnAws = FALSE
  FstabChoices = "few"
  SetupChoice = "collides"
  WithIso = FALSE
CHECK_DEADLOCK FALSE
INVARIANT
  OwnedRepofilesKept
