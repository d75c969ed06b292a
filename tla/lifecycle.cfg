SPECIFICATION Spec
CONSTANTS
  MaxRuns = 3
  MaxFaults = 3
  CheckpointEarly = FALSE
  ForceSync = TRUE
  HandResume = FALSE
INVARIANTS
  TypeOK
  InductiveInvariant
  LatePhasesNeedTarget
  FirstBootOnTarget
  TransactionNotRepeated
  ResumeServiceOnTarget
PROPERTIES
  BootFilesOutliveEntry
  TransactionAfterEntryRemoved
  PreparationIsComplete
  ImplementsUpgrade
