SPECIFICATION Spec
CONSTANTS
  MaxRuns = 1
  MaxFaults = 1
  CheckpointEarly = FALSE
  ForceSync = TRUE
  HandResume = FALSE
PROPERTIES
  FlagBlocksRerun
