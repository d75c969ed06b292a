SPECIFICATION Spec
CONSTANTS
  MaxRuns = 3
  MaxFaults = 3
  CheckpointEarly = TRUE
  ForceSync = TRUE
  HandResume = TRUE
PROPERTIES
  BootFilesOutliveEntry
