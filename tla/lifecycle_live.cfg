SPECIFICATION FairSpec
CONSTANTS
  MaxRuns = 1
  MaxFaults = 1
  CheckpointEarly = FALSE
  ForceSync = TRUE
  HandResume = FALSE
INVARIANTS
  NeverBroken
PROPERTIES
  NoBootLoop
  PreparedFinishes
