SPECIFICATION Spec
CONSTANTS
  Job = {j1, j2}
  JobSpecs <- EngineSpecs
  MaxAttempts = 2
  NoHumanMode = "human"
  ClaimBatch = 2
  MaxConcurrency = 1
  CrashPoints = {"anywhere", "tick"}
  MaxTasks = 2
  MaxApprovals = 1
  MaxCrashes = 1
  MaxRequests = 2
SYMMETRY Symmetry
INVARIANTS TypeOK OneTaskPerJob RunIsLeased RecurringNeverEnds
PROPERTY CancelStopsNewRuns
CHECK_DEADLOCK FALSE
