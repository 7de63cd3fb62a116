SPECIFICATION Spec
CONSTANTS
  Job = {j1, j2}
  JobSpecs <- BrokenSpecs
  MaxAttempts = 2
  NoHumanMode = "human"
  ClaimBatch = 2
  MaxConcurrency = 2
  CrashPoints = {}
  MaxTasks = 2
  MaxApprovals = 1
  MaxCrashes = 0
  MaxRequests = 0
INVARIANT OneTaskPerJob
CHECK_DEADLOCK FALSE
