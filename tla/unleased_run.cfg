SPECIFICATION Spec
CONSTANTS
  Job = {j1}
  JobSpecs <- FlaggedSpecs
  MaxAttempts = 2
  NoHumanMode = "human"
  ClaimBatch = 1
  MaxConcurrency = 1
  CrashPoints = {}
  MaxTasks = 1
  MaxApprovals = 1
  MaxCrashes = 0
  MaxRequests = 1
INVARIANT EveryRunIsLeased
CHECK_DEADLOCK FALSE
