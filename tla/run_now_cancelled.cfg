SPECIFICATION Spec
CONSTANTS
  Job = {j1}
  JobSpecs <- PlainSpecs
  MaxAttempts = 2
  NoHumanMode = "human"
  ClaimBatch = 1
  MaxConcurrency = 1
  CrashPoints = {}
  MaxTasks = 1
  MaxApprovals = 1
  MaxCrashes = 0
  MaxRequests = 2
INVARIANT QueuedJobCanRun
CHECK_DEADLOCK FALSE
