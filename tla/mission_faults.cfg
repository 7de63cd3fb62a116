SPECIFICATION Spec
CONSTANTS
  Job = {j1, j2}
  JobSpecs <- FaultSpecs
  MaxAttempts = 2
  NoHumanMode = "human"
  ClaimBatch = 2
  MaxConcurrency = 2
  CrashPoints = {"anywhere", "decide", "defer", "enqueue"}
  MaxTasks = 2
  MaxApprovals = 2
  MaxCrashes = 1
  MaxRequests = 2
SYMMETRY Symmetry
INVARIANTS ApprovedBeforeHandled ApprovalBacksRun OneOpenRequest AwaitingHasRequest OneAwaitedTaskPerJob
CHECK_DEADLOCK FALSE
