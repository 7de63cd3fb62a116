SPECIFICATION FairSpec
CONSTANTS
  Job = {j1, j2}
  JobSpecs <- ScheduleSpecs
  MaxAttempts = 2
  NoHumanMode = "human"
  ClaimBatch = 2
  MaxConcurrency = 1
  CrashPoints = {"anywhere", "tick"}
  MaxTasks = 1
  MaxApprovals = 1
  MaxCrashes = 1
  MaxRequests = 1

PROPERTIES OneShotSettles RecurringKeepsRunning CrashedRunIsRecovered
CHECK_DEADLOCK FALSE
