SPECIFICATION FairSpec
CONSTANTS
  Note = {n1}
  MaxAttempts = 2
  NoRecord = NoRecord
  AnyOverlap = FALSE
  MaxRequests = 1
  MaxRestarts = 1
INVARIANTS TypeOK EndingsAreHonest InstructionsKept
PROPERTIES SweepSparesTheLiving StoppedIsNotCompleted EveryRunCloses
CHECK_DEADLOCK FALSE
