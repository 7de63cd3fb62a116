SPECIFICATION Spec
CONSTANTS
  Task = {t1}
  Lives = 2
  Cron <- Expressions
  Occurs <- Times
  None = None
  CatchUpLimit = 2
  AdvanceGuard = 0
  SkipGuard = 1
  DefaultGrace = 1
  MaxTime = 2
  MaxCommands = 1
  MaxFaults = 1
INVARIANTS TypeOK OnePoller OnceEver NothingUnsaved
PROPERTIES InOrder PollMovesOn
CHECK_DEADLOCK FALSE
