SPECIFICATION Spec
CONSTANTS
  Job = {j1}
  Automation = {a1, a2}
  Event = {e1}
  Mission = {m1, m2}
  Request = {r1, r2}
  None = None
  JobOf <- AllInOneJob
  Wirings <- AllWirings
  StopPasses = 2
  MaxCommands = 4
  MaxFaults = 1
SYMMETRY Symmetry
INVARIANTS TypeOK ReceiptNamesItsMission ClaimsHaveARequest OneDeployment
PROPERTIES StopLeavesNothingRunning TrackedUntilEnded DeliveredOnce
CHECK_DEADLOCK FALSE
