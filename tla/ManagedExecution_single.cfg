SPECIFICATION Spec
CONSTANTS
  None = None
  p1 = p1
  p2 = p2
  Procs = {p1}
  Lanes = {1, 2}
  Worksets = {{1, 2}, {1}}
  Plans <- ThreePlans
  RunIds = {0, 2}
  RunIdOf <- CollidingRunIds
  Artifacts = {"fragment"}
  Capabilities = {"cap"}
  Outcomes = {"completed", "failed"}
  RouteMayRun = TRUE
  CrashMidTelemetry = TRUE
  MaxCrashes = 2
  MaxEnv = 5
INVARIANTS TypeOK ReceiptBacked MergeOnlyExecuted TelemetryFirst
PROPERTIES ImplementsResumableRun SuccessMeansCompleted
