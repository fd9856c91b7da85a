SPECIFICATION FairSpec
CONSTANTS
  None = None
  p1 = p1
  p2 = p2
  Procs = {p1}
  Lanes = {1, 2}
  Worksets = {{1, 2}, {1}}
  Plans <- TwoPlans
  RunIds = {0, 3}
  RunIdOf <- DistinctRunIds
  Artifacts = {}
  Capabilities = {}
  Outcomes = {"completed"}
  RouteMayRun = FALSE
  CrashMidTelemetry = FALSE
  MaxCrashes = 2
  MaxEnv = 4
PROPERTIES ResumeCompletes
