SPECIFICATION Spec
CONSTANTS
  None = None
  p1 = p1
  p2 = p2
  Procs = {p1, p2}
  Lanes = {1}
  Worksets = {{1}}
  Plans <- SmallPlan
  RunIds = {3}
  RunIdOf <- DistinctRunIds
  Artifacts = {}
  Capabilities = {}
  Outcomes = {"completed"}
  RouteMayRun = FALSE
  CrashMidTelemetry = TRUE
  MaxCrashes = 1
  MaxEnv = 2
SYMMETRY ProcSymmetry
INVARIANTS ReceiptBacked MergeOnlyExecuted
