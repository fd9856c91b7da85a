SPECIFICATION Spec
CONSTANTS
  None = None
  p1 = p1
  s1 = s1
  r1 = r1
  r2 = r2
  Procs = {p1}
  Repos = {r1, r2}
  Stories = {s1}
  Fingerprints = {"f1"}
  SetStatuses = {"ready", "archived"}
  Fleets <- MCFleets
  Commands = {"create", "status", "promoteCandidate", "promoteStory", "route", "routeTask", "bridge", "ingest", "statusUpdated", "replay"}
  MaxResults = 2
  MaxCommands = 4
  MaxAdoptions = 1
  MaxCrashes = 1
INVARIANTS TypeOK CompletionBacked PlanPrecedesProgress NothingForgotten
PROPERTY ClosedStaysClosed
CHECK_DEADLOCK FALSE
