SPECIFICATION Spec
CONSTANTS
  None = None
  p1 = p1
  p2 = p2
  Procs = {p1, p2}
  Lanes = {1, 2}
  Tasks = {"t1", "t2"}
  Surfaces = {1, 2}
  Worksets <- AllWorksets
  Results <- AllResults
  Rank <- SomeRank
  Scopes = {{1}}
  Commands = {"lanes", "start", "complete", "assign", "launch", "submit", "orchestrate"}
  MaxRuns = 6
SYMMETRY ProcSymmetry
INVARIANTS TypeOK DependencyOrder MergeReadyWorked LaunchAfterDependencies
CHECK_DEADLOCK FALSE
