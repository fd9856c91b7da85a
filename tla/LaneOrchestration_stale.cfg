SPECIFICATION Spec
CONSTANTS
  None = None
  p1 = p1
  p2 = p2
  Procs = {p1}
  Lanes = {1, 2}
  Tasks = {"t1", "t2"}
  Surfaces = {1, 2}
  Worksets <- TwoWorksets
  Results <- CompletedResults
  Rank <- SomeRank
  Scopes = {}
  Commands = {"lanes", "start", "complete", "assign", "launch", "submit", "orchestrate"}
  MaxRuns = 8
INVARIANTS MergeReadyWorked
CHECK_DEADLOCK FALSE
