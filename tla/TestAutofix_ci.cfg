SPECIFICATION Spec
CONSTANTS
  NoHistory = NoHistory
  j1 = j1
  j2 = j2
  s1 = s1
  s2 = s2
  s3 = s3
  Jobs = {j1, j2}
  Signatures = {s1, s2, s3}
  kindOf <- MCKindOf
  Located = {s1, s2, s3}
  Logs = {{s1}, {s1, s2, s3}}
  Threshold = 450
  Lookback = 2
  Dispatches <- MCDispatches
  MaxRuns = 3
  MaxMishaps = 2
SYMMETRY Symm
INVARIANTS TypeOK RunsNumbered KnownBadStops BlockedForCause
CHECK_DEADLOCK FALSE
