SPECIFICATION Spec
CONSTANTS
  NoHistory = NoHistory
  j1 = j1
  j2 = j2
  s1 = s1
  s2 = s2
  s3 = s3
  Jobs = {j1}
  Signatures = {s1, s2, s3}
  kindOf <- MCKindOf
  Located = {s1, s2, s3}
  Logs = {{s1}}
  Threshold = 500
  Lookback = 2
  Dispatches <- MCDispatches
  MaxRuns = 4
  MaxMishaps = 1
INVARIANTS AdmittedRunRecorded
CHECK_DEADLOCK FALSE
