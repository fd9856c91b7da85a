SPECIFICATION Spec
CONSTANTS
  None = None
  p1 = p1
  p2 = p2
  PlanId = planId
  Procs = {p1}
  Capabilities = {"lifeline"}
  Actions = {"adjust_upcoming_workout_load", "revise_weekly_goal_plan"}
  Required = {"test-autofix"}
  Autofix = "test-autofix"
  Contents = {"run1"}
  Sound = {"run1"}
  Heads = {"h1"}
  Commands = {"register", "emit", "emitPlan", "emitDraft", "reconcile", "create"}
  Returned = {"completed", "failed"}
  MaxRuns = 6
INVARIANTS StateIsOutcome TruthBacked
PROPERTIES TruthIsFinal
