SPECIFICATION FairSpec
CONSTANTS
  None = None
  p1 = p1
  p2 = p2
  PlanId = planId
  Procs = {p1}
  Capabilities = {"lifeline"}
  Actions = {"adjust_upcoming_workout_load", "revise_weekly_goal_plan"}
  Required = {"test-autofix"}
  Autofix = "test-autofix"
  Contents = {"run1", "run2"}
  Sound = {"run1"}
  Heads = {"h1", "h2"}
  Commands = {"register", "emit", "emitPlan", "emitDraft", "runMock", "reconcile", "create"}
  Returned = {}
  MaxRuns = 6
INVARIANTS TypeOK RealOnlyWithReceipt OneRequestPerKey StateIsOutcome ExecutedOnce TruthBacked
PROPERTIES EveryRequestSettles
