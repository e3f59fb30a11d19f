\* A re-planned run whose build fails.
SPECIFICATION Spec
CONSTANTS
  N = 2
  Plans <- TwoPlans
  Titles = {a, b}
  MaxTasks = 9
  ParallelFlags = {FALSE}
  Ceiling = 0
  MaxRepairs = 1
  MaxIterations = 3
  NoPlan = NoPlan
  MaxRuns = 2
  MaxCrashes = 0
  MaxRefusals = 0
  MaxUndos = 0
  MaxErrors = 1
  MaxFaults = 3
INVARIANTS LockedPlanHolds
CHECK_DEADLOCK FALSE
