\* Parallel runs with a crash and a refused commit.
SPECIFICATION FairSpec
CONSTANTS
  N = 3
  Plans <- ForkPlan
  Titles = {a}
  MaxTasks = 9
  ParallelFlags = {TRUE}
  Ceiling = 0
  MaxRepairs = 1
  MaxIterations = 3
  NoPlan = NoPlan
  MaxRuns = 2
  MaxCrashes = 1
  MaxRefusals = 1
  MaxUndos = 0
  MaxErrors = 1
  MaxFaults = 2
PROPERTIES AttemptsFollowDependencies RunEnds
CHECK_DEADLOCK FALSE
