\* Three sequential runs, re-plans among them, with a token bound and a crash, a
\* refused commit or an undo.
SPECIFICATION Spec
CONSTANTS
  N = 2
  Plans <- TwoPlans
  Titles = {a, b}
  MaxTasks = 9
  ParallelFlags = {FALSE}
  Ceiling = 1
  MaxRepairs = 0
  MaxIterations = 3
  NoPlan = NoPlan
  MaxRuns = 3
  MaxCrashes = 1
  MaxRefusals = 1
  MaxUndos = 1
  MaxErrors = 1
  MaxFaults = 1
INVARIANTS BuiltRowsAreTrue FlagFollowsWork CompletedMeansBuilt OnlyGatedCodeIsCommitted
  FailuresAreRetried
CHECK_DEADLOCK FALSE
