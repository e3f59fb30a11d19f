\* A build whose three attempts write, return no file and are refused.
SPECIFICATION Spec
CONSTANTS
  N = 1
  Plans <- OnePlan
  Titles = {a}
  MaxTasks = 9
  ParallelFlags = {FALSE}
  Ceiling = 0
  MaxRepairs = 1
  MaxIterations = 3
  NoPlan = NoPlan
  MaxRuns = 1
  MaxCrashes = 1
  MaxRefusals = 0
  MaxUndos = 0
  MaxErrors = 1
  MaxFaults = 3
INVARIANTS FailedBuildsLeaveNothing
CHECK_DEADLOCK FALSE
