\* A crash between a task's commit and its row.
SPECIFICATION Spec
CONSTANTS
  N = 1
  Plans <- OnePlan
  Titles = {a}
  MaxTasks = 9
  ParallelFlags = {FALSE}
  Ceiling = 0
  MaxRepairs = 1
  MaxIterations = 3
  NoPlan = NoPlan
  MaxRuns = 2
  MaxCrashes = 1
  MaxRefusals = 0
  MaxUndos = 0
  MaxErrors = 1
  MaxFaults = 3
INVARIANTS InterruptedTaskRestarts
CHECK_DEADLOCK FALSE
