\* A parallel run that resumes.
SPECIFICATION Spec
CONSTANTS
  N = 2
  Plans <- OnePlan
  Titles = {a}
  MaxTasks = 9
  ParallelFlags = {FALSE, TRUE}
  Ceiling = 0
  MaxRepairs = 1
  MaxIterations = 3
  NoPlan = NoPlan
  MaxRuns = 2
  MaxCrashes = 1
  MaxRefusals = 0
  MaxUndos = 0
  MaxErrors = 1
  MaxFaults = 3
INVARIANTS WavesCoverThePlan
CHECK_DEADLOCK FALSE
