SPECIFICATION LoopsSpec
CONSTANTS
  Cases = 1
  Scores = {"works"}
  Reals = {TRUE}
  Resumes = {FALSE}
  Picks = {}
  Runs = {r1, r2}
  NoRun = NoRun
  None = None
  Sames = 2
  KeepDays = 1
  BuildFloor = 60
  ProbeFloor = 50
  ToFire = 2
  Faults = {"kill", "case", "teller"}
  Zone = "east"
  MaxDay = 3
  MaxBuild = 2
  MaxStarts = 3
  MaxFaults = 1
  Weekly = 3
  Drift = 4
  Grace = 0
  Repeat = 2
  MaxPosts = 0
SYMMETRY LoopsSymmetry
INVARIANTS RowsAreTheResults FiresOnReadings SpendIsSpaced
PROPERTIES NewsIsSaid ResumesPayOnce
CHECK_DEADLOCK FALSE
