\* TLC finds BuildsThePlanOfItsWords violated: two builds started at once, over an
\* edit of FDR.md, save a plan each, and both build the one that was saved last.
SPECIFICATION Spec
CONSTANTS
  IntakeSlots <- TwoQuestions
  p1 = p1
  p2 = p2
  Proposals = {p1, p2}
  Texts = {x}
  PerRound = 2
  MaxRounds = 2
  MaxGuesses = 2
  NoDoc = NoDoc
  Tabs = {t1, t2}
  Builds = {b1, b2}
  NoBuild = NoBuild
  None = None
  Readings <- ThreeReadings
  Earlier <- Begun
  MaxClicks = 5
  MaxFaults = 1
SYMMETRY StudioSymmetry
INVARIANT BuildsThePlanOfItsWords
CHECK_DEADLOCK FALSE
