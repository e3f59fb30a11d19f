\* TLC finds HandoffKeepsTheirWords violated: only the first document a
\* conversation replaces is kept.
SPECIFICATION Spec
CONSTANTS
  IntakeSlots <- TwoQuestions
  p1 = p1
  p2 = p2
  Proposals = {p1, p2}
  Texts = {x, y}
  PerRound = 2
  MaxRounds = 2
  MaxGuesses = 2
  NoDoc = NoDoc
  Tabs = {t1, t2}
  Builds = {b1, b2}
  NoBuild = NoBuild
  None = None
  Readings <- ThreeReadings
  Earlier <- Begun
  MaxClicks = 5
  MaxFaults = 1
PROPERTY HandoffKeepsTheirWords
CHECK_DEADLOCK FALSE
