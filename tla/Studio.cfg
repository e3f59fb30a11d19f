\* Two tabs and one or two builds on one workspace; a conversation just begun,
\* half way, or over, and a document written by hand or none.
SPECIFICATION Spec
CONSTANTS
  IntakeSlots <- TwoQuestions
  p1 = p1
  p2 = p2
  Proposals = {p1, p2}
  Texts = {x}
  PerRound = 2
  MaxRounds = 2
  MaxGuesses = 2
  NoDoc = NoDoc
  Tabs = {t1, t2}
  Builds = {b1, b2}
  NoBuild = NoBuild
  None = None
  Readings <- ThreeReadings
  Earlier <- Begun
  MaxClicks = 5
  MaxFaults = 1
SYMMETRY StudioSymmetry
\* INVARIANT BuiltAsShown, in place of the properties below, is violated: the confirm
\* page of an earlier document is still there after a handoff and builds the new one.
INVARIANTS BuiltFromItsWords ProposalsNeedAYes FollowUpsAreBounded
CHECK_DEADLOCK FALSE
