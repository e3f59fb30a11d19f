SPECIFICATION FairSpec
CONSTANTS
  Skills <- SomeSkills
  Verdicts <- SomeVerdicts
  MaxForeign = 1
  Voters <- Roster
  Style = "style"
  ToolReports <- SomeReports
  Policy <- Defaults
INVARIANTS VerdictMatchesReport SitesSurviveFolding
PROPERTIES EveryReviewIsDecided
CHECK_DEADLOCK FALSE
