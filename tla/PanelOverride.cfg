SPECIFICATION FairSpec
CONSTANTS
  Skills <- Overridden
  Verdicts <- SomeVerdicts
  MaxForeign = 0
  Voters <- Roster
  Style = "style"
  ToolReports <- SomeReports
  Policy <- Defaults
PROPERTIES EveryReviewIsDecided
CHECK_DEADLOCK FALSE
