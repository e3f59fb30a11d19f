SPECIFICATION FairSpec
CONSTANTS
  Incidents = {i1, i2}
  Class <- OneClass
  Procs <- TwoOfOne
  Names = {n1, n2}
  RecurrenceThreshold = 2
  MaxHistory = 2
  Lagging = FALSE
  Limits <- EachInTurn
INVARIANTS OnlyApprovedIsInjected DraftsAreEarned
PROPERTIES EveryIncidentSettles
CHECK_DEADLOCK FALSE
