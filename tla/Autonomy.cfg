\* What may happen in one behaviour is one of the three lists EachInTurn.
SPECIFICATION Spec
CONSTANTS
  Reviews = {r1, r2}
  Slots = {s1, s2}
  Starts <- FullOrLint
  Changes <- SomeChanges
  Panels <- TwoPanels
  PolicyFiles <- Policies
  Commands = {"deploy", "deploy2"}
  Lagging = FALSE
  MaxDay = 1
  Limits <- EachInTurn
INVARIANTS MarksSurvive RecordMatchesFinal TrustIsEarned ActionsStandOnRecord
CHECK_DEADLOCK FALSE
SYMMETRY ReviewSymmetry
