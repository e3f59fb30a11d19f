\* cli.py, deploy-execute, "only on a PROMOTE": a recovery beside a live review may score it anew after it was deployed.
SPECIFICATION Spec
CONSTANTS
  Reviews = {r1, r2}
  Slots = {s1, s2}
  Starts <- FullOrLint
  Changes <- SomeChanges
  Panels <- TwoPanels
  PolicyFiles <- Policies
  Commands = {"deploy", "deploy2"}
  Lagging = FALSE
  MaxDay = 1
  Limits <- EachInTurn
INVARIANTS DeploysStandOnPromote
CHECK_DEADLOCK FALSE
SYMMETRY ReviewSymmetry
