SPECIFICATION Spec
CONSTANTS
  Reviews = {r1}
  Slots = {s1}
  Starts <- HumanPaths
  Changes <- HumanChange
  Panels <- TwoPanels
  PolicyFiles <- Policies
  Commands = {"deploy", "deploy2"}
  Lagging = FALSE
  MaxDay = 1
  Limits <- OneOfEach
INVARIANTS HumanPathsNeedAHuman
CHECK_DEADLOCK FALSE
