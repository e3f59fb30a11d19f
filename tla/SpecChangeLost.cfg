\* An amendment that only lies in the tree, and a failed build or repair after it.
SPECIFICATION Spec
CONSTANTS
  s1 = s1
  s2 = s2
  t1 = t1
  t2 = t2
  f1 = f1
  Slugs = {s1, s2}
  Texts = {t1, t2}
  Changes <- OneChange
  Features = {f1}
  Old = s1
  OldText = t1
  None = None
  MaxTasks = 1
  MaxRuns = 2
  MaxEvents = 2
  MaxScrs = 2
PROPERTIES RatifiedStays
CHECK_DEADLOCK FALSE
