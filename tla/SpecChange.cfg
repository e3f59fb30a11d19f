\* One drafted change, one other feature, two runs; of approvals, repairs, undos
\* and crashes any two; two change requests.
SPECIFICATION Spec
CONSTANTS
  s1 = s1
  s2 = s2
  t1 = t1
  t2 = t2
  f1 = f1
  Slugs = {s1, s2}
  Texts = {t1, t2}
  Changes <- OneChange
  Features = {f1}
  Old = s1
  OldText = t1
  None = None
  MaxTasks = 1
  MaxRuns = 2
  MaxEvents = 2
  MaxScrs = 2
INVARIANTS OneRewritePerApproval AmendmentFollowsItsBuild NoUnratifiedFork
PROPERTIES NumbersStay
CHECK_DEADLOCK FALSE
