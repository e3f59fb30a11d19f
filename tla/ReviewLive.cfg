\* Crashes, each followed by a recovery; a stored result may lag behind its node.
SPECIFICATION FairSpec
CONSTANTS
  Procs = {p1}
  Panels = {"APPROVE", "ESCALATE"}
  Answers = {"ack", "override:garbage", "APPROVE"}
  MaxLag = 1
  MaxCrashes = 2
  MaxAnswers = 2
  MaxOverlaps = 0
INVARIANTS MirrorCoversCheckpoint AppendOnlyMirror
PROPERTIES EveryReviewSettles
CHECK_DEADLOCK FALSE
