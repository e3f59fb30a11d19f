\* A recovery starts while the worker still runs.
SPECIFICATION Spec
CONSTANTS
  Procs = {p1, p2}
  Panels = {"APPROVE", "APPROVE_WITH_NOTES", "REQUEST_CHANGES", "ESCALATE"}
  Answers = {"ack", "override:garbage", "APPROVE", "REQUEST_CHANGES"}
  MaxLag = 0
  MaxCrashes = 0
  MaxAnswers = 0
  MaxOverlaps = 1
SYMMETRY ProcSymmetry
INVARIANTS AppendOnlyMirror
CHECK_DEADLOCK FALSE
