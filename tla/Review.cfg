\* Two processes, one after the other or once at the same time; a crash; every
\* result is stored before the next node starts.
SPECIFICATION Spec
CONSTANTS
  Procs = {p1, p2}
  Panels = {"APPROVE_WITH_NOTES", "ESCALATE"}
  Answers = {"ack", "override:garbage", "APPROVE_WITH_NOTES"}
  MaxLag = 0
  MaxCrashes = 1
  MaxAnswers = 2
  MaxOverlaps = 1
SYMMETRY ProcSymmetry
INVARIANTS SideEffectsOnce NoUnattendedEscalation ApprovalIsEarned
CHECK_DEADLOCK FALSE
