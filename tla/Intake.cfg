SPECIFICATION Spec
CONSTANTS
  Keys = {k1, k2}
  NoKey = NoKey
  Listers = {t1}
  Work = {w1, w2, w3}
  MaxRows = 1
  MaxRequests = 4
  MaxListings = 2
  MaxCrashes = 1
SYMMETRY Symmetries
INVARIANTS AlertsBecomeIncidents JobsAreTheLatest
CHECK_DEADLOCK FALSE
