CONSTANTS
  Paths = {p1, p2, p3, p4}
  None = None
  MaxRuns = 2
SPECIFICATION Spec
SYMMETRY Symmetry
INVARIANTS
  InputKept
  ExtractsSavedFirst
PROPERTY OutcomeTold
CHECK_DEADLOCK FALSE
