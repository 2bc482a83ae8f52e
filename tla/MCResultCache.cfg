SPECIFICATION Spec
CONSTANTS
  Procs = {p1, p2, p3}
  Jobs <- MCJobs
  None = None
SYMMETRY Symmetry
INVARIANTS TypeOK InvalidationSticks
CHECK_DEADLOCK FALSE
