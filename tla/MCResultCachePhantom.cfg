SPECIFICATION Spec
CONSTANTS
  Procs = {p1, p2}
  Jobs <- MCJobs
  None = None
INVARIANT EntriesAreResults
CHECK_DEADLOCK FALSE
