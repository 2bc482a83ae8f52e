SPECIFICATION Spec
CONSTANTS
  Procs = {p1, p2, p3}
  Aliases = {a1, a2}
  Settings = {format, bare}
  BareGroup = bare
INVARIANT AtomicWrite
CHECK_DEADLOCK FALSE
