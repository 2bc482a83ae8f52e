SPECIFICATION Spec
CONSTANTS
  Calls = {c1, c2, c3}
  Hosts = {h1}
  HostOf <- MCHostOf
  MaxConns <- MCMaxConns
  BaseDelay <- MCBaseDelay
  MaxDelay = 3
  MaxTime = 1
  None = None
INVARIANTS TypeOK WithinMaxConns SlotsSpaced Throughput DelayInRange
PROPERTY Served
CHECK_DEADLOCK FALSE
