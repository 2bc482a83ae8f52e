SPECIFICATION FairSpec
CONSTANTS
  Calls = {c1, c2, c3}
  Keys = {k1}
  Hosts = {h1}
  KeyOf <- MCKeyOf
  HostOf <- MCHostOf
  MaxConns <- MCMaxConns
  BaseDelay <- MCBaseDelay
  Cancellable = {c1}
  MaxDelay = 1
  None = None
PROPERTIES CancelledReturns AllReturn
CHECK_DEADLOCK FALSE
