SPECIFICATION StallingSpec
CONSTANTS
  Calls = {c1, c2}
  Keys = {k1}
  Hosts = {h1}
  KeyOf <- MCKeyOf
  HostOf <- MCHostOf
  MaxConns <- MCMaxConns
  BaseDelay <- MCBaseDelay
  Cancellable = {c1, c2}
  MaxDelay = 2
  None = None
PROPERTY CancelledReturns
CHECK_DEADLOCK FALSE
