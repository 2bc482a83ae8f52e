SPECIFICATION Spec
CONSTANTS
  Calls = {c1, c2}
  Keys = {k1, k2}
  Hosts = {h1}
  KeyOf <- MCOwnKeyOf
  HostOf <- MCHostOf
  MaxConns <- MCMaxConns
  BaseDelay <- MCBaseDelay
  Cancellable = {c1, c2}
  MaxDelay = 2
  None = None
PROPERTY SuccessLowersDelay
CHECK_DEADLOCK FALSE
