SPECIFICATION Spec
CONSTANTS
  Calls = {c1, c2, c3}
  Keys = {k1}
  Hosts = {h1}
  KeyOf <- MCKeyOf
  HostOf <- MCHostOf
  MaxConns <- MCMaxConns
  BaseDelay <- MCBaseDelay
  Cancellable = {c1, c2, c3}
  MaxDelay = 2
  None = None
SYMMETRY Symmetry
CHECK_DEADLOCK FALSE
INVARIANTS TypeOK SlotsConserved ActiveIsUsers NoLeak
PROPERTIES NoForeignClose ImplementsSharing
