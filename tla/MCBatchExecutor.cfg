SPECIFICATION Spec
CONSTANTS
  N = 4
  Hosts = {"h1", "h2", "h3"}
  HostOf <- MCHostOf
  Concurrencies <- MCConcurrencies
INVARIANTS TypeOK ExactlyOneResult WithinConcurrency ProgressAddsUp
PROPERTIES ImplementsContract Returns
CHECK_DEADLOCK FALSE
