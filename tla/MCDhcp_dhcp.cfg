\* Two servers, two boots; timeouts of one second each.  The servers are symmetric.
SPECIFICATION DhcpSpec
CONSTANTS
  Server = {A, B}
  None = None
  Timeout = 1
  ResponseTimeout = 1
  MaxBoots = 2
  MaxTransactions = 3
SYMMETRY Servers
INVARIANTS LeaseIsGranted RequestIsShort
CHECK_DEADLOCK FALSE
