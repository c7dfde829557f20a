\* The four sockets of the configuration, two ports for lookups.  Fairness.
SPECIFICATION SocketsFairSpec
CONSTANTS
  MAX_SOCK_NUM = 4
  Ports = {1024, 1025}
  MaxLength = 5
  MaxWaiting = 1
INVARIANTS OneHolder SocketIsFree DatagramExact AnswerOfALookup
PROPERTIES ConnectEnds
