\* Packets of up to five bytes, reads of up to four; both protocols.  The peer may stop.
SPECIFICATION RxFairSpec
CONSTANTS
  MaxRead = 4
  MaxPacket = 5
  MaxArrived = 11
INVARIANTS ReadInOrder CountsAgree
PROPERTIES AllIsRead
CHECK_DEADLOCK FALSE
