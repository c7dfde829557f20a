\* Records of two bytes, four bytes written, two supplied.  Fairness.
SPECIFICATION TlsFairSpec
CONSTANTS
  OutRoom = 2
  Timeout = 2
  MaxWritten = 4
  MaxSupplied = 2
INVARIANTS TlsTypeOK BufferNotShared SentInOrder
PROPERTIES ReadSkipsNothing CallsReturn WrittenIsSent IsChannel
