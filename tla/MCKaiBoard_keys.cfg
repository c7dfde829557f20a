\* The Delete key: connection losses, a full receiver, a restart; fairness.
SPECIFICATION BoardFairSpec
CONSTANTS
  MatrixKeys <- McDelete
  SpecialKeys <- McNoKey
  Answers <- McNoAnswer
  ModeInfo <- McModeInfo
  ModeReplies = {}
  BootModes = {0}
  EepromMayFail = FALSE
  MaxResets = 1
  UartRoom = 2
  SerialRoom = 1
  RxRoom = 4
  DebugRoom = 0
  ReportRoom = 6
  ConnectionLasts = FALSE
INVARIANTS BoardTypeOK KeysInFlight
PROPERTIES KeysArrive
