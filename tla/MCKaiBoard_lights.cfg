\* The sleep key: bytes that are no command follow the command.
SPECIFICATION BoardSpec
CONSTANTS
  MatrixKeys <- McNoKey
  SpecialKeys <- McSpSleep
  Answers <- McNoAnswer
  ModeInfo <- McModeInfo
  ModeReplies = {}
  BootModes = {0}
  EepromMayFail = FALSE
  MaxResets = 1
  UartRoom = 2
  SerialRoom = 1
  RxRoom = 4
  DebugRoom = 0
  ReportRoom = 6
  ConnectionLasts = FALSE
INVARIANTS LightsInFlight NothingEchoed
