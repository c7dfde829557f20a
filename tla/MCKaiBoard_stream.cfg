\* Escape in query mode: streams of at most one character.
SPECIFICATION BoardSpec
CONSTANTS
  MatrixKeys <- McEscape
  SpecialKeys <- McNoKey
  Answers <- McNoAnswer
  ModeInfo <- McModeInfo
  ModeReplies = {0}
  BootModes = {1}
  EepromMayFail = FALSE
  MaxResets = 1
  UartRoom = 3
  SerialRoom = 1
  RxRoom = 2
  DebugRoom = 1
  ReportRoom = 6
  ConnectionLasts = TRUE
INVARIANTS StreamInFlight
