\* Modes: the sleep and lock keys and Escape, a choice of generative mode, with failing EEPROM
\* writes.
SPECIFICATION Spec
CONSTANTS
  MatrixKeys <- McKeysModes
  SpecialKeys <- McSpModes
  Answers <- McAnswers
  ModeInfo <- McModeInfo
  ModeReplies = {0}
  BootModes = {0, 1, 255}
  EepromMayFail = TRUE
  MaxResets = 1
  UartRoom = 4
  SerialRoom = 1
INVARIANTS ModeSaved TypeOK
PROPERTIES LockHolds DarkKeyboardOnlyByTag UnknownModeLeftByKeys
