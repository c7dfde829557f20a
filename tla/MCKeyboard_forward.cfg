\* Forwarding: a key and the special key with its code (Control), Enter, and the mode key, so
\* that each scan can find several changes and the chat can follow a change of mode in the same
\* pass; fairness.
SPECIFICATION FairSpec
CONSTANTS
  MatrixKeys <- McKeysForward
  SpecialKeys <- McSpForward
  Answers <- McAnswers
  ModeInfo <- McModeInfo
  ModeReplies = {}
  BootModes = {0}
  EepromMayFail = FALSE
  MaxResets = 1
  UartRoom = 4
  SerialRoom = 1
VIEW McForwardView
INVARIANTS HostHeldJustified ChatOnlyFromQuery
PROPERTIES PinsSettle
