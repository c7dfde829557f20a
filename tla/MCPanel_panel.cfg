\* Two bytes of two, a clock of six, waits of one.
SPECIFICATION PanelSpec
CONSTANTS
  W = 6
  MaxPass = 2
  Base = 2
  Bytes = 2
  intervalSaveKeycount = 1
  MaxPresses = 3
  MaxBoots = 1
  TIMEOUT_WAIT_LCD = 1
  GenerativeModes = {0, 1}
  MaxTouches = 2
  MaxAsked = 3
INVARIANTS CountNeverAhead LossNeedsCarry SaveIsTimely ModeFollows PromptIsText
CONSTRAINT McApart
CHECK_DEADLOCK FALSE
