\* A retry after a refusal.
SPECIFICATION ChatSpec
CONSTANTS
  Prompts = {1, 2}
  BrokenPrompts = {2}
  AnswerTexts <- McAnswerTexts
  ModeText <- McModeText
  ContextRoom = 7
  WaitTime = 2
  WatchdogTime = 2
  MaxHistory = 7
INVARIANTS RetryWellFormed
