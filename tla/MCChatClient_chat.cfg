\* Up to two answered questions; more than seven items are too long.  Fairness.
SPECIFICATION ChatFairSpec
CONSTANTS
  Prompts = {1, 2}
  BrokenPrompts = {2}
  AnswerTexts <- McAnswerTexts
  ModeText <- McModeText
  ContextRoom = 7
  WaitTime = 2
  WatchdogTime = 2
  MaxHistory = 7
INVARIANTS AnswerInOrder ConversationFaithful OfferedIsWhole
PROPERTIES QuestionEnds
