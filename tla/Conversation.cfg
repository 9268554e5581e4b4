CONSTANTS
  Said <- MCSaid
  Unlimited = unlimited
  Windows <- MCWindows
  MaxMessages = 4
SPECIFICATION ConversationSpec
INVARIANTS
  WordsInOrder
  ResultsAnswerCalls
  ImagesOfTheWindow
CHECK_DEADLOCK FALSE
