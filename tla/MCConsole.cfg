SPECIFICATION ConsoleSpec
CONSTANTS
  BUFFER_WIDTH = 3
  BUFFER_HEIGHT = 7
  BOTTOM = 2
  CLOCK_ROW = 3
  CLOCK_COLUMNS = {1}
  MAX_PROMPT = 4
  ArrowBound = 1
  ArrowsFree = FALSE
INVARIANTS ConsoleTypeOK EchoIsExact TextStaysAboveTheClock TokensAreTheWords
PROPERTIES LineIsKept EveryKeyIsTaken
