SPECIFICATION Spec
CONSTANTS
  block_SIZE = 4
  REPLY_LINE_LEN = 3
  QUOTE_COLS = 3
  TAG_END = 4
  TLMX = 4
  Words <- AllWords
  MaxTags = 2
  Habits <- Signalled
  Received <- Answered
  None = None
  MaxInts = 2
INVARIANTS
  OwnInterrupt
