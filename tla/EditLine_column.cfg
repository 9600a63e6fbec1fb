SPECIFICATION Spec
CONSTANTS
  HIST_SIZE = 2
  MEM_INC = 3
  Chars <- Typable
  Counts <- TwoCounts
  Preloads <- Prefilled
  Commands <- OneCommand
  Files <- TwoFiles
  Habits <- Column
  MaxLen = 3
PROPERTIES
  KillToColumn
