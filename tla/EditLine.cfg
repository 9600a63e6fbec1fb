SPECIFICATION Spec
CONSTANTS
  HIST_SIZE = 3
  MEM_INC = 3
  Chars <- Typable
  Counts <- TwoCounts
  Preloads <- Prefilled
  Commands <- OneCommand
  Files <- TwoFiles
  Habits <- AllHabits
  MaxLen = 3
INVARIANTS
  TypeOK
PROPERTIES
  KillsAreYanked
  HistoryIsQueue
