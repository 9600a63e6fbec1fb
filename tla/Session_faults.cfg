SPECIFICATION FairSpec
CONSTANTS
  Board = {a}
  NoBoard = none
  MainConfs <- OneConf
  MaxMsgs = 1
  MaxNew = 1
  Commands <- Failing
  Faults <- AnyFault
INVARIANTS
  TypeOK
  LastReadInRange
PROPERTIES
  ReturnsToPrompt
