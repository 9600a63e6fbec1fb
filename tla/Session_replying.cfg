SPECIFICATION Spec
CONSTANTS
  Board = {a}
  NoBoard = none
  MainConfs <- OneConf
  MaxMsgs = 2
  MaxNew = 1
  Commands <- Replying
  Faults <- NoFaults
INVARIANTS
  OpenFileIsCurrentConf
  LastReadInRange
  ReplyExistIsTrue
