SPECIFICATION Spec
CONSTANTS
  Board = {a}
  NoBoard = none
  MainConfs <- TwoConfs
  MaxMsgs = 2
  MaxNew = 1
  Commands <- Reading
  Faults <- NoFaults
PROPERTIES
  LastReadKept
  LeavingSavesPointer
  AutoJoinFindsUnread
