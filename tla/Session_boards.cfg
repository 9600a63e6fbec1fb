SPECIFICATION Spec
CONSTANTS
  Board = {a, b}
  NoBoard = none
  MainConfs <- OneConf
  MaxMsgs = 1
  MaxNew = 1
  Commands <- Moving
  Faults <- NoFaults
INVARIANTS
  OpenFileIsCurrentConf
PROPERTIES
  LeavingSavesPointer
