SPECIFICATION Spec
CONSTANTS
  Board = {a}
  NoBoard = none
  MainConfs <- OneConf
  MaxMsgs = 2
  MaxNew = 1
  Commands <- PurgeRun
  Faults <- NoFaults
PROPERTIES
  PurgeKeepsUnread
