SPECIFICATION Spec
CONSTANTS
  Board = {a}
  NoBoard = none
  MainConfs <- OneConf
  MaxMsgs = 2
  MaxNew = 1
  Commands <- KillRun
  Faults <- NoFaults
PROPERTIES
  KillHitsShown
