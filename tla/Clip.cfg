SPECIFICATION Spec
CONSTANTS
  MaxMsgs = 3
  Sizes <- TwoSizes
  NoFile = NoFile
  Torn = Torn
  Faults <- Noticed
INVARIANTS
  TypeOK
  KeptOnDisk
  EndsClean
PROPERTIES
  AbsSpec
CHECK_DEADLOCK FALSE
