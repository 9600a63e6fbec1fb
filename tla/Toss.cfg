SPECIFICATION FairSpec
CONSTANTS
  MAXCONF = 3
  Controls <- AllControls
  Packets <- AllPackets
  RECS = 2
  MAXRECS = 3
  Faults <- AnyFault
  MaxLoads = 2
INVARIANTS
  TableWhole
  TossedRight
  IndexCovers
CHECK_DEADLOCK FALSE
PROPERTIES
  OldMailKept
  LoadEnds
