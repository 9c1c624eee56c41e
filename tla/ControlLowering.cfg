CONSTANTS
  Programs <- AllPrograms
  MaxLoopNesting = 16
  MaxBreaksPerLoop = 32
SPECIFICATION FairSpec
CHECK_DEADLOCK FALSE
INVARIANTS
  RunsAgree
  MergesAreDistinct
PROPERTY KeepsPace
