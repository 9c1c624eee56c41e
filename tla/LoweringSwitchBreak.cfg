CONSTANTS
  Programs <- SwitchBreaks
  MaxLoopNesting = 16
  MaxBreaksPerLoop = 32
SPECIFICATION Spec
CHECK_DEADLOCK FALSE
INVARIANT SwitchBreakIsNoOp
