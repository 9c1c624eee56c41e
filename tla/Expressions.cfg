CONSTANTS
  Bits = 4
  Locals <- AllVariables
  Budget = 4
  Programs <- AllPrograms
  Inputs <- AllInputs
  Targets = {"SPIR-V", "WGSL"}
SPECIFICATION Spec
CHECK_DEADLOCK FALSE
INVARIANTS
  EmitsValidCode
  MeansTheSource
  AcceptedAsDocumented
