CONSTANTS
  Programs <- AllPrograms
SPECIFICATION FairSpec
INVARIANTS
  BlocksMeanTheProgram
  FingersStayInTree
  DominatorsCorrect
  FrontiersCorrect
PROPERTIES
  Terminates
