CONSTANTS
  Functions <- AllFunctions
  RegisterLimit = 20
  MaxSteps = 13
SPECIFICATION FairSpec
INVARIANTS
  ReadsAgree
  SingleDefinition
  DefinitionsDominateReads
  StacksFollowTheTree
PROPERTY ExactlyDeadPhisGo
