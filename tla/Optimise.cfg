CONSTANTS
  Width = 4
  Functions <- AllStages
  WidenAfter = 3
  MaxPasses = 4
  MaxRounds = 16
  LoopBudget = 40
  LocalStoresTracked = 2
  MaxSteps = 40
SPECIFICATION Spec
INVARIANTS
  TypeOK
  ResultsAgree
  AnalysisHolds
  TargetsAgree
